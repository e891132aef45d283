------------------------------ MODULE KeyStore ------------------------------
(***************************************************************************)
(* The live key store of crates/shbox/src/auth.rs: the accepted-key        *)
(* snapshot together with the on-disk identities it was built from.  Every *)
(* authentication request stats both key sources and reloads them when an  *)
(* identity changed or SIGHUP asked for it.  Requests run on blocking      *)
(* threads, the two sources are edited by their owner at any moment, and   *)
(* each stat, each validation and each read is a step of its own.          *)
(*                                                                         *)
(* A key file is abstracted to what the store tells apart: whether it      *)
(* exists, whether it passes the file-safety checks, whether it parses,    *)
(* the keys it lists, and its status-change time.  The time is a tick of a *)
(* clock that moves with every edit, so it also names the version of the   *)
(* file.  Device, inode and size, which an in-place rewrite may keep, are  *)
(* taken to stay the same: what tells two versions apart is then the part  *)
(* of the time the identity keeps, its nanoseconds within the second.      *)
(***************************************************************************)
EXTENDS Naturals

CONSTANTS
    Requests,    \* concurrent authentication requests
    Boot,        \* the boot-time loader, not a request
    Keys,        \* key fingerprints
    Contents,    \* what the owner may write: a set of [safe, well, keys]
    NsecRange,   \* how many values the sub-second part of a time has
    MaxEdits,    \* bound on edits of the two sources
    MaxInvalidations  \* bound on SIGHUPs

VARIABLES
    file,        \* the two key sources on disk
    now,         \* the clock: one tick per edit
    store,       \* StoreState, with the ghosts seen and inv
    writer,      \* holder of the write guard of KeyStore.state, or Nobody
    revalidate,  \* the flag set by invalidate
    pc,          \* where each loader stands
    obs,         \* the identities a loader observed
    got,         \* the keys a loader has read
    ghost,       \* what a request saw when it began, observed and returned
    invals       \* ghost: number of invalidations so far

vars == <<file, now, store, writer, revalidate, pc, obs, got, ghost, invals>>

Sources == {"host", "allowed"}
Actors  == Requests \cup {Boot}
Nobody  == "nobody"

NoFile == [here |-> FALSE, safe |-> FALSE, well |-> FALSE, keys |-> {}, ctime |-> 0]

File(c) == [here |-> TRUE, safe |-> c.safe, well |-> c.well, keys |-> c.keys, ctime |-> 0]

(* FileIdentity and observe_identity: the sub-second part of the time is   *)
(* all the store keeps of it, and any path it cannot stat is Absent.       *)
Absent == [here |-> FALSE, ns |-> 0, safe |-> FALSE]

observe_identity(f) ==
    IF f.here
    THEN [here |-> TRUE, ns |-> f.ctime % NsecRange, safe |-> f.safe]
    ELSE Absent

(* AuthSnapshot::load on the keys of both sources: host keys are Admin, an *)
(* allowed key is Normal unless the host source lists it as well.          *)
Snapshot(host, allowed) ==
    [k \in host \cup allowed |-> IF k \in host THEN "Admin" ELSE "Normal"]

NoSnapshot == Snapshot({}, {})

(* Ghosts of the store: `seen' is the version of each source the latest    *)
(* load attempt was made for, `inv' the invalidations before that attempt. *)
(* All absences are one version.                                           *)
Gone == [here |-> FALSE, at |-> 0]
Version(f) == IF f.here THEN [here |-> TRUE, at |-> f.ctime] ELSE Gone

NoVersions == [s \in Sources |-> Gone]
NoGhost == [during |-> [s \in Sources |-> {}], inv |-> 0, seen |-> NoVersions, swapped |-> 0]

Init ==
    /\ file \in [Sources -> {NoFile} \cup {File(c) : c \in Contents}]
    /\ now = 0
    /\ store = [snap |-> NoSnapshot, ids |-> [s \in Sources |-> Absent],
                seen |-> NoVersions, inv |-> 0]
    /\ writer = Boot
    /\ revalidate = FALSE
    /\ pc = [a \in Actors |-> IF a = Boot THEN "validate_host" ELSE "idle"]
    /\ obs = [a \in Actors |-> [s \in Sources |-> Absent]]
    /\ got = [a \in Actors |-> [s \in Sources |-> {}]]
    /\ ghost = [a \in Actors |-> NoGhost]
    /\ invals = 0

booted == pc[Boot] = "idle"

(* The locals of the refresh go out of scope.                              *)
Forget(a) ==
    /\ obs' = [obs EXCEPT ![a] = [s \in Sources |-> Absent]]
    /\ got' = [got EXCEPT ![a] = [s \in Sources |-> {}]]
    /\ ghost' = [ghost EXCEPT ![a].seen = NoVersions, ![a].swapped = 0]

Goto(a, where) == pc' = [pc EXCEPT ![a] = where]

-----------------------------------------------------------------------------
(* The owner of the key sources writes a file, changes its permissions or  *)
(* removes it.  The sources are still while the store boots: KeyStore::load*)
(* observes them after it has built the snapshot, and would miss an edit   *)
(* in between until the next one.                                          *)

Edit(s, f) ==
    /\ booted
    /\ now < MaxEdits
    /\ now' = now + 1
    /\ file' = [file EXCEPT ![s] = [f EXCEPT !.ctime = now + 1]]
    /\ ghost' = [a \in Actors |->
                    IF pc[a] \in {"idle", "unrefreshed", "failed"} THEN ghost[a]
                    ELSE [ghost[a] EXCEPT !.during[s] = @ \cup {Version(file'[s])}]]
    /\ UNCHANGED <<store, writer, revalidate, pc, obs, got, invals>>

Write(s) == \E c \in Contents : Edit(s, File(c))

Chmod(s) == file[s].here /\ Edit(s, [file[s] EXCEPT !.safe = ~@])

Remove(s) == file[s].here /\ Edit(s, NoFile)

(* KeyStore::invalidate, on SIGHUP: only the flag.                         *)
Invalidate ==
    /\ booted
    /\ invals < MaxInvalidations
    /\ invals' = invals + 1
    /\ revalidate' = TRUE
    /\ UNCHANGED <<file, now, store, writer, pc, obs, got, ghost>>

-----------------------------------------------------------------------------
(* snapshot_for_auth and refresh_if_changed.                               *)

Begin(r) ==
    /\ pc[r] = "idle"
    /\ booted
    /\ Goto(r, "stat_host")
    /\ ghost' = [ghost EXCEPT ![r].during = [s \in Sources |-> {Version(file[s])}], ![r].inv = invals]
    /\ UNCHANGED <<file, now, store, writer, revalidate, obs, got, invals>>

(* The blocking task is cancelled before it runs: the live snapshot is     *)
(* returned without a refresh.                                             *)
TaskFails(r) ==
    /\ pc[r] = "stat_host"
    /\ Goto(r, "unrefreshed")
    /\ UNCHANGED <<file, now, store, writer, revalidate, obs, got, ghost, invals>>

Observe(a, s) ==
    /\ obs' = [obs EXCEPT ![a][s] = observe_identity(file[s])]
    /\ ghost' = [ghost EXCEPT ![a].seen[s] = Version(file[s])]

Stat(r, from, s, to) ==
    /\ pc[r] = from
    /\ Observe(r, s)
    /\ Goto(r, to)
    /\ UNCHANGED <<file, now, store, writer, revalidate, got, invals>>

CheckFlag(r) ==
    /\ pc[r] = "flag"
    /\ IF revalidate THEN Goto(r, "lock") /\ Forget(r)
       ELSE Goto(r, "compare") /\ UNCHANGED <<obs, got, ghost>>
    /\ UNCHANGED <<file, now, store, writer, revalidate, invals>>

(* The fast path, under the read guard.                                    *)
Compare(r) ==
    /\ pc[r] = "compare"
    /\ writer = Nobody
    /\ Goto(r, IF store.ids = obs[r] THEN "snapshot" ELSE "lock")
    /\ Forget(r)
    /\ UNCHANGED <<file, now, store, writer, revalidate, invals>>

Lock(r) ==
    /\ pc[r] = "lock"
    /\ writer = Nobody
    /\ writer' = r
    /\ Goto(r, "restat_host")
    /\ UNCHANGED <<file, now, store, revalidate, obs, got, ghost, invals>>

(* Under the write guard: the flag is consumed before anything is read.    *)
Swap(r) ==
    /\ pc[r] = "swap"
    /\ revalidate' = FALSE
    /\ IF ~revalidate /\ store.ids = obs[r]
       THEN /\ writer' = Nobody
            /\ Goto(r, "snapshot")
            /\ Forget(r)
       ELSE /\ Goto(r, "validate_host")
            /\ ghost' = [ghost EXCEPT ![r].swapped = invals]
            /\ UNCHANGED <<writer, obs, got>>
    /\ UNCHANGED <<file, now, store, invals>>

(* A failed load publishes nothing and adopts the observed identities; the *)
(* guard is dropped and the request goes on to read the live snapshot.  A  *)
(* failing boot ends the daemon.                                           *)
Reject(a) ==
    /\ store' = [store EXCEPT !.ids = obs[a], !.seen = ghost[a].seen,
                              !.inv = ghost[a].swapped]
    /\ writer' = IF a = Boot THEN Boot ELSE Nobody
    /\ Goto(a, IF a = Boot THEN "failed" ELSE "snapshot")
    /\ Forget(a)

PublishLateIdentities(a, read) ==
    /\ store' = [snap |-> Snapshot(read["host"], read["allowed"]),
                 ids |-> [s \in Sources |-> observe_identity(file[s])],
                 seen |-> ghost[a].seen, inv |-> ghost[a].swapped]
    /\ writer' = IF a = Boot THEN Boot ELSE Nobody
    /\ Goto(a, IF a = Boot THEN "boot_host" ELSE "snapshot")
    /\ Forget(a)

(* A complete load publishes the snapshot with the identities observed     *)
(* before it began; the boot loader observes them only now.                *)
Publish(a, read) ==
    /\ store' = [snap |-> Snapshot(read["host"], read["allowed"]), ids |-> obs[a],
                 seen |-> ghost[a].seen, inv |-> ghost[a].swapped]
    /\ writer' = IF a = Boot THEN Boot ELSE Nobody
    /\ Goto(a, IF a = Boot THEN "boot_host" ELSE "snapshot")
    /\ Forget(a)

(* The load goes on, holding the host keys read so far.                    *)
Advance(a, where, hostKeys) ==
    /\ Goto(a, where)
    /\ got' = [got EXCEPT ![a]["host"] = hostKeys]
    /\ UNCHANGED <<store, writer, obs, ghost>>

(* AuthSnapshot::load once both sources are in: an empty union is an       *)
(* error.                                                                  *)
Conclude(a, allowed) ==
    IF got[a]["host"] \cup allowed = {}
    THEN Reject(a)
    ELSE Publish(a, [got[a] EXCEPT !["allowed"] = allowed])

(* validate_key_source_file and its parents: an absent file contributes no *)
(* key, an unsafe one ends the load.                                       *)
Validate(a, s) ==
    /\ pc[a] = (IF s = "host" THEN "validate_host" ELSE "validate_allowed")
    /\ CASE ~file[s].here /\ s = "host"      -> Advance(a, "validate_allowed", {})
         [] ~file[s].here /\ s = "allowed"   -> Conclude(a, {})
         [] file[s].here /\ ~file[s].safe    -> Reject(a)
         [] file[s].here /\ file[s].safe     ->
                Advance(a, IF s = "host" THEN "read_host" ELSE "read_allowed", got[a]["host"])
    /\ UNCHANGED <<file, now, revalidate, invals>>

(* parse_key_source: one bad line rejects the whole file.                  *)
parse_key_source(f) == f.well

(* The O_NOFOLLOW open and the bounded read: whatever is at the path now is*)
(* read and parsed.                                                        *)
Read(a, s) ==
    /\ pc[a] = (IF s = "host" THEN "read_host" ELSE "read_allowed")
    /\ LET read == file[s].here /\ parse_key_source(file[s]) IN
       CASE ~read                    -> Reject(a)
         [] read /\ s = "host"       -> Advance(a, "validate_allowed", file[s].keys)
         [] read /\ s = "allowed"    -> Conclude(a, file[s].keys)
    /\ UNCHANGED <<file, now, revalidate, invals>>

(* KeyStore::load: the identities are observed after the snapshot is built.*)
BootObserve(s) ==
    /\ pc[Boot] = (IF s = "host" THEN "boot_host" ELSE "boot_allowed")
    /\ store' = [store EXCEPT !.ids[s] = observe_identity(file[s]),
                              !.seen[s] = Version(file[s])]
    /\ Goto(Boot, IF s = "host" THEN "boot_allowed" ELSE "idle")
    /\ writer' = IF s = "host" THEN Boot ELSE Nobody
    /\ UNCHANGED <<file, now, revalidate, obs, got, ghost, invals>>

(* store.snapshot() after the refresh: a separate read guard.  The request *)
(* is answered with store.snap.                                            *)
Answer(r) ==
    /\ pc[r] \in {"snapshot", "unrefreshed"}
    /\ writer = Nobody
    /\ Goto(r, "idle")
    /\ ghost' = [ghost EXCEPT ![r] = NoGhost]
    /\ UNCHANGED <<file, now, store, writer, revalidate, obs, got, invals>>

refresh_if_changed(r) ==
    \/ Stat(r, "stat_host", "host", "stat_allowed")
    \/ Stat(r, "stat_allowed", "allowed", "flag")
    \/ CheckFlag(r)
    \/ Compare(r)
    \/ Lock(r)
    \/ Stat(r, "restat_host", "host", "restat_allowed")
    \/ Stat(r, "restat_allowed", "allowed", "swap")
    \/ Swap(r)

Load(a) == \E s \in Sources : Validate(a, s) \/ Read(a, s)

Request(r) == Begin(r) \/ TaskFails(r) \/ refresh_if_changed(r) \/ Load(r) \/ Answer(r)

BootLoad == Load(Boot) \/ \E s \in Sources : BootObserve(s)

Owner == \E s \in Sources : Write(s) \/ Chmod(s) \/ Remove(s)

Next == Owner \/ Invalidate \/ BootLoad \/ \E r \in Requests : Request(r)

Spec == Init /\ [][Next]_vars

-----------------------------------------------------------------------------
(* An answered request never misses an edit or an invalidate that precedes *)
(* it: the load attempt its answer rests on, whichever request made it, is *)
(* for a version each source had on disk at some moment of this request,   *)
(* and consumed every SIGHUP received before the request began, even when  *)
(* another request took the flag (refresh_if_changed, snapshot_for_auth).  *)
FreshAnswer ==
    [][\A r \in Requests :
          pc[r] = "snapshot" /\ Answer(r)
             => /\ \A s \in Sources : store.seen[s] \in ghost[r].during[s]
                /\ store.inv >= ghost[r].inv]_vars

=============================================================================
