----------------------------- MODULE SubidLedger -----------------------------
(***************************************************************************)
(* The subordinate-ID allocator and its file ledger (sandbox/subid/mod.rs  *)
(* and ledger.rs): worker threads of one or more daemon processes mutate   *)
(* lease records under an flock on a shared lock file and, inside it, a    *)
(* process-local mutex.                                                    *)
(*                                                                         *)
(* The lock file is opened once per process, so all threads of a process   *)
(* share one open file description: an flock call by a second thread of    *)
(* the holder's process succeeds at once, and the first LOCK_UN releases   *)
(* the lock for all of them.  Lease ids are 128 random bits, modelled as   *)
(* never-repeating numbers; a lease id fixes the sandbox, owner and pair,  *)
(* which is what same_incarnation compares.                                *)
(***************************************************************************)
EXTENDS Naturals, FiniteSets

CONSTANTS Sandboxes,
          Uids, Gids,       \* delegated ids, without 0 and the daemon's own
          InitialRecords,   \* the ledger found at start
          Workers,          \* threads that call the allocator
          Processes,
          ProcessOf,        \* the process of each worker
          None,
          MaxLeases,        \* bound: lease ids ever drawn
          MaxCrashes,       \* bound: process crashes
          IOFails           \* whether a file operation may report an error

VARIABLES records,    \* <lease-id>.toml files of the ledger directory
          issued,     \* lease ids drawn so far
          temps,      \* temp files: a worker's own, or None's left by a crash
          flock,      \* the process whose description holds the flock, or None
          selection,  \* per process: the worker holding the selection mutex
          pending,    \* per process: pending_activations
          pc, call,   \* per worker: where it is, and the call it executes
          record,     \* per worker: the record it is about to publish or unlink
          crashes

vars == <<records, issued, temps, flock, selection, pending, pc, call, record, crashes>>

LeaseIds == 1 .. MaxLeases
LeaseStates == {"Reserved", "Active", "Releasing", "Quarantined"}
LeaseRecord == [lease_id : LeaseIds, sandbox : Sandboxes, uid : Uids, gid : Gids,
                state : LeaseStates]
Clash(r, q) == r.uid = q.uid \/ r.gid = q.gid \/ r.sandbox = q.sandbox

ASSUME LedgerAssumption ==
    /\ Uids \subseteq Nat /\ Gids \subseteq Nat
    /\ InitialRecords \subseteq LeaseRecord
    /\ \A r, q \in InitialRecords : Clash(r, q) \/ r.lease_id = q.lease_id => r = q
    /\ ProcessOf \in [Workers -> Processes]
    /\ None \notin Processes /\ None \notin Workers
    /\ None \notin LeaseRecord /\ None \notin Sandboxes
    /\ IOFails \in BOOLEAN
    /\ MaxLeases \in Nat /\ MaxCrashes \in Nat

(* The operations on an existing lease.  "acknowledge" is activate called    *)
(* with an expected record that is already Active.                           *)
LeaseOps == {"activate", "acknowledge", "begin_release", "quarantine",
             "finish_release", "free_reserved_absent"}

(* The states an operation accepts in the record on disk; acknowledge only   *)
(* consumes a pending mark and never reaches a write.                        *)
AnyState(op) == LeaseStates
Accepted(op) ==
    CASE op = "begin_release"  -> {"Active", "Reserved"}
      [] op = "quarantine"     -> LeaseStates
      [] op = "finish_release" -> {"Releasing"}
      [] op \in {"activate", "free_reserved_absent"} -> {"Reserved"}
      [] OTHER -> {}

(* The state an operation publishes; the other operations unlink the record. *)
Unlinks(op) == op \in {"finish_release", "free_reserved_absent"}
Published(op) ==
    CASE op = "begin_release" -> "Releasing"
      [] op = "quarantine"    -> "Quarantined"
      [] OTHER                -> "Active"

Calls == [op : {"claim"}, sandbox : Sandboxes] \union [op : LeaseOps, lease : LeaseIds]

Init ==
    /\ records = InitialRecords
    /\ issued = {r.lease_id : r \in InitialRecords}
    /\ temps = {}
    /\ flock = None
    /\ selection = [p \in Processes |-> None]
    /\ pending = [p \in Processes |-> {}]
    /\ pc = [w \in Workers |-> "idle"]
    /\ call = [w \in Workers |-> None]
    /\ record = [w \in Workers |-> None]
    /\ crashes = 0

-----------------------------------------------------------------------------
At(w, l) == pc[w] = l
Go(w, l) == pc' = [pc EXCEPT ![w] = l]
Keep(w, r) == record' = [record EXCEPT ![w] = r]
locks == <<flock, selection>>
unchangedCall == <<call, crashes>>

(* A call.  Its arguments are bound in Select, the first step to read them.  *)
Begin(w) ==
    /\ At(w, "idle")
    /\ Go(w, "flock")
    /\ UNCHANGED <<records, issued, temps, locks, pending, record, unchangedCall>>

(* LeaseStore::lock: flock(LOCK_EX) on the process's one description.        *)
Lockable(w) == flock \in {None, ProcessOf[w]}

Flock(w) ==
    /\ At(w, "flock")
    /\ Lockable(w)
    /\ flock' = ProcessOf[w]
    /\ Go(w, "select")
    /\ UNCHANGED <<records, issued, temps, selection, pending, record, unchangedCall>>

(* The process-local mutex; under it, a claim for a sandbox or an operation  *)
(* presenting any lease id a caller may have kept from an earlier read,      *)
(* stale ones included.                                                      *)
SelectableAlways(w) == TRUE
Selectable(w) == selection[ProcessOf[w]] = None

Select(w) ==
    /\ At(w, "select")
    /\ Selectable(w)
    /\ selection' = [selection EXCEPT ![ProcessOf[w]] = w]
    /\ \/ /\ \E s \in Sandboxes : call' = [call EXCEPT ![w] = [op |-> "claim", sandbox |-> s]]
          /\ Go(w, "sweep")
       \/ /\ \E op \in LeaseOps, id \in issued :
               call' = [call EXCEPT ![w] = [op |-> op, lease |-> id]]
          /\ Go(w, "verify")
    /\ UNCHANGED <<records, issued, temps, flock, pending, record, crashes>>

(* remove_stale_temps deletes every temp file in the directory.              *)
Sweep(w) ==
    /\ At(w, "sweep")
    /\ \/ temps' = {} /\ Go(w, "scan")
       \/ IOFails /\ Go(w, "unselect") /\ UNCHANGED temps
    /\ UNCHANGED <<records, issued, locks, pending, record, unchangedCall>>

(* load and select.  An ambiguous ledger, a sandbox that already holds a     *)
(* lease and an exhausted pool are errors; else the claim takes the lowest   *)
(* free uid and, independently, the lowest free gid, already Active.         *)
AvailableUidsLive == Uids \ {r.uid : r \in {q \in records : q.state \in {"Active", "Reserved"}}}
AvailableUids == Uids \ {r.uid : r \in records}
AvailableGids == Gids \ {r.gid : r \in records}
Ambiguous == \E r, q \in records : Clash(r, q) /\ r # q
IsLowest(x, S) == x \in S /\ \A y \in S : x <= y

Scan(w) ==
    LET s == call[w].sandbox
        held == \E r \in records : r.sandbox = s
    IN
    /\ At(w, "scan")
    /\ \/ /\ \/ IOFails \/ Ambiguous \/ held \/ AvailableUids = {} \/ AvailableGids = {}
             \/ issued = LeaseIds  \* the bound on drawn ids
          /\ Go(w, "unselect")
          /\ UNCHANGED <<issued, record>>
       \/ /\ ~Ambiguous /\ ~held
          /\ \E uid \in AvailableUids, gid \in AvailableGids, id \in LeaseIds \ issued :
               /\ IsLowest(uid, AvailableUids) /\ IsLowest(gid, AvailableGids)
               /\ IsLowest(id, LeaseIds \ issued)
               /\ issued' = issued \union {id}
               /\ Keep(w, [lease_id |-> id, sandbox |-> s, uid |-> uid, gid |-> gid,
                           state |-> "Active"])
          /\ Go(w, "write")
    /\ UNCHANGED <<records, temps, locks, pending, unchangedCall>>

(* read and verify the record under its lease id.  A missing record or a     *)
(* state the operation does not accept is an error.                          *)
Verify(w) ==
    LET op == call[w].op
        p == ProcessOf[w]
        found == {r \in records : r.lease_id = call[w].lease}
        fresh == op = "acknowledge" /\ \E r \in found : r.state = "Active"
    IN
    /\ At(w, "verify")
    /\ \/ /\ IOFails \/ \A r \in found : r.state \notin Accepted(op)
          /\ Go(w, "unselect")
          /\ \/ fresh /\ pending' = [pending EXCEPT ![p] = @ \ {call[w].lease}]
             \/ (IOFails \/ ~fresh) /\ UNCHANGED pending
          /\ UNCHANGED record
       \/ /\ \E r \in found :
               /\ r.state \in Accepted(op)
               /\ Keep(w, IF Unlinks(op) THEN r ELSE [r EXCEPT !.state = Published(op)])
          /\ Go(w, IF Unlinks(op) THEN "unlink" ELSE "write")
          /\ UNCHANGED pending
    /\ UNCHANGED <<records, issued, temps, locks, unchangedCall>>

(* LeaseStore::write: a private temp file, written and fsynced, then renamed *)
(* over the record; an error unlinks the temp file.                          *)
WriteTemp(w) ==
    /\ At(w, "write")
    /\ \/ temps' = temps \union {w} /\ Go(w, "rename")
       \/ IOFails /\ Go(w, "unselect") /\ UNCHANGED temps
    /\ UNCHANGED <<records, issued, locks, pending, record, unchangedCall>>

Rename(w) ==
    /\ At(w, "rename")
    /\ temps' = temps \ {w}
    /\ \/ /\ w \in temps
          /\ records' = {q \in records : q.lease_id # record[w].lease_id} \union {record[w]}
          /\ Go(w, "sync")
       \/ (IOFails \/ w \notin temps) /\ Go(w, "unselect") /\ UNCHANGED records
    /\ UNCHANGED <<issued, locks, pending, record, unchangedCall>>

(* LeaseStore::remove: unlink the exact file.                                *)
Unlink(w) ==
    /\ At(w, "unlink")
    /\ \/ /\ records' = {q \in records : q.lease_id # record[w].lease_id}
          /\ Go(w, IF records' = records THEN "unselect" ELSE "sync")
       \/ IOFails /\ Go(w, "unselect") /\ UNCHANGED records
    /\ UNCHANGED <<issued, temps, locks, pending, record, unchangedCall>>

(* The directory fsync; its error skips the in-memory bookkeeping although   *)
(* the file is already in place, or already gone.                            *)
Sync(w) ==
    LET p == ProcessOf[w]
        id == record[w].lease_id
    IN
    /\ At(w, "sync")
    /\ Go(w, "unselect")
    /\ \/ pending' = [pending EXCEPT ![p] =
              IF call[w].op = "claim" THEN @ \union {id}
              ELSE IF Unlinks(call[w].op) \/ call[w].op = "quarantine" THEN @ \ {id} ELSE @]
       \/ IOFails /\ UNCHANGED pending
    /\ UNCHANGED <<records, issued, temps, locks, record, unchangedCall>>

(* Guards drop in the order selection, then flock.                           *)
Unselect(w) ==
    /\ At(w, "unselect")
    /\ selection' = [selection EXCEPT ![ProcessOf[w]] = None]
    /\ Go(w, "unlock")
    /\ call' = [call EXCEPT ![w] = None]
    /\ Keep(w, None)
    /\ UNCHANGED <<records, issued, temps, flock, pending, crashes>>

(* flock(LOCK_UN) on the shared description, whoever else relies on it.      *)
NeverReleased(w) == flock
Released(w) == IF flock = ProcessOf[w] THEN None ELSE flock

Unlock(w) ==
    /\ At(w, "unlock")
    /\ flock' = Released(w)
    /\ Go(w, "idle")
    /\ UNCHANGED <<records, issued, temps, selection, pending, record, unchangedCall>>

(* A daemon dies: the kernel drops its flock, its memory is gone, and the    *)
(* temp files of its writers stay behind.                                    *)
Crash(p) ==
    LET mine == {w \in Workers : ProcessOf[w] = p} IN
    /\ crashes < MaxCrashes
    /\ crashes' = crashes + 1
    /\ flock' = IF flock = p THEN None ELSE flock
    /\ selection' = [selection EXCEPT ![p] = None]
    /\ pending' = [pending EXCEPT ![p] = {}]
    /\ pc' = [w \in Workers |-> IF w \in mine THEN "idle" ELSE pc[w]]
    /\ call' = [w \in Workers |-> IF w \in mine THEN None ELSE call[w]]
    /\ record' = [w \in Workers |-> IF w \in mine THEN None ELSE record[w]]
    /\ temps' = (temps \ mine) \union (IF temps \cap mine = {} THEN {} ELSE {None})
    /\ UNCHANGED <<records, issued>>

Step(w) ==
    \/ Flock(w) \/ Select(w) \/ Sweep(w) \/ Scan(w) \/ Verify(w) \/ WriteTemp(w)
    \/ Rename(w) \/ Unlink(w) \/ Sync(w) \/ Unselect(w) \/ Unlock(w)

Next ==
    \/ \E w \in Workers : Begin(w) \/ Step(w)
    \/ \E p \in Processes : Crash(p)

Spec == Init /\ [][Next]_vars

-----------------------------------------------------------------------------
Labels == {"idle", "flock", "select", "sweep", "scan", "verify", "write", "rename",
           "unlink", "sync", "unselect", "unlock"}

(* Every component of the state has its type; a call's arguments and the     *)
(* record it will publish are set whenever a step reads them.                *)
TypeOK ==
    /\ records \subseteq LeaseRecord
    /\ issued \subseteq LeaseIds
    /\ temps \subseteq Workers \union {None}
    /\ flock \in Processes \union {None}
    /\ selection \in [Processes -> Workers \union {None}]
    /\ pending \in [Processes -> SUBSET LeaseIds]
    /\ pc \in [Workers -> Labels]
    /\ call \in [Workers -> Calls \union {None}]
    /\ record \in [Workers -> LeaseRecord \union {None}]
    /\ \A w \in Workers :
         /\ pc[w] \notin {"idle", "flock", "select", "unlock"} => call[w] \in Calls
         /\ pc[w] \in {"sweep", "scan"} => call[w].op = "claim"
         /\ pc[w] \in {"verify", "unlink"} => call[w].op \in LeaseOps
         /\ pc[w] \in {"write", "rename", "unlink", "sync"} => record[w] \in LeaseRecord
    /\ crashes \in 0 .. MaxCrashes

(* No UID, GID or sandbox is named by two lease records, whatever operations *)
(* run concurrently and wherever a process crashes (validate_uniqueness      *)
(* would treat such a ledger as corrupt and stop all allocation).            *)
UniqueLeases == \A r, q \in records : Clash(r, q) => r = q

(* The stale-temp sweep never deletes the temp file of a write in progress,  *)
(* which would fail that write's rename (remove_stale_temps).                *)
SweepSparesLiveTemps == \A w \in Workers : At(w, "rename") => w \in temps

(* The deployments the locking is sound for: all threads in one daemon, or   *)
(* one allocator thread per daemon.                                          *)
Exclusive ==
    \/ \A v, w \in Workers : ProcessOf[v] = ProcessOf[w]
    \/ \A v, w \in Workers : ProcessOf[v] = ProcessOf[w] => v = w

Table == INSTANCE LeaseTable WITH records <- records, issued <- issued

(* The ledger implements its abstract promise: every step issues a           *)
(* non-clashing lease, moves one lease forward, frees a Releasing (or        *)
(* never-published Reserved) one, or leaves the records alone.               *)
ImplementsTable == Table!Spec

(* The allocator never locks up: while a call is in progress some call in    *)
(* progress can take its next step, whoever crashed or failed before, so the *)
(* flock-then-mutex order admits no cycle of waits and no lock is left held  *)
(* by nobody.                                                                *)
NeverStuck ==
    (\E w \in Workers : ~At(w, "idle")) =>
        \E w \in Workers : ~At(w, "idle") /\ ENABLED Step(w)
=============================================================================
