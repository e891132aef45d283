--------------------------- MODULE SandboxManager ---------------------------
(***************************************************************************)
(* The persistent sandbox lifecycle service (sandbox/manager.rs over       *)
(* sandbox/storage.rs): request threads claim, launch into and delete      *)
(* sandboxes under per-sandbox lifecycle locks and one in-memory ledger;   *)
(* the daemon may crash between any two file operations, and the next      *)
(* start reconciles what it finds.                                         *)
(*                                                                         *)
(* The lease ledger appears through what LeaseTable promises of it: each   *)
(* allocator call is one step.  The process launcher appears through what  *)
(* DomainRegistry promises of it: a successful release of a sandbox's      *)
(* resources leaves none of its processes.                                 *)
(***************************************************************************)
EXTENDS Integers, FiniteSets

CONSTANTS Workers,        \* request threads
          Boot,           \* the thread of the startup reconciliation
          Sandboxes, Principals, Admins, None,
          Isolated,       \* whether sandboxes have subordinate identities
          Pairs,          \* delegated UID/GID pairs, as numbers
          Ops,            \* operations the request threads perform
          MaxSandboxes, MaxPerOwner, MaxLaunches,  \* the caps
          Faults,         \* which kinds of operation may report an error
          MaxCrashes      \* bound: daemon crashes

VARIABLES disk,       \* per sandbox: its directory's contents
          lease,      \* per sandbox: its lease record on disk
          ledger,     \* records, blocked, owner_counts, reserved, runtime
          process,    \* per worker: the sandbox process it launched, while alive
          lifecycle,  \* per sandbox: the thread holding its lifecycle lock
          lock_entries, \* sandboxes with an entry in the lifecycle lock map
          job,        \* per thread: program counter and locals
          stage, todo, \* startup or shutdown stage, and what it has yet to visit
          crashes

vars == <<disk, lease, ledger, process, lifecycle, lock_entries, job, stage, todo, crashes>>

Threads == Workers \union {Boot}

Empty == [dir |-> FALSE, workspace |-> FALSE, temp |-> FALSE, metadata |-> None]
Meta(state, owner) == [state |-> state, owner |-> owner]
Idle == [pc |-> "idle"]

NewLedger == [records |-> [s \in Sandboxes |-> None], blocked |-> {},
              owner_counts |-> [o \in Principals |-> 0], reserved |-> 0,
              runtime |-> [w \in Workers |-> None]]

(* What a directory's metadata, a lease, a ledger's runtime entry, a process *)
(* and a claimed handle record.                                              *)
LeaseStates == {"Active", "Releasing", "Quarantined"}
Metadata == [state : {"Active", "Deleting"}, owner : Principals]
Leases   == [pair : Pairs, state : LeaseStates, owner : Principals]
Runtimes == [sandbox : Sandboxes, marker : {"Launching", "Running"}, cancelled : BOOLEAN]
Processes == [sandbox : Sandboxes, pair : Pairs \union {None}, leader : BOOLEAN, doomed : BOOLEAN]
Handles  == [owner : Principals, pair : Pairs \union {None}]

ASSUME ManagerAssumption ==
    /\ IsFiniteSet(Workers) /\ IsFiniteSet(Sandboxes)
    /\ Boot \notin Workers /\ None \notin Workers \union {Boot}
    /\ None \notin LeaseStates \union {"Reserved"} /\ None \notin Metadata /\ None \notin Leases
    /\ None \notin Runtimes /\ None \notin Processes /\ None \notin Handles
    /\ Admins \subseteq Principals /\ Pairs \subseteq Nat
    /\ MaxSandboxes \in Nat /\ MaxPerOwner \in Nat
    /\ Ops \subseteq {"launch", "delete", "shutdown"}
    /\ Isolated \in BOOLEAN

(* A first start on an empty data root, already reconciled. *)
Init ==
    /\ disk = [s \in Sandboxes |-> Empty]
    /\ lease = [s \in Sandboxes |-> None]
    /\ ledger = NewLedger
    /\ process = [w \in Workers |-> None]
    /\ lifecycle = [s \in Sandboxes |-> None]
    /\ lock_entries = {}
    /\ job = [w \in Threads |-> Idle]
    /\ stage = "ready" /\ todo = {}
    /\ crashes = 0

-----------------------------------------------------------------------------
(* Storage::inspect: a leftover temp file is an unknown entry; a missing     *)
(* workspace is valid only for a Deleting record.                            *)
inspect(s) ==
    LET d == disk[s] IN
    IF ~d.dir THEN "Absent"
    ELSE IF d.temp \/ d.metadata = None THEN "Corrupt"
    ELSE IF d.metadata.state = "Deleting" THEN "Deleting"
    ELSE IF d.workspace THEN "Active" ELSE "Corrupt"

authorized(principal, owner) == principal \in Admins \/ principal = owner

(* Functions on the in-memory ledger. *)
Count(L, o, n) == [L EXCEPT !.owner_counts[o] = @ + n]
TokensOf(L, s) == {w \in Workers : L.runtime[w] # None /\ L.runtime[w].sandbox = s}

remove_record_from_ledger(L, s) ==
    LET kept == [L EXCEPT !.records[s] = None,
                          !.runtime = [w \in Workers |-> IF w \in TokensOf(L, s) THEN None
                                                         ELSE L.runtime[w]]]
    IN IF L.records[s] = None THEN kept ELSE Count(kept, L.records[s].owner, -1)

Block(L, s) == [remove_record_from_ledger(L, s) EXCEPT !.blocked = @ \union {s}]

Conflicting(L, s, m) == L.records[s] # None /\ L.records[s].owner # m.owner
Noted(L, s, m) == s \notin L.blocked /\ ~Conflicting(L, s, m)
note_valid_record(L, s, m) ==
    IF s \in L.blocked THEN L
    ELSE IF Conflicting(L, s, m) THEN Block(L, s)
    ELSE LET counted == IF L.records[s] = None THEN Count(L, m.owner, 1) ELSE L
         IN [counted EXCEPT !.records[s] = m]

(* reserve_sandbox checks both caps; insert_reserved turns the reservation   *)
(* into a record; release_sandbox returns it.                                *)
HasRoomRecordsOnly(o) ==
    /\ Cardinality({s \in Sandboxes : ledger.records[s] # None}) < MaxSandboxes
    /\ ledger.owner_counts[o] < MaxPerOwner
HasRoom(o) ==
    /\ Cardinality({s \in Sandboxes : ledger.records[s] # None}) + ledger.reserved < MaxSandboxes
    /\ ledger.owner_counts[o] < MaxPerOwner
reserve_sandbox(o) == [Count(ledger, o, 1) EXCEPT !.reserved = @ + 1]
release_sandbox(o) == [Count(ledger, o, -1) EXCEPT !.reserved = @ - 1]
InsertCounterOnly(s, m) == [ledger EXCEPT !.reserved = @ - 1]
insert_reserved(s, m) == [ledger EXCEPT !.reserved = @ - 1, !.records[s] = m]

(* A thread's step: to another label, or out of the lifecycle lock. *)
At(w, pc) == job[w].pc = pc
S(w) == job[w].sandbox
Go(w, pc) == job' = [job EXCEPT ![w].pc = pc]
Leave(w, next) == job' = [job EXCEPT ![w].pc = "unlock", ![w].next = next]
Fails(kind) == kind \in Faults
SetDisk(s, d) == disk' = [disk EXCEPT ![s] = d]

(* A ledger write that reports an error may have happened or not. *)
SetLease(s, state) == lease' = [lease EXCEPT ![s].state = state]
MaySetLease(s, state) == SetLease(s, state) \/ UNCHANGED lease
locks == <<lifecycle, lock_entries>>
stages == <<stage, todo, crashes>>

(* process[w] has a leader until the direct child is reaped, and then stands *)
(* for its descendants.  It is doomed once its group is sure to get SIGKILL; *)
(* a lone SIGTERM changes nothing, since a process may exit at any time.     *)
Reaped(w) == process[w] # None => ~process[w].leader
Doomed(ws) == [w \in Workers |-> IF w \in ws /\ process[w] # None
                                 THEN [process[w] EXCEPT !.doomed = TRUE] ELSE process[w]]
Running(L, ws) == {w \in ws : L.runtime[w].marker = "Running"}

-----------------------------------------------------------------------------
(* A request passes ensure_ready (and a launch the shutdown freeze) and      *)
(* names its lifecycle lock, creating the map entry when there is none.  A   *)
(* worker names its runtime entry and process, so it launches again only     *)
(* when both are gone.                                                       *)
Serving == {"ready", "frozen", "stopping"}

Begin(w) ==
    /\ At(w, "idle") /\ stage \in Serving
    /\ \E op \in Ops \ {"shutdown"}, o \in Principals, s \in Sandboxes :
         /\ op = "launch" => stage = "ready" /\ process[w] = None /\ ledger.runtime[w] = None
         /\ job' = [job EXCEPT ![w] = [pc |-> "lock", op |-> op, who |-> o, sandbox |-> s,
                                       next |-> "idle", lease |-> None, handle |-> None]]
         /\ lock_entries' = lock_entries \union {s}
    /\ UNCHANGED <<disk, lease, ledger, process, lifecycle, stages>>

Lock(w) ==
    /\ At(w, "lock") /\ lifecycle[S(w)] = None
    /\ lifecycle' = [lifecycle EXCEPT ![S(w)] = w]
    /\ Go(w, IF job[w].op = "launch" THEN "claim" ELSE "delete")
    /\ UNCHANGED <<disk, lease, ledger, process, lock_entries, stages>>

(* Dropping the guard, then the LifecycleLock: the entry goes when the       *)
(* dropping thread's own clone is the only reference.  The map itself holds  *)
(* another.                                                                  *)
LaunchLabels == {"begin_launch", "spawn", "finish_launch", "terminate", "running"}
Clones(s) == Cardinality({v \in Workers : job[v].pc \notin {"idle"} \union LaunchLabels /\ S(v) = s})
StrongCount(s) == Clones(s) + (IF s \in lock_entries THEN 1 ELSE 0)

Unlock(w) ==
    /\ At(w, "unlock")
    /\ lifecycle' = [lifecycle EXCEPT ![S(w)] = None]
    /\ lock_entries' = IF StrongCount(S(w)) = 1 THEN lock_entries \ {S(w)} ELSE lock_entries
    /\ job' = IF job[w].next = "idle" THEN [job EXCEPT ![w] = Idle]
              ELSE [job EXCEPT ![w].pc = job[w].next]
    /\ UNCHANGED <<disk, lease, ledger, process, stages>>

-----------------------------------------------------------------------------
(* claim.  identity_for: the lease must be this owner's and Active.          *)
Pair(s) == IF Isolated THEN lease[s].pair ELSE None
HasIdentity(s, owner) ==
    Isolated => lease[s] # None /\ lease[s].owner = owner /\ lease[s].state = "Active"
Handed(w, m) == job' = [job EXCEPT ![w].pc = "unlock", ![w].next = "begin_launch",
                                   ![w].handle = [owner |-> m.owner, pair |-> Pair(S(w))]]

ClaimExisting(w) ==
    LET s == S(w)
        m == disk[s].metadata
    IN
    /\ At(w, "claim") /\ inspect(s) = "Active"
    /\ ledger' = note_valid_record(ledger, s, m)
    /\ \/ /\ Noted(ledger, s, m) /\ authorized(job[w].who, m.owner) /\ HasIdentity(s, m.owner)
          /\ Handed(w, m)
       \/ /\ \/ ~Noted(ledger, s, m) \/ ~authorized(job[w].who, m.owner)
             \/ ~HasIdentity(s, m.owner) \/ (Isolated /\ Fails("delegation"))
          /\ Leave(w, "idle")
    /\ UNCHANGED <<disk, lease, process, locks, stages>>

(* Both claim and delete note what they found and refuse a corrupt entry; a  *)
(* claim also refuses a Deleting one.                                        *)
Refuse(w) ==
    LET s == S(w) IN
    /\ \/ /\ job[w].pc \in {"claim", "delete"} /\ inspect(s) = "Corrupt"
          /\ ledger' = Block(ledger, s)
       \/ /\ At(w, "claim") /\ inspect(s) = "Deleting"
          /\ ledger' = note_valid_record(ledger, s, disk[s].metadata)
    /\ Leave(w, "idle")
    /\ UNCHANGED <<disk, lease, process, locks, stages>>

(* An absent id is refused while blocked, while an in-memory record has an   *)
(* uncertain durable state, and over a cap; else it is reserved.             *)
ClaimAbsent(w) ==
    LET s == S(w)
        refused == s \in ledger.blocked \/ ledger.records[s] # None \/ ~HasRoom(job[w].who)
    IN
    /\ At(w, "claim") /\ inspect(s) = "Absent"
    /\ IF refused THEN Leave(w, "idle") /\ UNCHANGED ledger
       ELSE Go(w, "reserve") /\ ledger' = reserve_sandbox(job[w].who)
    /\ UNCHANGED <<disk, lease, process, locks, stages>>

(* reserve_identity: the allocator refuses an id that still holds a lease    *)
(* and an exhausted pool, else publishes the lowest free pair, Active.  An   *)
(* error returns the reservation.                                            *)
FreePairs == Pairs \ {lease[t].pair : t \in {u \in Sandboxes : lease[u] # None}}

ReserveIdentity(w) ==
    LET s == S(w)
        issues == lease[s] = None /\ FreePairs # {}
        issued == [lease EXCEPT ![s] = [pair |-> CHOOSE p \in FreePairs : \A q \in FreePairs : p <= q,
                                        state |-> "Active", owner |-> job[w].who]]
        refuse == ledger' = release_sandbox(job[w].who) /\ Leave(w, "idle")
    IN
    /\ At(w, "reserve")
    /\ \/ ~Isolated /\ Go(w, "mkdir") /\ UNCHANGED <<lease, ledger>>
       \/ Isolated /\ issues /\ lease' = issued /\ Go(w, "mkdir") /\ UNCHANGED ledger
       \/ Isolated /\ (~issues \/ Fails("delegation")) /\ refuse /\ UNCHANGED lease
       \/ Isolated /\ issues /\ Fails("lease") /\ refuse /\ lease' \in {lease, issued}
    /\ UNCHANGED <<disk, process, locks, stages>>

(* Storage::create_active, one step per directory operation.  An error rolls *)
(* nothing back but the temp file.                                           *)
Created(d, pc, owner) ==
    CASE pc = "mkdir"     -> [d EXCEPT !.dir = TRUE]
      [] pc = "workspace" -> [d EXCEPT !.workspace = TRUE]
      [] pc = "temp"      -> [d EXCEPT !.temp = TRUE]
      [] pc = "rename"    -> [d EXCEPT !.temp = FALSE, !.metadata = Meta("Active", owner)]
AfterCreate == [mkdir |-> "workspace", workspace |-> "temp", temp |-> "rename", rename |-> "sync"]

CreateStep(w) ==
    LET s == S(w) IN
    /\ job[w].pc \in DOMAIN AfterCreate
    /\ \/ /\ SetDisk(s, Created(disk[s], job[w].pc, job[w].who))
          /\ Go(w, AfterCreate[job[w].pc])
       \/ /\ Fails("create")
          /\ SetDisk(s, [disk[s] EXCEPT !.temp = FALSE])
          /\ Go(w, "abort")
    /\ UNCHANGED <<lease, ledger, process, locks, stages>>

CreateSync(w) ==
    /\ At(w, "sync")
    /\ Go(w, "publish") \/ (Fails("sync") /\ Go(w, "abort"))
    /\ UNCHANGED <<disk, lease, ledger, process, locks, stages>>

(* The directory syncs succeeded: insert_reserved, activate and identity_for. *)
(* A failed acknowledgement quarantines the lease.                           *)
Publish(w) ==
    LET s == S(w)
        m == Meta("Active", job[w].who)
    IN
    /\ At(w, "publish")
    /\ ledger' = insert_reserved(s, m)
    /\ \/ Handed(w, m) /\ UNCHANGED lease
       \/ Fails("delegation") /\ Isolated /\ Leave(w, "idle") /\ UNCHANGED lease
       \/ Fails("lease") /\ Isolated /\ Leave(w, "idle") /\ MaySetLease(s, "Quarantined")
    /\ UNCHANGED <<disk, process, locks, stages>>

(* create_active failed: release_reserved_identity, then the reservation.    *)
Abort(w) ==
    LET s == S(w) IN
    /\ At(w, "abort")
    /\ \/ ~Isolated /\ Go(w, "unreserve") /\ UNCHANGED lease
       \/ Isolated /\ Go(w, "abort_free") /\ SetLease(s, "Releasing")
       \/ /\ Isolated /\ Fails("lease") /\ Go(w, "unreserve")
          /\ \E state \in {"Active", "Releasing", "Quarantined"} : SetLease(s, state)
    /\ UNCHANGED <<disk, ledger, process, locks, stages>>

AbortFree(w) ==
    LET s == S(w) IN
    /\ At(w, "abort_free")
    /\ Go(w, "unreserve")
    /\ \/ lease' = [lease EXCEPT ![s] = None]
       \/ Fails("lease") /\ MaySetLease(s, "Quarantined")
    /\ UNCHANGED <<disk, ledger, process, locks, stages>>

Unreserve(w) ==
    /\ At(w, "unreserve")
    /\ ledger' = release_sandbox(job[w].who)
    /\ Leave(w, "idle")
    /\ UNCHANGED <<disk, lease, process, locks, stages>>

-----------------------------------------------------------------------------
(* delete of an id with no directory: an authorized caller resumes a         *)
(* Releasing or Quarantined lease's cleanup, any other lease is refused, and *)
(* with no lease the in-memory record is dropped.                            *)
DeleteAbsent(w) ==
    LET s == S(w)
        l == lease[s]
    IN
    /\ At(w, "delete") /\ inspect(s) = "Absent"
    /\ IF ~Isolated \/ l = None
       THEN Go(w, "forget")
       ELSE IF authorized(job[w].who, l.owner) /\ l.state \in {"Releasing", "Quarantined"}
       THEN job' = [job EXCEPT ![w].pc = "resources", ![w].lease = l.state]
       ELSE Leave(w, "idle")
    /\ UNCHANGED <<disk, lease, ledger, process, locks, stages>>

DeletePresent(w) ==
    LET s == S(w)
        m == disk[s].metadata
    IN
    /\ At(w, "delete") /\ inspect(s) \in {"Active", "Deleting"}
    /\ ledger' = note_valid_record(ledger, s, m)
    /\ IF Noted(ledger, s, m) /\ authorized(job[w].who, m.owner) /\ (Isolated => lease[s] # None)
       THEN job' = [job EXCEPT ![w].pc = IF m.state = "Active" THEN "mark_temp" ELSE "begin_release",
                               ![w].lease = IF Isolated THEN lease[s].state ELSE None]
       ELSE Leave(w, "idle")
    /\ UNCHANGED <<disk, lease, process, locks, stages>>

(* write_metadata(Deleting): temp file, rename, directory sync, and then the *)
(* in-memory record.                                                         *)
MarkTemp(w) ==
    /\ At(w, "mark_temp")
    /\ \/ SetDisk(S(w), [disk[S(w)] EXCEPT !.temp = TRUE]) /\ Go(w, "mark_rename")
       \/ Fails("mark") /\ Leave(w, "idle") /\ UNCHANGED disk
    /\ UNCHANGED <<lease, ledger, process, locks, stages>>

MarkRename(w) ==
    /\ At(w, "mark_rename")
    /\ \/ /\ SetDisk(S(w), [disk[S(w)] EXCEPT !.temp = FALSE, !.metadata.state = "Deleting"])
          /\ Go(w, "mark_sync")
       \/ /\ Fails("mark")
          /\ SetDisk(S(w), [disk[S(w)] EXCEPT !.temp = FALSE])
          /\ Leave(w, "idle")
    /\ UNCHANGED <<lease, ledger, process, locks, stages>>

MarkSync(w) ==
    /\ At(w, "mark_sync")
    /\ \/ ledger' = [ledger EXCEPT !.records[S(w)].state = "Deleting"] /\ Go(w, "begin_release")
       \/ Fails("mark") /\ Leave(w, "idle") /\ UNCHANGED ledger
    /\ UNCHANGED <<disk, lease, process, locks, stages>>

(* An error ends a delete, and moves the startup reconciliation on.          *)
GiveUp(w) == IF w = Boot THEN job' = [job EXCEPT ![w] = Idle] ELSE Leave(w, "idle")

(* The lease is durably Releasing before anything is destroyed.  Startup     *)
(* reconciliation joins here and has no runtime entries to cancel.           *)
BeginRelease(w) ==
    LET live == job[w].lease \in {"Active", "Reserved"} IN
    /\ At(w, "begin_release")
    /\ \/ /\ IF live THEN SetLease(S(w), "Releasing") ELSE UNCHANGED lease
          /\ Go(w, IF w = Boot THEN "resources" ELSE "cancel")
       \/ live /\ Fails("lease") /\ GiveUp(w) /\ MaySetLease(S(w), "Releasing")
    /\ UNCHANGED <<disk, ledger, process, locks, stages>>

(* cancel_runtime: every entry is cancelled and its process terminated; then *)
(* the delete waits until no entry is left, removing those whose process was *)
(* reaped, and fails when the second deadline passes.                        *)
Cancel(w) ==
    LET tokens == TokensOf(ledger, S(w)) IN
    /\ At(w, "cancel")
    /\ ledger' = [ledger EXCEPT !.runtime = [v \in Workers |->
           IF v \in tokens THEN [ledger.runtime[v] EXCEPT !.cancelled = TRUE] ELSE ledger.runtime[v]]]
    /\ process' = Doomed(Running(ledger, tokens))
    /\ Go(w, "wait")
    /\ UNCHANGED <<disk, lease, locks, stages>>

WaitsRunning(s) == Running(ledger, TokensOf(ledger, s))
Waits(s) == TokensOf(ledger, s)

Wait(w) ==
    /\ At(w, "wait")
    /\ \/ Waits(S(w)) = {} /\ Go(w, "resources") /\ UNCHANGED ledger
       \/ \E v \in Running(ledger, TokensOf(ledger, S(w))) :
            /\ Reaped(v)
            /\ ledger' = [ledger EXCEPT !.runtime[v] = None]
            /\ UNCHANGED job
       \/ Waits(S(w)) # {} /\ Fails("timeout") /\ Leave(w, "idle") /\ UNCHANGED ledger
    /\ UNCHANGED <<disk, lease, process, locks, stages>>

(* release_sandbox_resources: on success no process of the sandbox is left.  *)
(* A missing directory needs no remove_tree.                                 *)
EndedRegistered(s) == [v \in Workers |-> IF v \in TokensOf(ledger, s) THEN None ELSE process[v]]
Ended(s) ==
    [v \in Workers |-> IF process[v] # None /\ process[v].sandbox = s THEN None ELSE process[v]]

Resources(w) ==
    /\ At(w, "resources")
    /\ \/ /\ process' = Ended(S(w))
          /\ Go(w, IF disk[S(w)].dir THEN "children" ELSE "finish_release")
       \/ Fails("resources") /\ GiveUp(w) /\ UNCHANGED process
    /\ UNCHANGED <<disk, lease, ledger, locks, stages>>

(* remove_tree: everything but the metadata, the metadata, the directory,    *)
(* then the root's sync.                                                     *)
Removed(d, pc) ==
    CASE pc = "children" -> [d EXCEPT !.workspace = FALSE, !.temp = FALSE]
      [] pc = "unlink"   -> [d EXCEPT !.metadata = None]
      [] pc = "rmdir"    -> Empty
AfterRemove == [children |-> "unlink", unlink |-> "rmdir", rmdir |-> "root_sync"]

RemoveStep(w) ==
    /\ job[w].pc \in DOMAIN AfterRemove
    /\ \/ SetDisk(S(w), Removed(disk[S(w)], job[w].pc)) /\ Go(w, AfterRemove[job[w].pc])
       \/ Fails("tree") /\ GiveUp(w) /\ UNCHANGED disk
    /\ UNCHANGED <<lease, ledger, process, locks, stages>>

RootSync(w) ==
    /\ At(w, "root_sync")
    /\ Go(w, "finish_release") \/ (Fails("tree") /\ GiveUp(w))
    /\ UNCHANGED <<disk, lease, ledger, process, locks, stages>>

(* finish_release unlinks the record, unless the lease is quarantined; an    *)
(* error may come before the unlink or after it.                             *)
FinishRelease(w) ==
    LET frees == Isolated /\ job[w].lease # "Quarantined"
        freed == [lease EXCEPT ![S(w)] = None]
    IN
    /\ At(w, "finish_release")
    /\ \/ lease' = (IF frees THEN freed ELSE lease) /\ Go(w, "forget")
       \/ frees /\ Fails("lease") /\ lease' \in {lease, freed} /\ GiveUp(w)
    /\ UNCHANGED <<disk, ledger, process, locks, stages>>

Forget(w) ==
    /\ At(w, "forget")
    /\ ledger' = remove_record_from_ledger(ledger, S(w))
    /\ GiveUp(w)
    /\ UNCHANGED <<disk, lease, process, locks, stages>>

-----------------------------------------------------------------------------
(* A launch, outside the lifecycle lock.  begin_launch takes a runtime       *)
(* entry; its check of the shutdown flag is under the ledger lock.           *)
AdmitsFrozen(w) ==
    /\ ledger.records[S(w)] = Meta("Active", job[w].handle.owner)
    /\ Cardinality(TokensOf(ledger, S(w))) < MaxLaunches
Admits(w) ==
    /\ stage = "ready"
    /\ ledger.records[S(w)] = Meta("Active", job[w].handle.owner)
    /\ Cardinality(TokensOf(ledger, S(w))) < MaxLaunches

Return(w) == job' = [job EXCEPT ![w] = Idle]

begin_launch(w) ==
    /\ At(w, "begin_launch")
    /\ IF Admits(w)
       THEN /\ ledger' = [ledger EXCEPT !.runtime[w] =
                   [sandbox |-> S(w), marker |-> "Launching", cancelled |-> FALSE]]
            /\ Go(w, "spawn")
       ELSE Return(w) /\ UNCHANGED ledger
    /\ UNCHANGED <<disk, lease, process, locks, stages>>

(* clear_runtime drops the entry of a launch that has no process to wait for *)
(* or whose process was reaped; otherwise the entry stays.                   *)
ClearedReaped(w) == ledger.runtime[w] # None /\ ledger.runtime[w].marker = "Running" /\ Reaped(w)
Cleared(w) == ledger.runtime[w] # None /\ (ledger.runtime[w].marker = "Launching" \/ Reaped(w))
clear_runtime(w) == ledger' = IF Cleared(w) THEN [ledger EXCEPT !.runtime[w] = None] ELSE ledger

(* The launcher: it needs the workspace, accepts no launch once it was shut  *)
(* down, and none whose identity differs from a live domain's.               *)
Launchable(w) ==
    /\ disk[S(w)].workspace /\ stage # "stopped"
    /\ \A v \in Workers : process[v] # None /\ process[v].sandbox = S(w) =>
                            process[v].pair = job[w].handle.pair

Spawn(w) ==
    /\ At(w, "spawn")
    /\ \/ /\ Launchable(w)
          /\ process' = [process EXCEPT ![w] = [sandbox |-> S(w), pair |-> job[w].handle.pair,
                                                leader |-> TRUE, doomed |-> FALSE]]
          /\ Go(w, "finish_launch") /\ UNCHANGED ledger
       \/ /\ ~Launchable(w) \/ Fails("spawn")
          /\ clear_runtime(w) /\ Return(w) /\ UNCHANGED process
    /\ UNCHANGED <<disk, lease, locks, stages>>

(* finish_launch commits only while the record is Active in memory and on    *)
(* disk and no delete or shutdown has cancelled the entry; a launch that     *)
(* lost is terminated, escalating to SIGKILL, and waited for.                *)
Commits(w) ==
    LET m == ledger.records[S(w)] IN
    /\ ledger.runtime[w] # None /\ ~ledger.runtime[w].cancelled
    /\ m # None /\ m.state = "Active"
    /\ inspect(S(w)) = "Active" /\ disk[S(w)].metadata.owner = m.owner

finish_launch(w) ==
    /\ At(w, "finish_launch")
    /\ IF Commits(w)
       THEN /\ ledger' = [ledger EXCEPT !.runtime[w].marker = "Running"]
            /\ Go(w, "running") /\ UNCHANGED process
       ELSE /\ process' = Doomed({w})
            /\ Go(w, "terminate") /\ UNCHANGED ledger
    /\ UNCHANGED <<disk, lease, locks, stages>>

Terminate(w) ==
    /\ At(w, "terminate")
    /\ Reaped(w) \/ Fails("timeout")
    /\ clear_runtime(w) /\ Return(w)
    /\ UNCHANGED <<disk, lease, process, locks, stages>>

(* The channel: a launch whose acknowledgement fails is terminated; a        *)
(* completed or disconnected one clears its entry once and is over.          *)
Unpublished(w) ==
    /\ At(w, "running")
    /\ process' = Doomed({w}) /\ Go(w, "terminate")
    /\ UNCHANGED <<disk, lease, ledger, locks, stages>>

EndChannel(w) ==
    /\ At(w, "running")
    /\ clear_runtime(w) /\ Return(w)
    /\ UNCHANGED <<disk, lease, process, locks, stages>>

(* The direct child exits, with or without surviving descendants; later      *)
(* those exit.                                                               *)
Exit(w) ==
    /\ process[w] # None
    /\ \/ process' = [process EXCEPT ![w] = None]
       \/ process[w].leader /\ process' = [process EXCEPT ![w].leader = FALSE]
    /\ UNCHANGED <<disk, lease, ledger, locks, job, stages>>

-----------------------------------------------------------------------------
(* The daemon dies between any two file operations, or exits after a         *)
(* shutdown or a failed start, and is started again.  Its memory is gone;    *)
(* files and sandbox processes stay.                                         *)
Crash ==
    /\ \/ crashes < MaxCrashes /\ crashes' = crashes + 1
       \/ stage \in {"failed", "dirty", "stopped"} /\ UNCHANGED crashes
    /\ ledger' = NewLedger
    /\ lifecycle' = [s \in Sandboxes |-> None] /\ lock_entries' = {}
    /\ job' = [w \in Threads |-> Idle]
    /\ stage' = "scan" /\ todo' = {}
    /\ UNCHANGED <<disk, lease, process>>

(* load_registry: valid entries become records, corrupt ones are blocked.    *)
Scan ==
    LET valid == {s \in Sandboxes : inspect(s) \in {"Active", "Deleting"}} IN
    /\ stage = "scan" /\ stage' = "sweep"
    /\ ledger' = [NewLedger EXCEPT
         !.records = [s \in Sandboxes |-> IF s \in valid THEN disk[s].metadata ELSE None],
         !.owner_counts = [o \in Principals |->
             Cardinality({s \in valid : disk[s].metadata.owner = o})],
         !.blocked = {s \in Sandboxes : inspect(s) = "Corrupt"}]
    /\ UNCHANGED <<disk, lease, process, locks, job, todo, crashes>>

(* reconcile_startup: first the launcher ends every process a previous       *)
(* daemon left; the manager stays unavailable when it cannot.                *)
Sweep ==
    /\ stage = "sweep"
    /\ \/ /\ process' = [w \in Workers |-> None]
          /\ stage' = "leases"
          /\ todo' = {s \in Sandboxes : lease[s] # None}
       \/ Fails("resources") /\ stage' = "failed" /\ UNCHANGED <<process, todo>>
    /\ UNCHANGED <<disk, lease, ledger, locks, job, crashes>>

(* Then each lease is matched with its sandbox: an Active or Releasing one   *)
(* whose sandbox is corrupt or another owner's, and an Active one without a  *)
(* sandbox, are quarantined; a Releasing one without a sandbox is freed.     *)
Matches(s) == inspect(s) \in {"Active", "Deleting"} /\ disk[s].metadata.owner = lease[s].owner
ReconciledEager(s) ==
    CASE lease[s].state = "Releasing" -> None
      [] lease[s].state = "Quarantined" \/ Matches(s) -> lease[s]
      [] OTHER -> [lease[s] EXCEPT !.state = "Quarantined"]
Reconciled(s) ==
    CASE lease[s].state = "Quarantined" \/ Matches(s) -> lease[s]
      [] lease[s].state = "Releasing" /\ inspect(s) = "Absent" -> None
      [] OTHER -> [lease[s] EXCEPT !.state = "Quarantined"]

UnfinishedReleasing ==
    {s \in Sandboxes : /\ ledger.records[s] # None /\ ledger.records[s].state = "Deleting"
                       /\ lease[s] # None /\ lease[s].state = "Releasing"}
Unfinished == {s \in Sandboxes : ledger.records[s] # None /\ ledger.records[s].state = "Deleting"}

ReconcileLease ==
    /\ stage = "leases"
    /\ \/ \E s \in todo :
            /\ lease' = [lease EXCEPT ![s] = Reconciled(s)]
            /\ todo' = todo \ {s} /\ UNCHANGED stage
       \/ todo # {} /\ Fails("lease") /\ stage' = "failed" /\ UNCHANGED <<lease, todo>>
       \/ todo = {} /\ stage' = "deleting" /\ todo' = Unfinished /\ UNCHANGED lease
    /\ UNCHANGED <<disk, ledger, process, locks, job, crashes>>

(* Then every Deleting sandbox is deleted, one after the other, by the Boot  *)
(* thread and outside the lifecycle locks; one without its lease is skipped. *)
reconcile_deleting ==
    /\ stage = "deleting" /\ At(Boot, "idle")
    /\ \/ \E s \in todo :
            /\ todo' = todo \ {s}
            /\ IF Isolated /\ lease[s] = None THEN UNCHANGED job
               ELSE job' = [job EXCEPT ![Boot] = [pc |-> "begin_release", sandbox |-> s,
                        lease |-> IF Isolated THEN lease[s].state ELSE None]]
            /\ UNCHANGED stage
       \/ todo = {} /\ stage' = "ready" /\ UNCHANGED <<job, todo>>
    /\ UNCHANGED <<disk, lease, ledger, process, locks, crashes>>

-----------------------------------------------------------------------------
(* shutdown_runtime: freeze admission, cancel and terminate what the ledger  *)
(* holds, wait for exactly those entries, then shut the launcher down.       *)
Freeze ==
    /\ "shutdown" \in Ops /\ stage = "ready" /\ stage' = "frozen"
    /\ UNCHANGED <<disk, lease, ledger, process, locks, job, todo, crashes>>

Tokens == {w \in Workers : ledger.runtime[w] # None}
CancelAll ==
    /\ ledger' = [ledger EXCEPT !.runtime = [w \in Workers |->
           IF w \in Tokens THEN [ledger.runtime[w] EXCEPT !.cancelled = TRUE] ELSE None]]
    /\ process' = Doomed(Running(ledger, Tokens))

Snapshot ==
    /\ stage = "frozen" /\ stage' = "stopping" /\ todo' = Tokens
    /\ CancelAll
    /\ UNCHANGED <<disk, lease, locks, job, crashes>>

Stop ==
    /\ stage = "stopping"
    /\ \/ \E w \in todo :
            /\ ledger.runtime[w] # None => ledger.runtime[w].marker = "Running" /\ Reaped(w)
            /\ ledger' = [ledger EXCEPT !.runtime[w] = None]
            /\ todo' = todo \ {w} /\ UNCHANGED <<stage, process>>
       \/ /\ todo = {} \/ Fails("timeout")
          /\ \/ stage' = "stopped" /\ process' = [w \in Workers |-> None]
             \/ Fails("resources") /\ stage' = "dirty" /\ UNCHANGED process
          /\ todo' = {} /\ UNCHANGED ledger
    /\ UNCHANGED <<disk, lease, locks, job, crashes>>

(* force_shutdown_runtime, on the second signal: cancel and kill, and wait   *)
(* for nothing.                                                              *)
ForceShutdown ==
    /\ "shutdown" \in Ops /\ stage \in Serving /\ stage' = "dirty" /\ todo' = {}
    /\ CancelAll
    /\ UNCHANGED <<disk, lease, locks, job, crashes>>

-----------------------------------------------------------------------------
Deletes(w) ==
    \/ BeginRelease(w) \/ Resources(w) \/ RemoveStep(w) \/ RootSync(w)
    \/ FinishRelease(w) \/ Forget(w)

Step(w) ==
    \/ Lock(w) \/ Unlock(w)
    \/ ClaimExisting(w) \/ Refuse(w) \/ ClaimAbsent(w) \/ ReserveIdentity(w)
    \/ CreateStep(w) \/ CreateSync(w) \/ Publish(w) \/ Abort(w) \/ AbortFree(w) \/ Unreserve(w)
    \/ DeleteAbsent(w) \/ DeletePresent(w) \/ MarkTemp(w) \/ MarkRename(w) \/ MarkSync(w)
    \/ Cancel(w) \/ Wait(w) \/ Deletes(w)
    \/ begin_launch(w) \/ Spawn(w) \/ finish_launch(w) \/ Terminate(w)

Startup == Scan \/ Sweep \/ ReconcileLease \/ reconcile_deleting \/ Deletes(Boot)

Next ==
    \/ \E w \in Workers : Begin(w) \/ Step(w) \/ Unpublished(w) \/ EndChannel(w) \/ Exit(w)
    \/ Crash \/ Startup
    \/ Freeze \/ Snapshot \/ Stop \/ ForceShutdown

Spec == Init /\ [][Next]_vars

(* A thread inside the manager keeps running, a mutex does not starve a      *)
(* waiter, a completed channel clears its entry, a group that is to get      *)
(* SIGKILL loses its leader, and a restarted daemon runs its reconciliation. *)
(* No request, shutdown, crash, voluntary exit or expired deadline is ever   *)
(* owed: what returns does so without its deadline's help.                   *)
Expires(w) ==
    \/ At(w, "wait") /\ Waits(S(w)) # {} /\ ~At(w, "wait")'
    \/ At(w, "terminate") /\ ~Reaped(w)

FairSpec ==
    /\ Spec
    /\ \A w \in Workers :
         /\ WF_vars(Step(w) /\ ~Expires(w)) /\ SF_vars(Lock(w))
         /\ WF_vars(Reaped(w) /\ EndChannel(w))
         /\ WF_vars(~Reaped(w) /\ process[w].doomed /\ Exit(w))
    /\ WF_vars(Startup) /\ WF_vars(Snapshot) /\ WF_vars(Stop)

-----------------------------------------------------------------------------
(* Properties. *)

(* A sandbox process, descendants included, never loses its workspace: every *)
(* deletion, also one resumed after a crash, ends the processes first        *)
(* (delete, reconcile_startup; the process-ownership contract).              *)
WorkspaceOutlivesProcesses ==
    \A w \in Workers : process[w] # None => disk[process[w].sandbox].workspace

(* A lease record is only freed once no process of its sandbox is left, so   *)
(* no pair becomes reusable under a running process (delete,                 *)
(* reconcile_subid_leases after the startup sweep).                          *)
LeaseOutlivesProcesses ==
    [][\A s \in Sandboxes : lease[s] # None /\ lease'[s] = None =>
          \A w \in Workers : process[w] # None => process[w].sandbox # s]_vars

(* A published isolated sandbox has a lease of the same owner, wherever the  *)
(* daemon stopped: the lease is written before the sandbox and removed after *)
(* it (claim, delete).                                                       *)
LeaseSpansSandbox ==
    Isolated => \A s \in Sandboxes : inspect(s) \in {"Active", "Deleting"} =>
        lease[s] # None /\ lease[s].owner = disk[s].metadata.owner

Reservations == {w \in Workers : job[w].pc \in DOMAIN AfterCreate \union
                    {"reserve", "sync", "publish", "abort", "abort_free", "unreserve"}}
OwnedBy(o) == {s \in Sandboxes : ledger.records[s] # None /\ ledger.records[s].owner = o}

Published == {s \in Sandboxes : inspect(s) \in {"Active", "Deleting"}}

(* The daemon never publishes more sandboxes than max_sandboxes, nor more of *)
(* one owner than max_sandboxes_per_owner, however claims interleave; and    *)
(* the admission counters that see to it equal what they count on every      *)
(* error path: a reservation per claim in flight, and per owner the records  *)
(* plus its reservations (reserve_sandbox, release_sandbox, insert_reserved, *)
(* remove_record_from_ledger).                                               *)
CapsHold ==
    /\ Cardinality(Published) <= MaxSandboxes
    /\ \A o \in Principals :
         Cardinality({s \in Published : disk[s].metadata.owner = o}) <= MaxPerOwner
    /\ ledger.reserved = Cardinality(Reservations)
    /\ \A o \in Principals : ledger.owner_counts[o] =
            Cardinality(OwnedBy(o)) + Cardinality({w \in Reservations : job[w].who = o})

(* Between operations on it, the ledger's view of a sandbox is the durable   *)
(* one, so admission and begin_launch decide on what a restart would find.   *)
LedgerMatchesDisk ==
    \A s \in Sandboxes :
        stage \in Serving /\ lifecycle[s] = None /\ s \notin ledger.blocked =>
            ledger.records[s] = IF s \in Published THEN disk[s].metadata ELSE None

(* After the shutdown snapshot, or a forced shutdown, no launch can be       *)
(* handed out: every entry of the ledger is cancelled; and once shutdown     *)
(* reports success no process is left (shutdown_runtime and                  *)
(* force_shutdown_runtime against begin_launch and finish_launch).           *)
ShutdownBarrier ==
    /\ stage \in {"stopping", "stopped", "dirty"} =>
         \A w \in Workers : ledger.runtime[w] # None => ledger.runtime[w].cancelled
    /\ stage = "stopped" => \A w \in Workers : process[w] = None

(* Every request returns or hands out a running process: no wait on a        *)
(* lifecycle lock, on a runtime entry or on a terminated process is for ever. *)
RequestsReturn ==
    \A w \in Workers : job[w].pc \notin {"idle", "running"} ~> job[w].pc \in {"idle", "running"}

(* A restarted daemon opens for requests with no deletion left half done:    *)
(* every sandbox found Deleting is gone, and no lease is still Releasing,    *)
(* wherever the crash fell (reconcile_startup, reconcile_subid_leases).      *)
RestartFinishesDeletes ==
    [][stage = "deleting" /\ stage' = "ready" =>
          \A s \in Sandboxes : /\ inspect(s) # "Deleting"
                               /\ lease[s] # None => lease[s].state # "Releasing"]_vars

(* What the documentation says of an interrupted deletion: the Deleting      *)
(* record is where a restart resumes it, and it completes, also when the     *)
(* workspace is already gone (docs/architecture.md, remove_tree).            *)
DeletesComplete == \A s \in Sandboxes : inspect(s) = "Deleting" ~> inspect(s) = "Absent"

(* What LifecycleLock says of the lock map: a sandbox has an entry only      *)
(* while some thread holds its lock or waits for it.                         *)
LockMapHoldsUsers == \A s \in lock_entries : Clones(s) > 0

=============================================================================
