------------------------ MODULE SandboxManagerSteps -------------------------
(***************************************************************************)
(* The inductive invariants of the lifecycle service.  Inv: a sandbox's    *)
(* workspace and lease last as long as a process of it lives, over every   *)
(* interleaving of claims, launches, deletions, shutdowns, crashes and the *)
(* recovery after them.  AdmitInv, on top of it: the admission counters    *)
(* count what they should and the caps hold, on disk too.                  *)
(*                                                                         *)
(* Here are the lemmas about the service's operators, the proof that the   *)
(* steps of a run keep AdmitInv, and the proofs that the steps of a claim  *)
(* keep Inv.  SandboxManagerProofs has the other steps and the theorems.   *)
(***************************************************************************)
EXTENDS SandboxManager, TLAPS

(* The labels of a thread that holds the lifecycle lock of its sandbox.    *)
CreateLabels  == {"reserve", "mkdir", "workspace", "temp", "rename", "sync", "publish",
                  "abort", "abort_free", "unreserve"}
MarkLabels    == {"mark_temp", "mark_rename", "mark_sync"}
WaitLabels    == {"begin_release", "cancel", "wait"}
RemoveLabels  == {"children", "unlink", "rmdir", "root_sync", "finish_release"}
DestroyLabels == {"resources", "forget"} \union RemoveLabels
HeldLabels    == {"claim", "delete", "unlock"} \union CreateLabels \union MarkLabels
                   \union WaitLabels \union DestroyLabels

WorkerJobs == [pc : {"lock"} \union HeldLabels \union LaunchLabels, op : {"launch", "delete"},
               who : Principals, sandbox : Sandboxes, next : {"idle", "begin_launch"},
               lease : LeaseStates \union {None}, handle : Handles \union {None}]
BootJobs   == [pc : {"begin_release"} \union DestroyLabels, sandbox : Sandboxes,
               lease : LeaseStates \union {None}]

Directories == [dir : BOOLEAN, workspace : BOOLEAN, temp : BOOLEAN, metadata : Metadata \union {None}]
Ledgers == [records : [Sandboxes -> Metadata \union {None}], blocked : SUBSET Sandboxes,
            owner_counts : [Principals -> Int], reserved : Int,
            runtime : [Workers -> Runtimes \union {None}]]

Starting == {"scan", "sweep", "leases", "deleting", "failed"}

JobsOK ==
    /\ DOMAIN job = Threads
    /\ \A w \in Workers : job[w] \in {Idle} \union WorkerJobs
    /\ job[Boot] \in {Idle} \union BootJobs

TypeInv ==
    /\ disk \in [Sandboxes -> Directories]
    /\ lease \in [Sandboxes -> Leases \union {None}]
    /\ ledger \in Ledgers
    /\ process \in [Workers -> Processes \union {None}]
    /\ DOMAIN lifecycle = Sandboxes
    /\ lock_entries \subseteq Sandboxes
    /\ JobsOK
    /\ stage \in Starting \union {"ready", "frozen", "stopping", "stopped", "dirty"}
    /\ stage \in {"leases", "deleting"} => todo \subseteq Sandboxes
    /\ stage = "stopping" => todo \subseteq Workers

Held(w) == job[w].pc \in HeldLabels

(* A lifecycle lock has one holder.                                        *)
LockInv ==
    \A w \in Workers : Held(w) => lifecycle[S(w)] = w

(* No launch into the sandbox can be admitted.                             *)
Closed(s) == ledger.records[s] # None => ledger.records[s].state = "Deleting"

(* Nothing is served before the startup is over.                           *)
StageInv ==
    /\ stage \in Starting => \A w \in Workers : job[w].pc = "idle" /\ ledger.runtime[w] = None
    /\ job[Boot].pc # "idle" => stage = "deleting"
    /\ stage \in {"leases", "deleting"} => \A w \in Workers : process[w] = None
    /\ stage = "leases" => \A s \in todo : lease[s] # None
    /\ stage = "deleting" => \A s \in todo : Closed(s)

(* Only the thread that marks a sandbox as deleting leaves a temp file     *)
(* beside a published one.                                                 *)
Marking(s) == \E u \in Workers : job[u].pc = "mark_rename" /\ S(u) = s
Usable(s)  == /\ disk[s].dir /\ disk[s].workspace /\ disk[s].metadata # None
              /\ disk[s].temp => Marking(s)

SandboxInv(s) ==
    /\ disk[s].dir \/ disk[s] = Empty
    /\ ledger.records[s] # None /\ ledger.records[s].state = "Active" => Usable(s)
    /\ ledger.records[s] # None /\ disk[s].metadata # None => ledger.records[s].owner = disk[s].metadata.owner
    /\ Isolated /\ "sync" \notin Faults /\ disk[s].metadata # None =>
          lease[s] # None /\ lease[s].owner = disk[s].metadata.owner

NoToken(s)   == \A v \in Workers : ledger.runtime[v] # None => ledger.runtime[v].sandbox # s
NoProcess(s) == \A v \in Workers : process[v] # None => process[v].sandbox # s

(* A launch holds its runtime entry until it is committed or given up.     *)
LaunchInv(w) ==
    /\ ledger.runtime[w] # None => Usable(ledger.runtime[w].sandbox)
    /\ process[w] # None => disk[process[w].sandbox].dir /\ disk[process[w].sandbox].workspace
    /\ job[w].pc \in {"spawn", "finish_launch"} =>
          /\ ledger.runtime[w] # None /\ ledger.runtime[w].sandbox = S(w)
          /\ ledger.runtime[w].marker = "Launching"
    /\ job[w].pc \in {"begin_launch", "spawn"} => job[w].handle # None
    /\ job[w].pc = "unlock" /\ job[w].next = "begin_launch" => job[w].handle # None

(* How far a thread that works on a sandbox has come.                      *)
Creating(w) ==
    LET d == disk[S(w)]
        pc == job[w].pc
    IN
    /\ pc \in CreateLabels => /\ ledger.records[S(w)] = None
                              /\ NoToken(S(w)) /\ NoProcess(S(w))
    /\ pc \in {"reserve", "mkdir"} => ~d.dir
    /\ pc \in {"workspace", "temp", "rename"} => d.dir /\ d.metadata = None
    /\ pc \in {"temp", "rename"} => d.workspace
    /\ pc \in {"sync", "publish"} => /\ d.dir /\ d.workspace /\ ~d.temp
                                     /\ d.metadata = Meta("Active", job[w].who)
    /\ pc \in {"abort", "abort_free"} /\ "sync" \notin Faults => d.metadata = None
    /\ pc = "abort_free" => Isolated
    /\ pc \in CreateLabels \ {"reserve", "unreserve"} /\ Isolated =>
          lease[S(w)] # None /\ lease[S(w)].owner = job[w].who

Deleting(w) ==
    LET s == S(w)
        pc == job[w].pc
    IN
    /\ pc \in MarkLabels => disk[s].dir /\ disk[s].metadata # None /\ ledger.records[s] # None
    /\ pc \in WaitLabels \union DestroyLabels => Closed(s)
    /\ pc \in MarkLabels \union {"begin_release"} /\ job[w].lease # None => lease[s] # None
    /\ pc \in DestroyLabels => NoToken(s)
    /\ pc \in RemoveLabels => NoProcess(s)
    /\ pc \in {"rmdir", "root_sync", "finish_release"} => disk[s].metadata = None
    /\ pc \in {"children", "unlink", "rmdir"} => disk[s].dir

(* A thread that holds a lifecycle lock or waits for it finds its mutex in the *)
(* map, which is why lifecycle is one mutex per sandbox.                       *)
LockEntryOutlivesUsers ==
    \A w \in Workers : job[w].pc \notin {"idle"} \union LaunchLabels => S(w) \in lock_entries

Inv ==
    /\ TypeInv /\ LockInv /\ StageInv /\ ShutdownBarrier /\ LockEntryOutlivesUsers
    /\ \A s \in Sandboxes : SandboxInv(s)
    /\ \A w \in Workers : LaunchInv(w) /\ Creating(w)
    /\ \A w \in Threads : Deleting(w)

(* The default prover; steps about records, numbers or temporal logic name  *)
(* theirs.                                                                 *)
USE ZenonT(40)

-----------------------------------------------------------------------------
(* A thread's job after a move.                                            *)

LEMMA WorkerAt ==
  ASSUME TypeInv, NEW w \in Workers, job[w].pc # "idle"
  PROVE  /\ job[w] \in WorkerJobs /\ S(w) \in Sandboxes /\ job[w].who \in Principals
         /\ w \in Threads /\ w # Boot
<1>1. job[w] \in WorkerJobs
  BY SMT DEF TypeInv, JobsOK, Idle
<1>2. w \in Threads /\ w # Boot
  BY ManagerAssumption DEF Threads
<1> QED
  BY SMT, <1>1, <1>2 DEF WorkerJobs, S

LEMMA BootAt ==
  ASSUME TypeInv, job[Boot].pc # "idle"
  PROVE  /\ job[Boot] \in BootJobs /\ S(Boot) \in Sandboxes
         /\ Boot \in Threads
<1>1. job[Boot] \in BootJobs
  BY SMT DEF TypeInv, JobsOK, Idle
<1>2. Boot \in Threads
  BY DEF Threads
<1> QED
  BY SMT, <1>1, <1>2 DEF BootJobs, S

Others(w) == \A v \in Threads \ {w} : job'[v] = job[v]

(* Thread w is at label p, with the locals it had.                         *)
Went(w, p) ==
    /\ job'[w].pc = p /\ job'[w].sandbox = job[w].sandbox /\ job'[w].lease = job[w].lease
    /\ w # Boot => /\ job'[w].who = job[w].who /\ job'[w].next = job[w].next
                   /\ job'[w].handle = job[w].handle

WorkerLabels == {"lock"} \union HeldLabels \union LaunchLabels
BootLabels   == {"begin_release"} \union DestroyLabels

LEMMA OneJob ==
  ASSUME TypeInv, NEW w \in Threads, NEW x,
         job' = [job EXCEPT ![w] = x],
         w \in Workers => x \in {Idle} \union WorkerJobs,
         w = Boot => x \in {Idle} \union BootJobs
  PROVE  JobsOK' /\ Others(w) /\ job'[w] = x
<1>1. DOMAIN job = Threads
  BY DEF TypeInv, JobsOK
<1>2. /\ DOMAIN job' = Threads /\ job'[w] = x
      /\ \A v \in Threads \ {w} : job'[v] = job[v]
  BY <1>1
<1>3. Boot \in Threads /\ \A v \in Workers : v \in Threads
  BY DEF Threads
<1>4. \A v \in Workers : job'[v] \in {Idle} \union WorkerJobs
  BY <1>2, <1>3 DEF TypeInv, JobsOK
<1>5. job'[Boot] \in {Idle} \union BootJobs
  BY <1>2, <1>3 DEF TypeInv, JobsOK
<1> QED
  BY <1>2, <1>4, <1>5 DEF JobsOK, Others

LEMMA Goes ==
  ASSUME TypeInv, NEW w \in Workers, job[w].pc # "idle", NEW p \in WorkerLabels, Go(w, p)
  PROVE  JobsOK' /\ Others(w) /\ Went(w, p)
<1>1. job[w] \in WorkerJobs /\ w \in Threads /\ w # Boot
  BY WorkerAt
<1>2. job' = [job EXCEPT ![w] = [job[w] EXCEPT !.pc = p]]
  BY SMT DEF Go
<1>3. [job[w] EXCEPT !.pc = p] \in WorkerJobs
  BY SMT, <1>1 DEF WorkerJobs, WorkerLabels
<1>4. JobsOK' /\ Others(w) /\ job'[w] = [job[w] EXCEPT !.pc = p]
  BY <1>1, <1>2, <1>3, OneJob
<1> QED
  BY SMT, <1>1, <1>4 DEF WorkerJobs, Went

LEMMA BootGoes ==
  ASSUME TypeInv, job[Boot].pc # "idle", NEW p \in BootLabels, Go(Boot, p)
  PROVE  JobsOK' /\ Others(Boot) /\ Went(Boot, p)
<1>1. job[Boot] \in BootJobs /\ Boot \in Threads /\ Boot \notin Workers
  BY BootAt, ManagerAssumption
<1>2. job' = [job EXCEPT ![Boot] = [job[Boot] EXCEPT !.pc = p]]
  BY SMT DEF Go
<1>3. [job[Boot] EXCEPT !.pc = p] \in BootJobs
  BY SMT, <1>1 DEF BootJobs, BootLabels
<1>4. JobsOK' /\ Others(Boot) /\ job'[Boot] = [job[Boot] EXCEPT !.pc = p]
  BY <1>1, <1>2, <1>3, OneJob
<1> QED
  BY SMT, <1>1, <1>4 DEF BootJobs, Went

LEMMA Leaves ==
  ASSUME TypeInv, NEW w \in Workers, job[w].pc # "idle", NEW n \in {"idle", "begin_launch"}, Leave(w, n)
  PROVE  /\ JobsOK' /\ Others(w)
         /\ job'[w].pc = "unlock" /\ job'[w].next = n /\ job'[w].sandbox = job[w].sandbox
<1>1. job[w] \in WorkerJobs /\ w \in Threads /\ w # Boot
  BY WorkerAt
<1>2. job' = [job EXCEPT ![w] = [job[w] EXCEPT !.pc = "unlock", !.next = n]]
  BY <1>1, WorkerAt DEF Leave
<1>3. [job[w] EXCEPT !.pc = "unlock", !.next = n] \in WorkerJobs
  BY <1>1 DEF WorkerJobs, HeldLabels
<1>4. JobsOK' /\ Others(w) /\ job'[w] = [job[w] EXCEPT !.pc = "unlock", !.next = n]
  BY <1>1, <1>2, <1>3, OneJob
<1> QED
  BY SMT, <1>1, <1>4 DEF WorkerJobs

LEMMA Stops ==
  ASSUME TypeInv, NEW w \in Threads, job' = [job EXCEPT ![w] = Idle]
  PROVE  JobsOK' /\ Others(w) /\ job'[w].pc = "idle"
<1>1. JobsOK' /\ Others(w) /\ job'[w] = Idle
  BY OneJob
<1> QED
  BY SMT, <1>1 DEF Idle

-----------------------------------------------------------------------------
(* A step of a thread that works on its sandbox.                           *)

(* Entries and processes are only lost, and no entry of a launch in        *)
(* progress is.                                                            *)
RuntimeShrinks ==
    \A v \in Workers :
        /\ ledger'.runtime[v] # None =>
              /\ ledger.runtime[v] # None /\ ledger'.runtime[v].sandbox = ledger.runtime[v].sandbox
              /\ ledger.runtime[v].cancelled => ledger'.runtime[v].cancelled
        /\ ledger.runtime[v] # None /\ ledger.runtime[v].marker = "Launching" =>
              ledger'.runtime[v] # None /\ ledger'.runtime[v].marker = "Launching"

ProcessShrinks ==
    \A v \in Workers :
        process'[v] # None => process[v] # None /\ process'[v].sandbox = process[v].sandbox

(* Thread w changes nothing but what its sandbox's lock protects.          *)
Local(w) ==
    /\ Others(w)
    /\ job'[w].pc \in {"idle"} \union HeldLabels
    /\ job'[w].pc # "idle" => S(w)' = S(w)
    /\ \A t \in Sandboxes \ {S(w)} : /\ disk'[t] = disk[t] /\ lease'[t] = lease[t]
                                     /\ ledger'.records[t] = ledger.records[t]
    /\ RuntimeShrinks /\ ProcessShrinks
    /\ UNCHANGED <<locks, stage, todo>>

LEMMA Shrinks ==
  ASSUME RuntimeShrinks, ProcessShrinks, NEW s
  PROVE  (NoToken(s) => NoToken(s)') /\ (NoProcess(s) => NoProcess(s)')
BY DEF RuntimeShrinks, ProcessShrinks, NoToken, NoProcess

(* What a thread knows of its sandbox stays true while nobody touches it.  *)
LEMMA CreatingFrame ==
  ASSUME NEW v \in Workers, NEW t, t = S(v), Creating(v), job'[v] = job[v],
         disk'[t] = disk[t], lease'[t] = lease[t], ledger'.records[t] = ledger.records[t],
         job[v].pc \in CreateLabels => (NoToken(t) => NoToken(t)') /\ (NoProcess(t) => NoProcess(t)')
  PROVE  Creating(v)'
<1>1. S(v)' = t
  BY DEF S
<1> QED
  BY <1>1 DEF Creating, NoToken, NoProcess

LEMMA DeletingFrame ==
  ASSUME NEW v \in Threads, NEW t, t = S(v), Deleting(v), job'[v] = job[v],
         disk'[t] = disk[t], lease'[t] = lease[t], ledger'.records[t] = ledger.records[t],
         job[v].pc \in DestroyLabels => (NoToken(t) => NoToken(t)'),
         job[v].pc \in RemoveLabels => (NoProcess(t) => NoProcess(t)')
  PROVE  Deleting(v)'
<1>1. S(v)' = t
  BY DEF S
<1> QED
  BY <1>1 DEF Deleting, Closed, NoToken, NoProcess

(* A thread outside a lock knows nothing.                                  *)
LEMMA Unheld ==
  ASSUME NEW v, job[v].pc \notin HeldLabels
  PROVE  Creating(v) /\ Deleting(v)
BY DEF Creating, Deleting, HeldLabels, CreateLabels, MarkLabels, WaitLabels, DestroyLabels, RemoveLabels

(* Two threads at work have two sandboxes.                                 *)
LEMMA Exclusive ==
  ASSUME Inv, NEW w \in Threads, NEW v \in Threads, v # w,
         job[w].pc \in HeldLabels, job[v].pc \in HeldLabels
  PROVE  S(v) # S(w)
<1>1. "idle" \notin HeldLabels
  BY SMT DEF HeldLabels, CreateLabels, MarkLabels, WaitLabels, DestroyLabels, RemoveLabels
<1>2. w \in Workers /\ v \in Workers
  <2>1. ASSUME job[Boot].pc \in HeldLabels, NEW u \in Workers, job[u].pc \in HeldLabels PROVE FALSE
    BY <1>1, <2>1 DEF Inv, StageInv, Starting
  <2> QED
    BY <2>1 DEF Threads
<1> QED
  BY <1>2 DEF Inv, LockInv, Held

LEMMA UsableFrame ==
  ASSUME NEW w \in Threads, Others(w), NEW t, S(w) # t, disk'[t] = disk[t], Usable(t)
  PROVE  Usable(t)'
<1>1. Marking(t) => Marking(t)'
  BY DEF Marking, S, Others, Threads
<1> QED
  BY <1>1 DEF Usable

LEMMA HeldStep ==
  ASSUME Inv, NEW w \in Threads, job[w].pc \in HeldLabels, NEW s \in Sandboxes, s = S(w),
         Local(w), TypeInv', SandboxInv(s)',
         w \in Workers => Creating(w)', Deleting(w)', w = Boot => Closed(s)',
         NoToken(s) \/ Usable(s)', NoProcess(s) \/ (disk'[s].dir /\ disk'[s].workspace),
         w \in Workers /\ job'[w].pc = "unlock" /\ job'[w].next = "begin_launch" => job'[w].handle # None
  PROVE  Inv'
<1>1. /\ lifecycle' = lifecycle /\ lock_entries' = lock_entries /\ stage' = stage /\ todo' = todo
      /\ Others(w) /\ RuntimeShrinks /\ ProcessShrinks
      /\ \A t \in Sandboxes \ {s} : disk'[t] = disk[t] /\ lease'[t] = lease[t] /\ ledger'.records[t] = ledger.records[t]
      /\ job'[w].pc \in {"idle"} \union HeldLabels
      /\ job'[w].pc # "idle" => S(w)' = s
  BY DEF Local, locks
<1>2. /\ "idle" \notin HeldLabels
      /\ {"begin_launch", "spawn", "finish_launch"} \cap ({"idle"} \union HeldLabels) = {}
      /\ "unlock" \in HeldLabels /\ "mark_rename" \in HeldLabels
  BY SMT DEF HeldLabels, CreateLabels, MarkLabels, WaitLabels, DestroyLabels, RemoveLabels
<1>3. \A v \in Workers : v \in Threads
  BY DEF Threads
<1>4. \A v \in Workers \ {w} : job'[v] = job[v]
  BY <1>1, <1>3 DEF Others
<1>5. \A v \in Threads \ {w} : job[v].pc \in HeldLabels => S(v) \in Sandboxes \ {s}
  <2> SUFFICES ASSUME NEW v \in Threads \ {w}, job[v].pc \in HeldLabels PROVE S(v) \in Sandboxes /\ S(v) # s
    OBVIOUS
  <2>1. S(v) # s
    BY Exclusive
  <2>2. TypeInv /\ (v \in Workers \/ v = Boot)
    BY DEF Inv, Threads
  <2> QED
    BY <1>2, <2>1, <2>2, WorkerAt, BootAt
<1>6. TypeInv /\ LockInv /\ StageInv /\ ShutdownBarrier /\ LockEntryOutlivesUsers
  BY DEF Inv
<1>7. LockInv'
  <2> SUFFICES ASSUME NEW v \in Workers, job'[v].pc \in HeldLabels PROVE lifecycle'[S(v)'] = v
    BY DEF LockInv, Held
  <2>1. CASE v = w
    BY <1>1, <1>2, <1>6, <2>1 DEF LockInv, Held
  <2>2. CASE v # w
    BY <1>1, <1>4, <1>6, <2>2 DEF LockInv, Held, S
  <2> QED
    BY <2>1, <2>2
<1>8. LockEntryOutlivesUsers'
  <2>1. LaunchLabels \cap HeldLabels = {} /\ "idle" \notin HeldLabels
    BY SMT DEF HeldLabels, CreateLabels, MarkLabels, WaitLabels, DestroyLabels, RemoveLabels, LaunchLabels
  <2> SUFFICES ASSUME NEW v \in Workers, job'[v].pc \notin {"idle"} \union LaunchLabels PROVE S(v)' \in lock_entries'
    BY DEF LockEntryOutlivesUsers
  <2>2. CASE v = w
    BY <1>1, <1>6, <2>1, <2>2 DEF LockEntryOutlivesUsers
  <2>3. CASE v # w
    BY <1>1, <1>4, <1>6, <2>3 DEF LockEntryOutlivesUsers, S
  <2> QED
    BY <2>2, <2>3
<1>9. ShutdownBarrier'
  BY <1>1, <1>6 DEF ShutdownBarrier, RuntimeShrinks, ProcessShrinks
<1>10. StageInv'
  <2>1. CASE w \in Workers
    <3>1. stage \notin Starting
      BY <1>2, <1>6, <2>1 DEF StageInv
    <3>2. job'[Boot] = job[Boot]
      BY <1>1, <2>1, ManagerAssumption DEF Others, Threads
    <3> QED
      BY <1>1, <1>6, <3>1, <3>2 DEF StageInv, Starting
  <2>2. CASE w = Boot
    <3>1. stage = "deleting"
      BY <1>2, <1>6, <2>2 DEF StageInv
    <3>2. \A v \in Workers : job'[v] = job[v]
      BY <1>4, <2>2, ManagerAssumption
    <3>3. \A v \in Workers : job'[v].pc = "idle" /\ ledger'.runtime[v] = None /\ process'[v] = None
      BY <1>1, <1>6, <3>1, <3>2 DEF StageInv, RuntimeShrinks, ProcessShrinks, Starting
    <3>4. todo \subseteq Sandboxes
      BY <1>6, <3>1 DEF TypeInv
    <3>5. \A t \in todo : Closed(t)'
      BY <1>1, <1>6, <2>2, <3>1, <3>4 DEF StageInv, Closed
    <3> QED
      BY <1>1, <3>1, <3>3, <3>5 DEF StageInv
  <2> QED
    BY <2>1, <2>2 DEF Threads
<1>11. \A t \in Sandboxes : SandboxInv(t)'
  <2> SUFFICES ASSUME NEW t \in Sandboxes \ {s} PROVE SandboxInv(t)'
    OBVIOUS
  <2>1. SandboxInv(t)
    BY DEF Inv
  <2>2. disk'[t] = disk[t] /\ lease'[t] = lease[t] /\ ledger'.records[t] = ledger.records[t]
    BY <1>1
  <2>3. Usable(t) => Usable(t)'
    BY <1>1, <2>2, UsableFrame
  <2> QED
    BY <2>1, <2>2, <2>3 DEF SandboxInv
<1>12. \A v \in Workers : LaunchInv(v)'
  <2> SUFFICES ASSUME NEW v \in Workers PROVE LaunchInv(v)'
    OBVIOUS
  <2>1. LaunchInv(v)
    BY DEF Inv
  <2>2. (ledger.runtime[v] # None => Usable(ledger.runtime[v].sandbox))'
    <3> SUFFICES ASSUME ledger'.runtime[v] # None, NEW t, t = ledger.runtime[v].sandbox PROVE Usable(t)'
      BY <1>1 DEF RuntimeShrinks, Usable, Marking
    <3>1. ledger.runtime[v] # None /\ Usable(t)
      BY <1>1, <2>1 DEF RuntimeShrinks, LaunchInv
    <3>2. t \in Sandboxes
      BY SMT, <1>6, <3>1 DEF TypeInv, Ledgers, Runtimes
    <3>3. CASE t = s
      BY <3>1, <3>3 DEF NoToken
    <3>4. CASE t # s
      BY <1>1, <3>1, <3>2, <3>4, UsableFrame
    <3> QED
      BY <3>3, <3>4
  <2>3. process'[v] # None => disk'[process'[v].sandbox].dir /\ disk'[process'[v].sandbox].workspace
    <3> SUFFICES ASSUME process'[v] # None, NEW t, t = process[v].sandbox PROVE disk'[t].dir /\ disk'[t].workspace
      BY <1>1 DEF ProcessShrinks
    <3>1. process[v] # None /\ disk[t].dir /\ disk[t].workspace
      BY <1>1, <2>1 DEF ProcessShrinks, LaunchInv
    <3>2. t \in Sandboxes
      BY SMT, <1>6, <3>1 DEF TypeInv, Processes
    <3> QED
      BY <1>1, <3>1, <3>2 DEF NoProcess
  <2>4. CASE v = w
    BY <1>1, <1>2, <2>2, <2>3, <2>4 DEF LaunchInv
  <2>5. CASE v # w
    <3>1. job'[v] = job[v]
      BY <1>4, <2>5
    <3>2. job[v].pc \in {"spawn", "finish_launch"} =>
             /\ ledger'.runtime[v] # None /\ ledger'.runtime[v].sandbox = S(v)
             /\ ledger'.runtime[v].marker = "Launching"
      BY <1>1, <2>1 DEF RuntimeShrinks, LaunchInv
    <3> QED
      BY <2>1, <2>2, <2>3, <3>1, <3>2 DEF LaunchInv, S
  <2> QED
    BY <2>4, <2>5
<1>13. \A v \in Workers : Creating(v)'
  <2> SUFFICES ASSUME NEW v \in Workers, v # w PROVE Creating(v)'
    OBVIOUS
  <2>1. job'[v] = job[v] /\ Creating(v) /\ v \in Threads
    BY <1>3, <1>4 DEF Inv
  <2>2. CASE job[v].pc \in HeldLabels
    <3>1. PICK t : t = S(v)
      OBVIOUS
    <3>2. disk'[t] = disk[t] /\ lease'[t] = lease[t] /\ ledger'.records[t] = ledger.records[t]
      BY <1>1, <1>5, <2>1, <2>2, <3>1
    <3>3. (NoToken(t) => NoToken(t)') /\ (NoProcess(t) => NoProcess(t)')
      BY <1>1, Shrinks
    <3> QED
      BY <2>1, <3>1, <3>2, <3>3, CreatingFrame
  <2>3. CASE job[v].pc \notin HeldLabels
    BY <2>1, <2>3 DEF Creating, HeldLabels, CreateLabels
  <2> QED
    BY <2>2, <2>3
<1>14. \A v \in Threads : Deleting(v)'
  <2> SUFFICES ASSUME NEW v \in Threads, v # w PROVE Deleting(v)'
    OBVIOUS
  <2>1. job'[v] = job[v] /\ Deleting(v)
    BY <1>1 DEF Inv, Others
  <2>2. CASE job[v].pc \in HeldLabels
    <3>1. PICK t : t = S(v)
      OBVIOUS
    <3>2. disk'[t] = disk[t] /\ lease'[t] = lease[t] /\ ledger'.records[t] = ledger.records[t]
      BY <1>1, <1>5, <2>2, <3>1
    <3>3. (NoToken(t) => NoToken(t)') /\ (NoProcess(t) => NoProcess(t)')
      BY <1>1, Shrinks
    <3> QED
      BY <2>1, <3>1, <3>2, <3>3, DeletingFrame
  <2>3. CASE job[v].pc \notin HeldLabels
    BY <2>1, <2>3 DEF Deleting, HeldLabels, MarkLabels, WaitLabels, DestroyLabels, RemoveLabels
  <2> QED
    BY <2>2, <2>3
<1> QED
  BY <1>7, <1>8, <1>9, <1>10, <1>11, <1>12, <1>13, <1>14 DEF Inv

-----------------------------------------------------------------------------
(* What the operations on one sandbox leave of each variable.              *)

LEMMA SetsDisk ==
  ASSUME TypeInv, NEW s \in Sandboxes, NEW d \in Directories, SetDisk(s, d)
  PROVE  /\ disk' \in [Sandboxes -> Directories] /\ disk'[s] = d
         /\ \A t \in Sandboxes \ {s} : disk'[t] = disk[t]
BY SMT DEF TypeInv, SetDisk

LEMMA SetsLease ==
  ASSUME TypeInv, NEW s \in Sandboxes, NEW x \in Leases \union {None}, lease' = [lease EXCEPT ![s] = x]
  PROVE  /\ lease' \in [Sandboxes -> Leases \union {None}] /\ lease'[s] = x
         /\ \A t \in Sandboxes \ {s} : lease'[t] = lease[t]
BY SMT DEF TypeInv

(* A lease changes its state and keeps its owner.                          *)
LEMMA MovesLease ==
  ASSUME TypeInv, NEW s \in Sandboxes, lease[s] # None, NEW state \in LeaseStates, SetLease(s, state)
  PROVE  /\ lease' \in [Sandboxes -> Leases \union {None}]
         /\ lease'[s] # None /\ lease'[s].owner = lease[s].owner
         /\ \A t \in Sandboxes \ {s} : lease'[t] = lease[t]
<1>1. lease[s] \in Leases /\ lease \in [Sandboxes -> Leases \union {None}]
  BY DEF TypeInv
<1>2. PICK x : x = [lease[s] EXCEPT !.state = state]
  OBVIOUS
<1>3. x \in Leases /\ x.owner = lease[s].owner
  BY SMT, <1>1, <1>2 DEF Leases
<1>4. lease' = [lease EXCEPT ![s] = x]
  BY <1>2 DEF SetLease
<1>5. /\ lease' \in [Sandboxes -> Leases \union {None}] /\ lease'[s] = x
      /\ \A t \in Sandboxes \ {s} : lease'[t] = lease[t]
  BY <1>3, <1>4, SetsLease
<1> QED
  BY <1>3, <1>5, ManagerAssumption

(* The in-memory ledger, by what an operation does with it.                *)
LEMMA LedgerAt ==
  ASSUME TypeInv
  PROVE  /\ ledger.records \in [Sandboxes -> Metadata \union {None}]
         /\ ledger.blocked \subseteq Sandboxes
         /\ ledger.owner_counts \in [Principals -> Int] /\ ledger.reserved \in Int
         /\ ledger.runtime \in [Workers -> Runtimes \union {None}]
         /\ ledger = [records |-> ledger.records, blocked |-> ledger.blocked,
                      owner_counts |-> ledger.owner_counts, reserved |-> ledger.reserved,
                      runtime |-> ledger.runtime]
BY SMT DEF TypeInv, Ledgers

(* L is the ledger with x for the record of s, whatever its counters.      *)
Records(L, s, x) ==
    /\ L \in Ledgers /\ L.runtime = ledger.runtime
    /\ L.records[s] = x
    /\ \A t \in Sandboxes \ {s} : L.records[t] = ledger.records[t]

LEMMA Counts ==
  ASSUME NEW L \in Ledgers, NEW o \in Principals, NEW n \in Int
  PROVE  /\ Count(L, o, n) \in Ledgers
         /\ Count(L, o, n).records = L.records /\ Count(L, o, n).runtime = L.runtime
         /\ Count(L, o, n).blocked = L.blocked /\ Count(L, o, n).reserved = L.reserved
         /\ Count(L, o, n).owner_counts = [L.owner_counts EXCEPT ![o] = @ + n]
BY SMT DEF Count, Ledgers

LEMMA NoTokens ==
  ASSUME TypeInv, NEW s, NoToken(s)
  PROVE  TokensOf(ledger, s) = {}
BY DEF TokensOf, NoToken

(* Without an entry of s to drop, only its record goes.                    *)
LEMMA Forgets ==
  ASSUME TypeInv, NEW s \in Sandboxes, NoToken(s)
  PROVE  /\ Records(remove_record_from_ledger(ledger, s), s, None)
         /\ Records(Block(ledger, s), s, None)
<1>1. ledger \in Ledgers
  BY DEF TypeInv
<1> DEFINE kept == [ledger EXCEPT !.records[s] = None,
                                  !.runtime = [w \in Workers |-> IF w \in TokensOf(ledger, s) THEN None
                                                                 ELSE ledger.runtime[w]]]
           left == remove_record_from_ledger(ledger, s)
<1>2. [w \in Workers |-> IF w \in TokensOf(ledger, s) THEN None ELSE ledger.runtime[w]] = ledger.runtime
  BY SMT, NoTokens, LedgerAt
<1>3. kept \in Ledgers /\ kept.runtime = ledger.runtime /\ kept.records = [ledger.records EXCEPT ![s] = None]
  BY <1>1, <1>2 DEF Ledgers
<1>4. left = IF ledger.records[s] = None THEN kept ELSE Count(kept, ledger.records[s].owner, -1)
  BY DEF remove_record_from_ledger
<1> HIDE DEF kept, left
<1>5. ledger.records[s] # None => ledger.records[s].owner \in Principals
  BY SMT, LedgerAt DEF Metadata
<1>6. left \in Ledgers /\ left.runtime = ledger.runtime /\ left.records = [ledger.records EXCEPT ![s] = None]
  <2>1. CASE ledger.records[s] = None
    BY <1>3, <1>4, <2>1
  <2>2. CASE ledger.records[s] # None
    <3>1. PICK n \in Int : n = -1
      BY SMT
    <3>2. left = Count(kept, ledger.records[s].owner, n)
      BY <1>4, <2>2, <3>1
    <3>3. PICK o \in Principals : o = ledger.records[s].owner
      BY <1>5, <2>2
    <3>4. /\ Count(kept, o, n) \in Ledgers /\ Count(kept, o, n).runtime = kept.runtime
          /\ Count(kept, o, n).records = kept.records
      BY <1>3, Counts
    <3> QED
      BY <1>3, <3>2, <3>3, <3>4
  <2> QED
    BY <2>1, <2>2
<1>7. ledger.records \in [Sandboxes -> Metadata \union {None}]
  BY LedgerAt
<1>8. Records(left, s, None)
  BY <1>6, <1>7 DEF Records
<1>9. /\ [left EXCEPT !.blocked = @ \union {s}] \in Ledgers
      /\ [left EXCEPT !.blocked = @ \union {s}].runtime = left.runtime
      /\ [left EXCEPT !.blocked = @ \union {s}].records = left.records
  BY SMT, <1>6 DEF Ledgers
<1>10. Block(ledger, s) = [left EXCEPT !.blocked = @ \union {s}]
  BY DEF Block, left
<1> QED
  BY <1>8, <1>9, <1>10 DEF Records, left

(* What inspect found is noted, unless the sandbox is blocked.             *)
LEMMA Notes ==
  ASSUME TypeInv, NEW s \in Sandboxes, NEW m \in Metadata, ~Conflicting(ledger, s, m)
  PROVE  \/ Records(note_valid_record(ledger, s, m), s, m)
         \/ note_valid_record(ledger, s, m) = ledger /\ ~Noted(ledger, s, m)
<1>1. ledger \in Ledgers /\ m.owner \in Principals
  BY SMT DEF TypeInv, Metadata
<1>2. PICK counted : counted = IF ledger.records[s] = None THEN Count(ledger, m.owner, 1) ELSE ledger
  OBVIOUS
<1>3. counted \in Ledgers /\ counted.runtime = ledger.runtime /\ counted.records = ledger.records
  <2>1. 1 \in Int
    BY SMT
  <2> QED
    BY <1>1, <1>2, <2>1, Counts
<1>4. PICK L : L = [counted EXCEPT !.records[s] = m]
  OBVIOUS
<1>5. L \in Ledgers /\ L.runtime = ledger.runtime /\ L.records = [ledger.records EXCEPT ![s] = m]
  BY SMT, <1>3, <1>4 DEF Ledgers
<1>6. Records(L, s, m)
  BY <1>5, LedgerAt DEF Records
<1>7. CASE s \in ledger.blocked
  BY <1>7 DEF note_valid_record, Noted
<1>8. CASE s \notin ledger.blocked
  <2>1. note_valid_record(ledger, s, m) = L
    BY <1>2, <1>4, <1>8 DEF note_valid_record
  <2> QED
    BY <1>6, <2>1
<1> QED
  BY <1>7, <1>8

-----------------------------------------------------------------------------
(* Steps that leave the directories alone.                                 *)

LEMMA Types ==
  ASSUME TypeInv, JobsOK', UNCHANGED <<locks, stage, todo>>,
         disk' \in [Sandboxes -> Directories], lease' \in [Sandboxes -> Leases \union {None}],
         ledger' \in Ledgers, process' \in [Workers -> Processes \union {None}]
  PROVE  TypeInv'
BY DEF TypeInv, locks

LEMMA AtWork ==
  ASSUME Inv, NEW w \in Workers, job[w].pc \in HeldLabels
  PROVE  /\ TypeInv /\ job[w].pc # "idle" /\ job[w] \in WorkerJobs
         /\ S(w) \in Sandboxes /\ w \in Threads /\ w # Boot
         /\ SandboxInv(S(w)) /\ Creating(w) /\ Deleting(w)
<1>1. job[w].pc # "idle"
  BY DEF HeldLabels, CreateLabels, MarkLabels, WaitLabels, DestroyLabels, RemoveLabels
<1>2. TypeInv
  BY DEF Inv
<1>3. S(w) \in Sandboxes /\ w \in Threads /\ w # Boot /\ job[w] \in WorkerJobs
  BY <1>1, <1>2, WorkerAt
<1> QED
  BY <1>1, <1>2, <1>3 DEF Inv

(* Nobody but the thread itself leaves a temp file in its sandbox.         *)
LEMMA Settled ==
  ASSUME Inv, NEW w \in Threads, job[w].pc \in HeldLabels, job[w].pc # "mark_rename",
         NEW s, s = S(w), Usable(s)
  PROVE  ~disk[s].temp
<1> SUFFICES ASSUME NEW u \in Workers, job[u].pc = "mark_rename", S(u) = s PROVE FALSE
  BY DEF Usable, Marking
<1>1. job[u].pc \in HeldLabels /\ u \in Threads
  BY DEF HeldLabels, MarkLabels, Threads
<1> QED
  BY <1>1, Exclusive

(* A thread that only waits, holds its lock for the last time, or works    *)
(* outside it has nothing to know.                                         *)
Unbusy == {"idle", "lock", "claim", "delete", "unlock"} \union LaunchLabels

LEMMA Rests ==
  ASSUME NEW v, job'[v].pc \in Unbusy
  PROVE  Creating(v)' /\ Deleting(v)'
<1>1. /\ Unbusy \cap (CreateLabels \union MarkLabels \union WaitLabels \union DestroyLabels) = {}
      /\ RemoveLabels \subseteq DestroyLabels
      /\ {"children", "unlink", "rmdir", "root_sync", "finish_release"} \subseteq DestroyLabels
      /\ "begin_release" \in WaitLabels
      /\ {"reserve", "mkdir", "workspace", "temp", "rename", "sync", "publish", "abort", "abort_free"} \subseteq CreateLabels
  BY SMT DEF Unbusy, LaunchLabels, CreateLabels, MarkLabels, WaitLabels, DestroyLabels, RemoveLabels
<1>2. Creating(v)'
  BY <1>1 DEF Creating
<1>3. Deleting(v)'
  BY <1>1 DEF Deleting
<1> QED
  BY <1>2, <1>3

LEMMA QuietStep ==
  ASSUME Inv, NEW w \in Threads, job[w].pc \in HeldLabels, job[w].pc # "mark_rename",
         NEW s \in Sandboxes, s = S(w), disk' = disk, Local(w), TypeInv',
         \/ ledger'.records[s] \in {None, ledger.records[s]}
         \/ /\ ledger'.records[s] # None /\ disk[s].metadata # None
            /\ ledger'.records[s].owner = disk[s].metadata.owner
            /\ ledger'.records[s].state = "Active" => disk[s].dir /\ disk[s].workspace /\ ~disk[s].temp,
         \/ lease'[s] = lease[s] \/ disk[s].metadata = None \/ "sync" \in Faults
         \/ lease[s] # None /\ lease'[s] # None /\ lease'[s].owner = lease[s].owner,
         w \in Workers => Creating(w)', Deleting(w)', w = Boot => Closed(s)',
         w \in Workers /\ job'[w].pc = "unlock" /\ job'[w].next = "begin_launch" => job'[w].handle # None
  PROVE  Inv'
<1>1. SandboxInv(s)
  BY DEF Inv
<1>2. Usable(s) => Usable(s)'
  BY Settled DEF Usable
<1>3. SandboxInv(s)'
  <2>1. disk'[s].dir \/ disk'[s] = Empty
    BY <1>1 DEF SandboxInv
  <2>2. ledger'.records[s] # None /\ ledger'.records[s].state = "Active" => Usable(s)'
    BY <1>1, <1>2 DEF SandboxInv, Usable
  <2>3. ledger'.records[s] # None /\ disk'[s].metadata # None =>
           ledger'.records[s].owner = disk'[s].metadata.owner
    BY <1>1 DEF SandboxInv
  <2>4. Isolated /\ "sync" \notin Faults /\ disk'[s].metadata # None =>
           lease'[s] # None /\ lease'[s].owner = disk'[s].metadata.owner
    BY <1>1 DEF SandboxInv
  <2> QED
    BY <2>1, <2>2, <2>3, <2>4 DEF SandboxInv, Empty
<1>4. NoToken(s) \/ Usable(s)'
  BY <1>2 DEF NoToken, Inv, LaunchInv
<1>5. NoProcess(s) \/ (disk'[s].dir /\ disk'[s].workspace)
  BY DEF NoProcess, Inv, LaunchInv
<1> QED
  BY <1>3, <1>4, <1>5, HeldStep

LEMMA Inspected ==
  ASSUME TypeInv, NEW s \in Sandboxes
  PROVE  /\ inspect(s) = "Absent" => ~disk[s].dir
         /\ inspect(s) \in {"Active", "Deleting"} =>
               disk[s].dir /\ ~disk[s].temp /\ disk[s].metadata # None /\ disk[s].metadata \in Metadata
         /\ inspect(s) = "Active" => disk[s].workspace /\ disk[s].metadata.state = "Active"
         /\ inspect(s) = "Deleting" => disk[s].metadata.state = "Deleting"
         /\ inspect(s) = "Corrupt" =>
               disk[s].dir /\ (disk[s].temp \/ disk[s].metadata = None \/ ~disk[s].workspace)
<1>1. disk[s].metadata \in Metadata \union {None}
  BY SMT DEF TypeInv, Directories
<1>2. disk[s].metadata \in Metadata => disk[s].metadata.state \in {"Active", "Deleting"}
  BY SMT DEF Metadata
<1> QED
  BY <1>1, <1>2 DEF inspect

(* What such a step does, variable by variable.                            *)
LeaseKept(s) ==
    /\ lease' \in [Sandboxes -> Leases \union {None}]
    /\ \A t \in Sandboxes \ {s} : lease'[t] = lease[t]
    /\ \/ lease'[s] = lease[s] \/ disk[s].metadata = None \/ "sync" \in Faults
       \/ lease[s] # None /\ lease'[s] # None /\ lease'[s].owner = lease[s].owner

LedgerKept(s) ==
    /\ ledger' \in Ledgers /\ RuntimeShrinks
    /\ \A t \in Sandboxes \ {s} : ledger'.records[t] = ledger.records[t]
    /\ \/ ledger'.records[s] \in {None, ledger.records[s]}
       \/ /\ ledger'.records[s] # None /\ disk[s].metadata # None
          /\ ledger'.records[s].owner = disk[s].metadata.owner
          /\ ledger'.records[s].state = "Active" => disk[s].dir /\ disk[s].workspace /\ ~disk[s].temp

ProcessKept == process' \in [Workers -> Processes \union {None}] /\ ProcessShrinks

JobKept(w) ==
    /\ JobsOK' /\ Others(w) /\ job'[w].pc \in {"idle"} \union HeldLabels
    /\ job'[w].pc # "idle" => job'[w].sandbox = job[w].sandbox
    /\ w \in Workers /\ job'[w].pc = "unlock" /\ job'[w].next = "begin_launch" => job'[w].handle # None

LEMMA SameLease ==
  ASSUME TypeInv, lease' = lease, NEW s
  PROVE  LeaseKept(s)
BY DEF LeaseKept, TypeInv

LEMMA SameRecords ==
  ASSUME ledger' \in Ledgers, ledger'.records = ledger.records, ledger'.runtime = ledger.runtime, NEW s
  PROVE  LedgerKept(s)
BY DEF LedgerKept, RuntimeShrinks

LEMMA SameLedger ==
  ASSUME TypeInv, ledger' = ledger, NEW s
  PROVE  LedgerKept(s)
BY SameRecords DEF TypeInv

LEMMA SameProcesses ==
  ASSUME TypeInv, process' = process
  PROVE  ProcessKept
BY DEF ProcessKept, ProcessShrinks, TypeInv

LEMMA KeptStep ==
  ASSUME Inv, NEW w \in Threads, job[w].pc \in HeldLabels, job[w].pc # "mark_rename",
         NEW s \in Sandboxes, s = S(w), disk' = disk, UNCHANGED <<locks, stage, todo>>,
         LeaseKept(s), LedgerKept(s), ProcessKept, JobKept(w),
         w \in Workers => Creating(w)', Deleting(w)', w = Boot => Closed(s)'
  PROVE  Inv'
<1>1. TypeInv
  BY DEF Inv
<1>2. TypeInv'
  BY <1>1, Types DEF LeaseKept, LedgerKept, ProcessKept, JobKept, TypeInv
<1>3. Local(w)
  BY DEF Local, LeaseKept, LedgerKept, ProcessKept, JobKept, S
<1> QED
  BY <1>2, <1>3, QuietStep DEF LeaseKept, LedgerKept, JobKept

(* The handle of a claimed sandbox.                                        *)
LEMMA HandsOver ==
  ASSUME TypeInv, NEW w \in Workers, job[w].pc # "idle", NEW m, m.owner \in Principals,
         Pair(S(w)) \in Pairs \union {None}, Handed(w, m)
  PROVE  /\ JobsOK' /\ Others(w)
         /\ job'[w].pc = "unlock" /\ job'[w].sandbox = job[w].sandbox /\ job'[w].handle # None
<1>1. job[w] \in WorkerJobs /\ w \in Threads /\ w # Boot
  BY WorkerAt
<1>2. PICK h : h = [owner |-> m.owner, pair |-> Pair(S(w))]
  OBVIOUS
<1>3. h \in Handles /\ h # None
  BY SMT, <1>2, ManagerAssumption DEF Handles
<1>4. PICK x : x = [job[w] EXCEPT !.pc = "unlock", !.next = "begin_launch", !.handle = h]
  OBVIOUS
<1>5. x \in WorkerJobs /\ x.pc = "unlock" /\ x.sandbox = job[w].sandbox /\ x.handle = h
  BY <1>1, <1>3, <1>4 DEF WorkerJobs, HeldLabels
<1>6. job' = [job EXCEPT ![w] = x]
  <2>1. DOMAIN job = Threads
    BY DEF TypeInv, JobsOK
  <2> QED
    BY <1>1, <1>2, <1>4, <2>1 DEF Handed
<1>7. JobsOK' /\ Others(w) /\ job'[w] = x
  BY <1>1, <1>5, <1>6, OneJob
<1> QED
  BY <1>3, <1>5, <1>7

(* claim and delete note the durable record they found.                    *)
LEMMA NoteStep ==
  ASSUME Inv, NEW w \in Workers, job[w].pc \in HeldLabels, NEW s, s = S(w),
         inspect(s) \in {"Active", "Deleting"}, ledger' = note_valid_record(ledger, s, disk[s].metadata)
  PROVE  /\ LedgerKept(s)
         /\ Noted(ledger, s, disk[s].metadata) => ledger'.records[s] = disk[s].metadata
<1>1. TypeInv /\ s \in Sandboxes /\ SandboxInv(s)
  BY AtWork
<1>2. PICK m \in Metadata : m = disk[s].metadata /\ m # None
  BY <1>1, Inspected
<1>3. /\ disk[s].dir /\ ~disk[s].temp
      /\ m.state = "Active" => disk[s].workspace
  BY <1>1, <1>2, Inspected
<1>4. ~Conflicting(ledger, s, m)
  BY <1>1, <1>2 DEF SandboxInv, Conflicting
<1>5. \/ Records(ledger', s, m)
      \/ ledger' = ledger /\ ~Noted(ledger, s, m)
  BY <1>1, <1>2, <1>4, Notes
<1>6. CASE Records(ledger', s, m)
  BY <1>2, <1>3, <1>6 DEF Records, LedgerKept, RuntimeShrinks
<1>7. CASE ledger' = ledger /\ ~Noted(ledger, s, m)
  BY <1>1, <1>2, <1>7, SameLedger
<1> QED
  BY <1>5, <1>6, <1>7

(* A thread that leaves has nothing more to know.                          *)
LEMMA LeavesKept ==
  ASSUME TypeInv, NEW w \in Workers, job[w].pc # "idle", Leave(w, "idle")
  PROVE  JobKept(w) /\ Creating(w)' /\ Deleting(w)'
<1>1. /\ JobsOK' /\ Others(w)
      /\ job'[w].pc = "unlock" /\ job'[w].next = "idle" /\ job'[w].sandbox = job[w].sandbox
  BY Leaves
<1> QED
  BY <1>1, Rests DEF JobKept, HeldLabels, Unbusy

LEMMA HandsOverKept ==
  ASSUME TypeInv, NEW w \in Workers, job[w].pc # "idle", NEW m, m.owner \in Principals,
         Pair(S(w)) \in Pairs \union {None}, Handed(w, m)
  PROVE  JobKept(w) /\ Creating(w)' /\ Deleting(w)'
<1>1. /\ JobsOK' /\ Others(w)
      /\ job'[w].pc = "unlock" /\ job'[w].sandbox = job[w].sandbox /\ job'[w].handle # None
  BY HandsOver
<1> QED
  BY <1>1, Rests DEF JobKept, HeldLabels, Unbusy

LEMMA GoesKept ==
  ASSUME TypeInv, NEW w \in Workers, job[w].pc # "idle", NEW p \in HeldLabels, p # "unlock", Go(w, p)
  PROVE  JobKept(w) /\ Went(w, p) /\ S(w)' = S(w)
<1>1. JobsOK' /\ Others(w) /\ Went(w, p)
  BY Goes DEF WorkerLabels
<1> QED
  BY <1>1 DEF JobKept, Went, S

(* An absent sandbox runs nothing.                                         *)
LEMMA AbsentIsFree ==
  ASSUME Inv, NEW s \in Sandboxes, ~disk[s].dir
  PROVE  NoToken(s) /\ NoProcess(s) /\ disk[s] = Empty /\ disk[s].metadata = None
<1>1. NoToken(s) /\ NoProcess(s)
  BY DEF Inv, LaunchInv, Usable, NoToken, NoProcess
<1>2. disk[s] = Empty
  BY DEF Inv, SandboxInv
<1>3. Empty.metadata = None
  BY SMT DEF Empty
<1> QED
  BY <1>1, <1>2, <1>3

LEMMA GoesWithLease ==
  ASSUME TypeInv, NEW w \in Workers, job[w].pc # "idle", NEW p \in HeldLabels, p # "unlock",
         NEW x \in LeaseStates \union {None}, job' = [job EXCEPT ![w].pc = p, ![w].lease = x]
  PROVE  JobKept(w) /\ job'[w].pc = p /\ job'[w].lease = x /\ S(w)' = S(w)
<1>1. job[w] \in WorkerJobs /\ w \in Threads /\ w # Boot
  BY WorkerAt
<1>2. PICK y : y = [job[w] EXCEPT !.pc = p, !.lease = x]
  OBVIOUS
<1>3. y \in WorkerJobs /\ y.pc = p /\ y.lease = x /\ y.sandbox = job[w].sandbox
  BY <1>1, <1>2 DEF WorkerJobs
<1>4. DOMAIN job = Threads
  BY DEF TypeInv, JobsOK
<1>5. job' = [job EXCEPT ![w] = y]
  BY <1>1, <1>2, <1>4
<1>6. JobsOK' /\ Others(w) /\ job'[w] = y
  BY <1>1, <1>3, <1>5, OneJob
<1> QED
  BY <1>3, <1>6 DEF JobKept, S

LEMMA DeletesAt ==
  ASSUME Inv, NEW w \in Threads, NEW s, s = S(w), job[w].pc \in {"begin_release"} \union DestroyLabels
  PROVE  /\ job[w].pc \in HeldLabels /\ job[w].pc # "mark_rename" /\ job[w].pc # "idle"
         /\ TypeInv /\ s \in Sandboxes /\ SandboxInv(s)
         /\ Closed(s)
         /\ job[w].pc = "begin_release" /\ job[w].lease # None => lease[s] # None
         /\ job[w].pc \in DestroyLabels => NoToken(s)
         /\ job[w].pc \in RemoveLabels => NoProcess(s)
         /\ job[w].pc \in {"rmdir", "root_sync", "finish_release"} => disk[s].metadata = None
         /\ job[w].pc \in {"children", "unlink", "rmdir"} => disk[s].dir
<1>1. job[w].pc \in HeldLabels /\ job[w].pc # "mark_rename" /\ job[w].pc # "idle"
  BY DEF HeldLabels, WaitLabels, DestroyLabels, RemoveLabels
<1>2. TypeInv
  BY DEF Inv
<1>3. s \in Sandboxes
  BY <1>1, <1>2, WorkerAt, BootAt DEF Threads
<1>4. Deleting(w) /\ SandboxInv(s)
  BY <1>3 DEF Inv
<1>5. "begin_release" \in WaitLabels
  BY DEF WaitLabels
<1> QED
  BY <1>1, <1>2, <1>3, <1>4, <1>5 DEF Deleting

-----------------------------------------------------------------------------
(* Admission: the ledger's counters, the caps they enforce, and what the   *)
(* ledger and the directories say of each other.                           *)

(* A thread at work on a sandbox; one whose create is past the rename that *)
(* publishes; one between a change on disk and the ledger's note of it.    *)
BusyLabels    == CreateLabels \union MarkLabels \union WaitLabels \union DestroyLabels
LandingLabels == {"sync", "publish"}
MovingLabels  == {"sync", "publish", "mark_rename", "mark_sync",
                  "rmdir", "root_sync", "finish_release", "forget"}
NearLabels    == WaitLabels \union {"resources", "children", "unlink"}

Recorded    == {s \in Sandboxes : ledger.records[s] # None}
Claiming    == {w \in Workers : job[w].pc \in CreateLabels}
InFlight(o) == {w \in Claiming : job[w].who = o}
Landing(s)  == \E u \in Workers : job[u].pc \in LandingLabels /\ S(u) = s
Moving(s)   == \E u \in Threads : job[u].pc \in MovingLabels /\ S(u) = s
Steady      == {"mark", "tree", "lease"} \cap Faults = {}

(* The counters count the claims in flight and the records.                *)
CountInv ==
    /\ ledger.reserved = Cardinality(Claiming)
    /\ \A o \in Principals :
         ledger.owner_counts[o] = Cardinality(OwnedBy(o)) + Cardinality(InFlight(o))

(* What is recorded and what is claimed fit under the caps together.       *)
RoomInv ==
    /\ Cardinality(Recorded) + ledger.reserved <= MaxSandboxes
    /\ \A o \in Principals : ledger.owner_counts[o] <= MaxPerOwner

(* So does what a restart would find on disk.                              *)
PublishedFits ==
    /\ Cardinality(Published) <= MaxSandboxes
    /\ \A o \in Principals :
         Cardinality({s \in Published : disk[s].metadata.owner = o}) <= MaxPerOwner

(* A published directory is recorded or landing; a blocked one is corrupt  *)
(* and unrecorded; where no rewrite of metadata, removal of a tree or      *)
(* lease operation fails, a record is the directory's metadata unless a    *)
(* thread is moving the two.                                               *)
SafeAt(s) ==
    /\ s \in ledger.blocked => ledger.records[s] = None /\ inspect(s) = "Corrupt"
    /\ s \in Published => ledger.records[s] # None \/ Landing(s)
    /\ Steady => \/ s \in ledger.blocked \/ Moving(s)
                 \/ ledger.records[s] = IF s \in Published THEN disk[s].metadata ELSE None

(* What a thread at work relies on.                                        *)
SafeJob(w) ==
    /\ job[w].pc \in BusyLabels => S(w) \notin ledger.blocked
    /\ job[w].pc \in NearLabels => ledger.records[S(w)] # None \/ ~disk[S(w)].dir
    /\ job[w].pc = "forget" => disk[S(w)].metadata = None
    /\ job[w].pc = "mark_sync" => disk[S(w)].metadata.state = "Deleting" /\ ~disk[S(w)].temp

(* The invariant of admission, over the one of the lifecycle.              *)
AdmitInv ==
    /\ CountInv /\ RoomInv
    /\ stage = "scan" => PublishedFits
    /\ stage = "deleting" => \A s \in todo : /\ ledger.records[s] # None
                                             /\ job[Boot].pc # "idle" => S(Boot) # s
    /\ stage # "scan" => \A s \in Sandboxes : SafeAt(s)
    /\ \A w \in Threads : SafeJob(w)

(* A step that leaves the directories, the records and the counters alone. *)
Unmoved ==
    /\ disk' = disk /\ ledger'.records = ledger.records /\ ledger'.blocked = ledger.blocked
    /\ ledger'.owner_counts = ledger.owner_counts /\ ledger'.reserved = ledger.reserved

(* A step that moves the records of owner o by a, their claims by b, all   *)
(* claims by c and all records by d, and the counter of the owner by n.    *)
Recounted(o, a, b, c, d, n) ==
    /\ n = a + b
    /\ Cardinality(OwnedBy(o)') = Cardinality(OwnedBy(o)) + a
    /\ Cardinality(InFlight(o)') = Cardinality(InFlight(o)) + b
    /\ Cardinality(Claiming') = Cardinality(Claiming) + c
    /\ Cardinality(Recorded') = Cardinality(Recorded) + d
    /\ \A q : q # o => OwnedBy(q)' = OwnedBy(q) /\ InFlight(q)' = InFlight(q)
    /\ ledger'.reserved = ledger.reserved + c
    /\ ledger'.owner_counts[o] = ledger.owner_counts[o] + n
    /\ \A q \in Principals : q # o => ledger'.owner_counts[q] = ledger.owner_counts[q]
    /\ c + d <= 0 \/ Cardinality(Recorded) + ledger.reserved + c + d <= MaxSandboxes
    /\ n <= 0 \/ ledger.owner_counts[o] + n <= MaxPerOwner

(* What counting and choosing rest on: facts about sets, established at    *)
(* the end of SandboxManagerProofs.                                        *)
SetFacts ==
    /\ \A A, B : A \subseteq B /\ IsFiniteSet(B) => IsFiniteSet(A)
    /\ Cardinality({}) = 0
    /\ \A A : IsFiniteSet(A) => Cardinality(A) \in Nat
    /\ \A A, x : IsFiniteSet(A) /\ x \notin A => Cardinality(A \union {x}) = Cardinality(A) + 1
    /\ \A A, x : IsFiniteSet(A) /\ x \in A => Cardinality(A \ {x}) = Cardinality(A) - 1
    /\ \A P, A, B, f : IsFiniteSet(A) /\ IsFiniteSet(B) /\ P \subseteq A \union {f[b] : b \in B} =>
          Cardinality(P) <= Cardinality(A) + Cardinality(B)
    /\ \A T \in SUBSET Nat : T # {} => \E p \in T : \A q \in T : p <= q

LEMMA AdmitLabels ==
  /\ BusyLabels \subseteq HeldLabels /\ BusyLabels \cap Unbusy = {}
  /\ WaitLabels \subseteq BusyLabels /\ CreateLabels \subseteq BusyLabels /\ DestroyLabels \subseteq BusyLabels
  /\ MarkLabels \subseteq BusyLabels /\ NearLabels \subseteq BusyLabels
  /\ {"resources", "children", "unlink", "forget", "mark_sync"} \subseteq BusyLabels
  /\ LandingLabels \subseteq CreateLabels /\ MovingLabels \subseteq BusyLabels
  /\ "idle" \notin HeldLabels
BY SMT DEF BusyLabels, LandingLabels, MovingLabels, NearLabels, HeldLabels, Unbusy, LaunchLabels,
       CreateLabels, MarkLabels, WaitLabels, DestroyLabels, RemoveLabels

LEMMA ClaimsSame ==
  ASSUME \A v \in Workers : /\ job'[v].pc \in CreateLabels <=> job[v].pc \in CreateLabels
                            /\ job[v].pc \in CreateLabels => job'[v].who = job[v].who
  PROVE  Claiming' = Claiming /\ \A o : InFlight(o)' = InFlight(o)
<1>1. Claiming' = Claiming
  BY DEF Claiming
<1> QED
  BY <1>1 DEF InFlight, Claiming

LEMMA Countable ==
  ASSUME SetFacts
  PROVE  /\ IsFiniteSet(Recorded) /\ Cardinality(Recorded) \in Nat
         /\ IsFiniteSet(Claiming) /\ Cardinality(Claiming) \in Nat
         /\ IsFiniteSet(Published) /\ Cardinality(Published) \in Nat
         /\ \A o : /\ IsFiniteSet(OwnedBy(o)) /\ Cardinality(OwnedBy(o)) \in Nat
                   /\ IsFiniteSet(InFlight(o)) /\ Cardinality(InFlight(o)) \in Nat
<1>1. ASSUME NEW A, A \subseteq Sandboxes \/ A \subseteq Workers
      PROVE  IsFiniteSet(A) /\ Cardinality(A) \in Nat
  <2>1. IsFiniteSet(A)
    BY <1>1, ManagerAssumption DEF SetFacts
  <2> QED
    BY <2>1 DEF SetFacts
<1>2. /\ Recorded \subseteq Sandboxes /\ Claiming \subseteq Workers /\ Published \subseteq Sandboxes
      /\ \A o : OwnedBy(o) \subseteq Sandboxes /\ InFlight(o) \subseteq Workers
  BY DEF Recorded, Claiming, Published, OwnedBy, InFlight
<1> QED
  BY <1>1, <1>2

LEMMA Gains ==
  ASSUME SetFacts, NEW A, IsFiniteSet(A), NEW x, x \notin A, NEW B, B = A \union {x}
  PROVE  Cardinality(B) = Cardinality(A) + 1
BY DEF SetFacts

LEMMA Loses ==
  ASSUME SetFacts, NEW A, IsFiniteSet(A), NEW x, x \in A, NEW B, B = A \ {x}
  PROVE  Cardinality(B) = Cardinality(A) - 1
BY DEF SetFacts

(* Every step but a crash and the scan of a restart keeps the admission    *)
(* invariant.  One step of the proof per frame fact and per action.        *)
LEMMA RunAdmit ==
  ASSUME SetFacts, "sync" \notin Faults, Inv, Inv', AdmitInv, [Next]_vars, ~Scan, ~Crash
  PROVE  AdmitInv'
(* A thread that is not at work has nothing to keep.                       *)
<1>SafeAtRest.
      ASSUME NEW v, job'[v].pc \notin BusyLabels
      PROVE  SafeJob(v)'
  BY <1>SafeAtRest, AdmitLabels DEF SafeJob
(* What is true of a sandbox stays true while nobody touches it.           *)
<1>SafeAtFrame.
      ASSUME NEW t \in Sandboxes, SafeAt(t), disk'[t] = disk[t], ledger'.records[t] = ledger.records[t],
             t \in ledger'.blocked <=> t \in ledger.blocked,
             Landing(t) => Landing(t)', Moving(t) => Moving(t)' \/ ~Steady
      PROVE  SafeAt(t)'
  <2> USE <1>SafeAtFrame
  <2>1. inspect(t)' = inspect(t) /\ (t \in Published' <=> t \in Published)
    BY DEF inspect, Published
  <2> QED
    BY <2>1 DEF SafeAt, Steady
<1>SafeJobFrame.
      ASSUME NEW v \in Threads, NEW t, t = S(v), SafeJob(v), job'[v] = job[v], disk'[t] = disk[t],
             ledger'.records[t] = ledger.records[t], t \in ledger'.blocked <=> t \in ledger.blocked
      PROVE  SafeJob(v)'
  <2> USE <1>SafeJobFrame
  <2>1. S(v)' = t
    BY DEF S
  <2> QED
    BY <2>1 DEF SafeJob
(* A thread at work changes what is true of its own sandbox only.          *)
<1>AdmitStep.
      ASSUME Inv, AdmitInv, NEW w \in Threads, job[w].pc \in HeldLabels, NEW s \in Sandboxes, s = S(w),
             Others(w), stage' = stage, todo' = todo, w = Boot /\ job'[w].pc # "idle" => S(w)' = s,
             \A t \in Sandboxes \ {s} : /\ disk'[t] = disk[t] /\ ledger'.records[t] = ledger.records[t]
                                        /\ t \in ledger'.blocked <=> t \in ledger.blocked,
             CountInv', RoomInv', SafeAt(s)', SafeJob(w)'
      PROVE  AdmitInv'
  <2> USE <1>AdmitStep
  <2>1. stage # "scan" /\ (w # Boot => stage # "deleting") /\ (stage = "deleting" => todo \subseteq Sandboxes)
    <3>1. StageInv /\ TypeInv
      BY DEF Inv
    <3> QED
      BY <3>1, AdmitLabels DEF StageInv, Starting, Threads, TypeInv
  <2>2. ASSUME NEW t \in Sandboxes \ {s} PROVE SafeAt(t)'
    <3>1. Landing(t) => Landing(t)'
      BY DEF Landing, Others, Threads, S
    <3>2. Moving(t) => Moving(t)'
      BY DEF Moving, Others, S
    <3> QED
      BY <2>1, <3>1, <3>2, <1>SafeAtFrame DEF AdmitInv
  <2>3. ASSUME NEW v \in Threads \ {w} PROVE SafeJob(v)'
    <3>1. job'[v] = job[v] /\ SafeJob(v)
      BY DEF Others, AdmitInv
    <3>2. CASE job[v].pc \notin BusyLabels
      BY <3>1, <3>2, <1>SafeAtRest
    <3>3. CASE job[v].pc \in BusyLabels
      <4>1. S(v) # s /\ S(v) \in Sandboxes
        BY <3>3, Exclusive, AdmitLabels, WorkerAt, BootAt DEF Inv, Threads
      <4> QED
        BY <3>1, <4>1, <1>SafeJobFrame
    <3> QED
      BY <3>2, <3>3
  <2>4. ASSUME stage' = "deleting", NEW t \in todo'
        PROVE  ledger'.records[t] # None /\ (job'[Boot].pc # "idle" => S(Boot)' # t)
    <3>1. w = Boot /\ t \in todo /\ t # s /\ t \in Sandboxes
      BY <2>1, <2>4, AdmitLabels DEF AdmitInv
    <3> QED
      BY <2>1, <2>4, <3>1 DEF AdmitInv
  <2> QED
    BY <2>1, <2>2, <2>3, <2>4 DEF AdmitInv
(* The counters.                                                           *)
<1>CountSame.
      ASSUME CountInv, RoomInv,
             ledger'.owner_counts = ledger.owner_counts, ledger'.reserved = ledger.reserved,
             \A t \in Sandboxes :
                \/ ledger'.records[t] = ledger.records[t]
                \/ /\ ledger.records[t] # None /\ ledger'.records[t] # None
                   /\ ledger'.records[t].owner = ledger.records[t].owner,
             \A v \in Workers : /\ job'[v].pc \in CreateLabels <=> job[v].pc \in CreateLabels
                                /\ job[v].pc \in CreateLabels => job'[v].who = job[v].who
      PROVE  CountInv' /\ RoomInv'
  <2> USE <1>CountSame
  <2>1. Recorded' = Recorded
    BY DEF Recorded
  <2>2. Claiming' = Claiming
    BY DEF Claiming
  <2>3. ASSUME NEW o PROVE OwnedBy(o)' = OwnedBy(o)
    BY DEF OwnedBy
  <2>4. ASSUME NEW o PROVE InFlight(o)' = InFlight(o)
    BY <2>2 DEF InFlight, Claiming
  <2> QED
    BY <2>1, <2>2, <2>3, <2>4 DEF CountInv, RoomInv
<1>OnlyRuntime.
      ASSUME TypeInv, disk' = disk, NEW r, ledger' = [ledger EXCEPT !.runtime = r]
      PROVE  Unmoved
  BY SMTT(30), <1>OnlyRuntime, LedgerAt DEF Unmoved
<1>StillStep.
      ASSUME Inv, AdmitInv, NEW w \in Threads, job[w].pc \in HeldLabels, NEW s \in Sandboxes, s = S(w),
             Others(w), stage' = stage, todo' = todo, Unmoved,
             job'[w].pc \in BusyLabels => S(w)' = s,
             w \in Workers => /\ job'[w].pc \in CreateLabels <=> job[w].pc \in CreateLabels
                              /\ job[w].pc \in CreateLabels => job'[w].who = job[w].who,
             w = Boot /\ job'[w].pc # "idle" => S(w)' = s,
             job[w].pc \in LandingLabels => job'[w].pc \in LandingLabels,
             Steady /\ job[w].pc \in MovingLabels => job'[w].pc \in MovingLabels,
             SafeJob(w)'
      PROVE  AdmitInv'
  <2> USE <1>StillStep
  <2>1. stage # "scan" /\ SafeAt(s)
    <3>1. StageInv
      BY DEF Inv
    <3>2. stage # "scan"
      BY <3>1, AdmitLabels DEF StageInv, Starting, Threads
    <3> QED
      BY <3>2 DEF AdmitInv
  <2>2. CountInv' /\ RoomInv'
    <3>1. CountInv /\ RoomInv
      BY DEF AdmitInv
    <3>2. \A v \in Workers : /\ job'[v].pc \in CreateLabels <=> job[v].pc \in CreateLabels
                             /\ job[v].pc \in CreateLabels => job'[v].who = job[v].who
      BY DEF Others, Threads
    <3> QED
      BY <3>1, <3>2, <1>CountSame DEF Unmoved
  <2>3. SafeAt(s)'
    <3>1. Landing(s) => Landing(s)'
      BY AdmitLabels DEF Landing, Others, Threads, S
    <3>2. Moving(s) => Moving(s)' \/ ~Steady
      BY AdmitLabels DEF Moving, Others, S
    <3> QED
      BY <2>1, <3>1, <3>2, <1>SafeAtFrame DEF Unmoved
  <2> QED
    BY <2>2, <2>3, <1>AdmitStep DEF Unmoved
(* Threads that move between labels where nothing is kept.                 *)
<1>RestStep.
      ASSUME AdmitInv, Unmoved,
             \A v \in Threads : \/ job'[v] = job[v]
                                \/ job[v].pc \in Unbusy /\ job'[v].pc \in Unbusy,
             stage' = "scan" <=> stage = "scan",
             stage' = "deleting" => \A t \in todo' : /\ ledger.records[t] # None
                                                     /\ job'[Boot].pc # "idle" => S(Boot)' # t
      PROVE  AdmitInv'
  <2> USE <1>RestStep
  <2>1. CountInv' /\ RoomInv'
    <3>1. CountInv /\ RoomInv
      BY DEF AdmitInv
    <3>2. \A v \in Workers : /\ job'[v].pc \in CreateLabels <=> job[v].pc \in CreateLabels
                             /\ job[v].pc \in CreateLabels => job'[v].who = job[v].who
      BY AdmitLabels DEF Threads
    <3> QED
      BY <3>1, <3>2, <1>CountSame DEF Unmoved
  <2>2. ASSUME stage' # "scan", NEW t \in Sandboxes PROVE SafeAt(t)'
    <3>1. Landing(t) => Landing(t)'
      BY AdmitLabels DEF Landing, Threads, S
    <3>2. Moving(t) => Moving(t)'
      BY AdmitLabels DEF Moving, S
    <3> QED
      BY <2>2, <3>1, <3>2, <1>SafeAtFrame DEF AdmitInv, Unmoved
  <2>3. ASSUME NEW v \in Threads PROVE SafeJob(v)'
    <3>1. CASE job'[v] = job[v]
      BY <3>1, <1>SafeJobFrame DEF AdmitInv, Unmoved
    <3>2. CASE job'[v].pc \in Unbusy
      BY <3>2, <1>SafeAtRest, AdmitLabels
    <3> QED
      BY <3>1, <3>2
  <2>4. stage' = "scan" => PublishedFits'
    BY DEF AdmitInv, PublishedFits, Published, inspect, Unmoved
  <2> QED
    BY <2>1, <2>2, <2>3, <2>4 DEF AdmitInv, Unmoved
(* Requests before and after their work, and launches.                     *)
<1>WorkerRests.
      ASSUME Inv, AdmitInv, NEW w \in Workers, Unmoved, stage' = stage, todo' = todo, Others(w),
             job[w].pc \in Unbusy, job'[w].pc \in Unbusy
      PROVE  AdmitInv'
  <2> USE <1>WorkerRests
  <2>1. Boot \in Threads \ {w}
    BY ManagerAssumption DEF Threads
  <2>2. job'[Boot] = job[Boot] /\ S(Boot)' = S(Boot)
    BY <2>1 DEF Others, S
  <2>3. \A v \in Threads : \/ job'[v] = job[v]
                           \/ job[v].pc \in Unbusy /\ job'[v].pc \in Unbusy
    BY DEF Others
  <2> QED
    BY <2>2, <2>3, <1>RestStep DEF AdmitInv
<1>SameUnmoved.
      ASSUME disk' = disk, ledger' = ledger
      PROVE  Unmoved
  BY <1>SameUnmoved DEF Unmoved
<1>OneEntry.
      ASSUME TypeInv, disk' = disk, NEW v \in Workers, NEW x, ledger' = [ledger EXCEPT !.runtime[v] = x]
      PROVE  Unmoved
  <2> USE <1>OneEntry
  <2>1. ledger' = [ledger EXCEPT !.runtime = [ledger.runtime EXCEPT ![v] = x]]
    BY SMT, LedgerAt
  <2> QED
    BY <2>1, <1>OnlyRuntime
<1>ClearUnmoved.
      ASSUME TypeInv, disk' = disk, NEW w \in Workers, clear_runtime(w)
      PROVE  Unmoved
  BY <1>ClearUnmoved, <1>OneEntry, <1>SameUnmoved DEF clear_runtime
<1>RequestAdmit.
      ASSUME Inv, AdmitInv, NEW w \in Workers, Begin(w) \/ Lock(w) \/ Unlock(w)
      PROVE  AdmitInv'
  <2> USE <1>RequestAdmit
  <2>1. Unmoved /\ stage' = stage /\ todo' = todo
    BY <1>SameUnmoved DEF Begin, Lock, Unlock, stages
  <2>2. TypeInv /\ w \in Threads /\ w # Boot /\ DOMAIN job = Threads
    BY ManagerAssumption DEF Inv, Threads, TypeInv, JobsOK
  <2>3. job[w].pc \in Unbusy
    BY DEF Begin, Lock, Unlock, At, Unbusy
  <2>4. CASE Begin(w)
    <3>1. PICK op \in Ops \ {"shutdown"}, o \in Principals, s \in Sandboxes :
             job' = [job EXCEPT ![w] = [pc |-> "lock", op |-> op, who |-> o, sandbox |-> s,
                                        next |-> "idle", lease |-> None, handle |-> None]]
      BY <2>4 DEF Begin
    <3>2. PICK x : x = [pc |-> "lock", op |-> op, who |-> o, sandbox |-> s,
                        next |-> "idle", lease |-> None, handle |-> None]
      OBVIOUS
    <3>3. x.pc = "lock"
      BY SMT, <3>2
    <3>4. Others(w) /\ job'[w] = x
      BY <2>2, <3>1, <3>2 DEF Others
    <3> QED
      BY <2>1, <2>3, <3>3, <3>4, <1>WorkerRests DEF Unbusy
  <2>5. CASE Lock(w)
    <3>1. PICK p : p = IF job[w].op = "launch" THEN "claim" ELSE "delete"
      OBVIOUS
    <3>2. p \in Unbusy /\ p \in WorkerLabels /\ Go(w, p) /\ job[w].pc # "idle"
      BY SMTT(30), <2>5, <3>1 DEF Lock, At, Unbusy, WorkerLabels, HeldLabels
    <3>3. Others(w) /\ Went(w, p)
      BY <2>2, <3>2, Goes
    <3> QED
      BY <2>1, <2>3, <3>2, <3>3, <1>WorkerRests DEF Went
  <2>6. CASE Unlock(w)
    <3>1. job[w].pc # "idle"
      BY SMTT(30), <2>6 DEF Unlock, At
    <3>2. job[w].next \in {"idle", "begin_launch"}
      BY SMTT(30), <2>2, <3>1, WorkerAt DEF WorkerJobs
    <3>3. CASE job[w].next = "idle"
      <4>1. Others(w) /\ job'[w].pc = "idle"
        BY <2>2, <2>6, <3>3, Stops DEF Unlock
      <4> QED
        BY <2>1, <2>3, <4>1, <1>WorkerRests DEF Unbusy
    <3>4. CASE job[w].next = "begin_launch"
      <4>1. job[w].next # "idle"
        BY SMTT(30), <3>4
      <4>2. Go(w, "begin_launch") /\ "begin_launch" \in WorkerLabels
        BY <2>6, <3>4, <4>1 DEF Unlock, Go, WorkerLabels, LaunchLabels
      <4>3. Others(w) /\ Went(w, "begin_launch")
        BY <2>2, <3>1, <4>2, Goes
      <4> QED
        BY <2>1, <2>3, <4>3, <1>WorkerRests DEF Went, Unbusy, LaunchLabels
    <3> QED
      BY <3>2, <3>3, <3>4
  <2> QED
    BY <2>4, <2>5, <2>6
<1>LaunchAdmit.
      ASSUME Inv, AdmitInv, NEW w \in Workers,
             \/ begin_launch(w) \/ Spawn(w) \/ finish_launch(w) \/ Terminate(w)
             \/ Unpublished(w) \/ EndChannel(w)
      PROVE  AdmitInv'
  <2> USE <1>LaunchAdmit
  <2>1. TypeInv /\ w \in Threads /\ w # Boot
    BY ManagerAssumption DEF Inv, Threads
  <2>2. disk' = disk /\ stage' = stage /\ todo' = todo
    BY DEF begin_launch, Spawn, finish_launch, Terminate, Unpublished, EndChannel, stages
  <2>3. job[w].pc \in LaunchLabels /\ job[w].pc # "idle" /\ job[w].pc \in Unbusy
    BY SMT DEF begin_launch, Spawn, finish_launch, Terminate, Unpublished, EndChannel, At, LaunchLabels, Unbusy
  <2>4. \/ Return(w)
        \/ \E p \in {"spawn", "finish_launch", "running", "terminate"} : Go(w, p)
    BY DEF begin_launch, Spawn, finish_launch, Terminate, Unpublished, EndChannel
  <2>5. Others(w) /\ job'[w].pc \in Unbusy
    <3>1. CASE Return(w)
      BY <2>1, <3>1, Stops DEF Return, Unbusy
    <3>2. ASSUME NEW p \in {"spawn", "finish_launch", "running", "terminate"}, Go(w, p)
          PROVE  Others(w) /\ job'[w].pc \in Unbusy
      <4>1. p \in WorkerLabels /\ p \in Unbusy
        BY DEF WorkerLabels, Unbusy, LaunchLabels
      <4> QED
        BY <2>1, <2>3, <3>2, <4>1, Goes DEF Went
    <3> QED
      BY <2>4, <3>1, <3>2
  <2>6. Unmoved
    <3>1. CASE begin_launch(w)
      BY <2>1, <2>2, <3>1, <1>OneEntry, <1>SameUnmoved DEF begin_launch
    <3>2. CASE finish_launch(w)
      <4>1. CASE Commits(w)
        <5>1. PICK x : x = [ledger.runtime[w] EXCEPT !.marker = "Running"]
          OBVIOUS
        <5>2. ledger' = [ledger EXCEPT !.runtime[w] = x]
          BY SMTT(30), <3>2, <4>1, <5>1 DEF finish_launch
        <5> QED
          BY <2>1, <2>2, <5>2, <1>OneEntry
      <4> QED
        BY <2>2, <3>2, <4>1, <1>SameUnmoved DEF finish_launch
    <3>3. CASE Spawn(w) \/ Terminate(w) \/ Unpublished(w) \/ EndChannel(w)
      BY <2>1, <2>2, <3>3, <1>ClearUnmoved, <1>SameUnmoved DEF Spawn, Terminate, Unpublished, EndChannel
    <3> QED
      BY <3>1, <3>2, <3>3
  <2> QED
    BY <2>2, <2>3, <2>5, <2>6, <1>WorkerRests
(* Steps of the daemon as a whole, and exits.                              *)
<1>DaemonAdmit.
      ASSUME AdmitInv, Unmoved, job' = job, stage' = "scan" <=> stage = "scan",
             stage' = "deleting" => stage = "deleting" /\ todo' = todo
      PROVE  AdmitInv'
  <2> USE <1>DaemonAdmit
  <2>1. S(Boot)' = S(Boot)
    BY DEF S
  <2> QED
    BY <2>1, <1>RestStep DEF AdmitInv
<1>CancelUnmoved.
      ASSUME TypeInv, disk' = disk, CancelAll
      PROVE  Unmoved
  BY <1>CancelUnmoved, <1>OnlyRuntime DEF CancelAll
<1>ShutdownAdmit.
      ASSUME Inv, AdmitInv, Freeze \/ Snapshot \/ Stop \/ ForceShutdown
      PROVE  AdmitInv'
  <2> USE <1>ShutdownAdmit
  <2>1. TypeInv /\ job' = job /\ disk' = disk
    BY DEF Inv, Freeze, Snapshot, Stop, ForceShutdown
  <2>2. /\ stage \in Serving /\ stage' \in {"frozen", "stopping", "stopped", "dirty"}
    BY DEF Freeze, Snapshot, Stop, ForceShutdown, Serving
  <2>3. stage # "scan" /\ stage' # "scan" /\ stage' # "deleting"
    BY SMTT(30), <2>2 DEF Serving
  <2>4. Unmoved
    <3>1. CASE Freeze
      BY <2>1, <3>1, <1>SameUnmoved DEF Freeze
    <3>2. CASE Snapshot \/ ForceShutdown
      BY <2>1, <3>2, <1>CancelUnmoved DEF Snapshot, ForceShutdown
    <3>3. CASE Stop
      <4>1. ASSUME NEW w \in todo, ledger' = [ledger EXCEPT !.runtime[w] = None] PROVE Unmoved
        <5>1. ledger' = [ledger EXCEPT !.runtime = [ledger.runtime EXCEPT ![w] = None]]
          BY SMTT(30), <2>1, <4>1, LedgerAt
        <5> QED
          BY <2>1, <5>1, <1>OnlyRuntime
      <4> QED
        BY <2>1, <3>3, <4>1, <1>SameUnmoved DEF Stop
    <3> QED
      BY <3>1, <3>2, <3>3
  <2> QED
    BY <2>1, <2>3, <2>4, <1>DaemonAdmit
<1>ExitAdmit.
      ASSUME AdmitInv, (\E w \in Workers : Exit(w)) \/ UNCHANGED vars
      PROVE  AdmitInv'
  <2> USE <1>ExitAdmit
  <2>1. job' = job /\ disk' = disk /\ ledger' = ledger /\ stage' = stage /\ todo' = todo
    BY DEF Exit, vars, stages
  <2> QED
    BY <2>1, <1>SameUnmoved, <1>DaemonAdmit
<1>RecoverAdmit.
      ASSUME Inv, AdmitInv, Sweep \/ ReconcileLease
      PROVE  AdmitInv'
  <2> USE <1>RecoverAdmit
  <2>1. Unmoved /\ job' = job
    BY <1>SameUnmoved DEF Sweep, ReconcileLease
  <2>2. CASE Sweep
    <3>1. stage = "sweep" /\ stage' \in {"leases", "failed"}
      BY <2>2 DEF Sweep
    <3>2. stage # "scan" /\ stage' # "scan" /\ stage' # "deleting"
      BY SMTT(30), <3>1
    <3> QED
      BY <2>1, <3>2, <1>DaemonAdmit
  <2>3. CASE ReconcileLease
    <3>1. /\ stage = "leases"
          /\ stage' = stage \/ stage' = "failed" \/ (stage' = "deleting" /\ todo' = Unfinished)
      BY <2>3 DEF ReconcileLease
    <3>2. stage # "scan" /\ stage' # "scan" /\ (stage' = "deleting" => todo' = Unfinished) /\ stage # "deleting"
      BY SMTT(30), <3>1
    <3>3. job[Boot].pc = "idle"
      BY <3>2 DEF Inv, StageInv
    <3>4. \A t \in Unfinished : ledger.records[t] # None
      BY DEF Unfinished
    <3> QED
      BY <2>1, <3>2, <3>3, <3>4, <1>RestStep
  <2> QED
    BY <2>2, <2>3
(* Startup resumes a deletion.                                             *)
<1>ReconcileDeletingAdmit.
      ASSUME Inv, AdmitInv, reconcile_deleting
      PROVE  AdmitInv'
  <2> USE <1>ReconcileDeletingAdmit
  <2>1. /\ Unmoved /\ stage = "deleting" /\ job[Boot].pc = "idle" /\ TypeInv /\ todo \subseteq Sandboxes
        /\ stage # "scan"
    <3>1. stage = "deleting" /\ job[Boot].pc = "idle" /\ TypeInv
      BY DEF reconcile_deleting, At, Inv
    <3> QED
      BY <3>1, <1>SameUnmoved DEF reconcile_deleting, TypeInv
  <2>2. CASE job' = job
    <3>1. \/ stage' = stage /\ todo' \subseteq todo
          \/ stage' = "ready"
      BY <2>2 DEF reconcile_deleting
    <3>2. stage' # "scan" /\ (stage' = "deleting" => todo' \subseteq todo)
      BY SMTT(30), <2>1, <3>1
    <3> QED
      BY <2>1, <2>2, <3>2, <1>RestStep DEF AdmitInv
  <2>3. ASSUME NEW s \in todo, todo' = todo \ {s}, stage' = stage,
               job' = [job EXCEPT ![Boot] = [pc |-> "begin_release", sandbox |-> s,
                          lease |-> IF Isolated THEN lease[s].state ELSE None]]
        PROVE  AdmitInv'
    <3>1. PICK x : x = [pc |-> "begin_release", sandbox |-> s,
                        lease |-> IF Isolated THEN lease[s].state ELSE None]
      OBVIOUS
    <3>2. x.pc = "begin_release" /\ x.sandbox = s /\ s \in Sandboxes
      BY SMTT(30), <2>1, <3>1
    <3>3. DOMAIN job = Threads /\ Boot \in Threads /\ Boot \notin Workers
      BY <2>1, ManagerAssumption DEF TypeInv, JobsOK, Threads
    <3>4. job'[Boot] = x /\ Others(Boot)
      BY <2>3, <3>1, <3>3 DEF Others
    <3>5. \A v \in Workers : job'[v] = job[v]
      BY <3>3, <3>4 DEF Others, Threads
    <3>6. CountInv' /\ RoomInv'
      BY <2>1, <3>5, <1>CountSame DEF AdmitInv, Unmoved
    <3>7. ASSUME NEW t \in Sandboxes PROVE SafeAt(t)'
      <4>1. Landing(t) => Landing(t)'
        BY <3>5 DEF Landing, S
      <4>2. Moving(t) => Moving(t)'
        BY <2>1, <3>4, AdmitLabels DEF Moving, S, Others
      <4> QED
        BY <2>1, <4>1, <4>2, <1>SafeAtFrame DEF AdmitInv, Unmoved
    <3>8. ledger.records[s] # None /\ SafeAt(s)
      BY <2>1, <3>2 DEF AdmitInv
    <3>9. SafeJob(Boot)'
      <4>1. job'[Boot].pc = "begin_release" /\ S(Boot)' = s
        BY <3>2, <3>4 DEF S
      <4>2. s \notin ledger'.blocked /\ ledger'.records[s] # None
        BY <2>1, <3>8 DEF SafeAt, Unmoved
      <4>3. job'[Boot].pc # "forget" /\ job'[Boot].pc # "mark_sync"
        BY SMT, <4>1
      <4> QED
        BY <4>1, <4>2, <4>3 DEF SafeJob
    <3>10. ASSUME NEW v \in Threads \ {Boot} PROVE SafeJob(v)'
      BY <2>1, <3>4, <1>SafeJobFrame DEF AdmitInv, Unmoved, Others
    <3>11. \A t \in todo' : ledger'.records[t] # None /\ S(Boot)' # t
      BY <2>1, <2>3, <3>2, <3>4 DEF AdmitInv, Unmoved, S
    <3> QED
      BY <2>1, <2>3, <3>6, <3>7, <3>9, <3>10, <3>11 DEF AdmitInv
  <2> QED
    BY <2>2, <2>3 DEF reconcile_deleting
<1>GoesBusy.
      ASSUME Inv, NEW w \in Threads, job[w].pc \in HeldLabels, NEW p \in BusyLabels, Go(w, p),
             w = Boot => p \in BootLabels
      PROVE  /\ Others(w) /\ job'[w].pc = p /\ S(w)' = S(w)
             /\ w \in Workers => job'[w].who = job[w].who
  <2> USE <1>GoesBusy
  <2>1. TypeInv /\ job[w].pc # "idle" /\ p \in WorkerLabels
    BY AdmitLabels DEF Inv, WorkerLabels
  <2>2. CASE w \in Workers
    <3>1. Others(w) /\ Went(w, p) /\ w # Boot
      BY <2>1, <2>2, Goes, ManagerAssumption
    <3> QED
      BY <3>1 DEF Went, S
  <2>3. CASE w = Boot
    <3>1. Others(w) /\ Went(w, p) /\ w \notin Workers
      BY <2>1, <2>3, BootGoes, ManagerAssumption
    <3> QED
      BY <3>1 DEF Went, S
  <2> QED
    BY <2>2, <2>3 DEF Threads
<1>GoesOut.
      ASSUME Inv, NEW w \in Threads, job[w].pc \in HeldLabels,
             GiveUp(w) \/ (w \in Workers /\ Leave(w, "idle"))
      PROVE  /\ Others(w) /\ job'[w].pc \notin BusyLabels /\ SafeJob(w)' /\ job'[w].pc \notin CreateLabels
             /\ w = Boot => job'[w].pc = "idle"
  <2> USE <1>GoesOut
  <2>1. TypeInv /\ job[w].pc # "idle" /\ Boot \notin Workers
    BY AdmitLabels, ManagerAssumption DEF Inv
  <2>2. {"unlock", "idle"} \subseteq Unbusy
    BY DEF Unbusy
  <2>3. CASE w = Boot
    <3>1. Others(w) /\ job'[w].pc = "idle"
      BY <2>1, <2>3, Stops DEF GiveUp
    <3> QED
      BY <2>2, <3>1, AdmitLabels, <1>SafeAtRest
  <2>4. CASE w # Boot
    <3>1. w \in Workers /\ Leave(w, "idle")
      BY <2>4 DEF GiveUp, Threads
    <3>2. Others(w) /\ job'[w].pc = "unlock"
      BY <2>1, <3>1, Leaves
    <3> QED
      BY <2>2, <2>4, <3>2, AdmitLabels, <1>SafeAtRest
  <2> QED
    BY <2>3, <2>4
<1>SafeNow.
      ASSUME NEW w, NEW s, S(w)' = s, s \notin ledger'.blocked, job'[w].pc # "mark_sync",
             job'[w].pc \in NearLabels => ledger'.records[s] # None \/ ~disk'[s].dir,
             job'[w].pc = "forget" => disk'[s].metadata = None
      PROVE  SafeJob(w)'
  BY <1>SafeNow DEF SafeJob, NearLabels
<1>StillGo.
      ASSUME Inv, AdmitInv, NEW w \in Threads, job[w].pc \in HeldLabels, NEW s \in Sandboxes, s = S(w),
             Unmoved, stage' = stage, todo' = todo,
             NEW p \in BusyLabels, Go(w, p), w = Boot => p \in BootLabels,
             p \in CreateLabels <=> job[w].pc \in CreateLabels,
             job[w].pc \in LandingLabels => p \in LandingLabels,
             job[w].pc \in MovingLabels => p \in MovingLabels,
             s \notin ledger.blocked, p # "mark_sync",
             p \in NearLabels => ledger.records[s] # None \/ ~disk[s].dir,
             p = "forget" => disk[s].metadata = None
      PROVE  AdmitInv'
  <2> USE <1>StillGo
  <2>1. /\ Others(w) /\ job'[w].pc = p /\ S(w)' = s
        /\ w \in Workers => job'[w].who = job[w].who
    BY <1>GoesBusy
  <2>2. SafeJob(w)'
    BY <2>1, <1>SafeNow DEF Unmoved
  <2> QED
    BY <2>1, <2>2, <1>StillStep
<1>StillOut.
      ASSUME Inv, AdmitInv, NEW w \in Threads, job[w].pc \in HeldLabels, NEW s \in Sandboxes, s = S(w),
             Unmoved, stage' = stage, todo' = todo, GiveUp(w) \/ (w \in Workers /\ Leave(w, "idle")),
             job[w].pc \notin CreateLabels, job[w].pc \in MovingLabels => ~Steady
      PROVE  AdmitInv'
  <2> USE <1>StillOut
  <2>1. /\ Others(w) /\ job'[w].pc \notin BusyLabels /\ SafeJob(w)' /\ job'[w].pc \notin CreateLabels
        /\ w = Boot => job'[w].pc = "idle"
    BY <1>GoesOut
  <2> QED
    BY <2>1, <1>StillStep, AdmitLabels
<1>AtWorkSafe.
      ASSUME Inv, AdmitInv, NEW w \in Threads, job[w].pc \in BusyLabels
      PROVE  /\ job[w].pc \in HeldLabels /\ job[w].pc # "idle" /\ TypeInv /\ stage # "scan"
             /\ S(w) \in Sandboxes /\ S(w) \notin ledger.blocked
             /\ SandboxInv(S(w)) /\ SafeAt(S(w)) /\ SafeJob(w)
             /\ job[w].pc \in NearLabels => ledger.records[S(w)] # None \/ ~disk[S(w)].dir
  <2> USE <1>AtWorkSafe
  <2>1. job[w].pc \in HeldLabels /\ job[w].pc # "idle" /\ TypeInv /\ StageInv
    BY AdmitLabels DEF Inv
  <2>2. S(w) \in Sandboxes
    BY <2>1, WorkerAt, BootAt DEF Threads
  <2>3. stage # "scan"
    BY <2>1 DEF StageInv, Starting, Threads
  <2> QED
    BY <2>1, <2>2, <2>3 DEF AdmitInv, SafeJob, NearLabels, Inv
<1>DeleteLabels.
      /\ NearLabels = {"begin_release", "cancel", "wait", "resources", "children", "unlink"}
      /\ NearLabels \subseteq BusyLabels /\ NearLabels \cap CreateLabels = {}
      /\ NearLabels \cap MovingLabels = {} /\ MovingLabels \cap NearLabels = {}
      /\ {"root_sync", "finish_release", "forget"} \cap CreateLabels = {}
      /\ {"root_sync", "finish_release", "forget"} \cap LandingLabels = {}
      /\ NearLabels \cap LandingLabels = {}
      /\ {"root_sync", "finish_release", "forget"} \subseteq BusyLabels
      /\ {"root_sync", "finish_release", "forget"} \subseteq MovingLabels
      /\ {"resources", "children", "root_sync", "finish_release", "forget"} \subseteq BootLabels
      /\ {"cancel", "wait", "resources", "children", "finish_release", "forget"} \cap {"mark_sync"} = {}
      /\ "forget" \notin NearLabels /\ "finish_release" \notin NearLabels
  BY SMT DEF BusyLabels, LandingLabels, MovingLabels, NearLabels, BootLabels,
         CreateLabels, MarkLabels, WaitLabels, DestroyLabels, RemoveLabels
(* A claim on its way.                                                     *)
<1>ClaimAdmit.
      ASSUME "sync" \notin Faults, Inv, AdmitInv, NEW w \in Workers, CreateSync(w) \/ Abort(w) \/ AbortFree(w)
      PROVE  AdmitInv'
  <2> USE <1>ClaimAdmit
  <2>1. Unmoved /\ stage' = stage /\ todo' = todo
    BY <1>SameUnmoved DEF CreateSync, Abort, AbortFree, stages
  <2>2. PICK p \in {"publish", "abort_free", "unreserve"} :
          /\ Go(w, p)
          /\ \/ job[w].pc = "sync" /\ p = "publish"
             \/ job[w].pc \in {"abort", "abort_free"}
    BY DEF CreateSync, Abort, AbortFree, Fails, At
  <2>3. /\ p \in BusyLabels /\ p \in CreateLabels /\ p # "mark_sync" /\ p # "forget" /\ p \notin NearLabels
        /\ job[w].pc \in CreateLabels /\ job[w].pc \in BusyLabels
        /\ job[w].pc \in LandingLabels => p \in LandingLabels
        /\ job[w].pc \in MovingLabels => p \in MovingLabels
    BY SMTT(30), <2>2 DEF BusyLabels, LandingLabels, MovingLabels, NearLabels, CreateLabels, WaitLabels
  <2>4. w \in Threads /\ w # Boot
    BY ManagerAssumption DEF Threads
  <2> QED
    BY <2>1, <2>2, <2>3, <2>4, <1>AtWorkSafe, <1>StillGo
(* A deletion on its way.                                                  *)
<1>WaitAdmit.
      ASSUME Inv, AdmitInv, NEW w \in Workers, Cancel(w) \/ Wait(w)
      PROVE  AdmitInv'
  <2> USE <1>WaitAdmit
  <2>1. job[w].pc \in {"cancel", "wait"} /\ disk' = disk /\ stage' = stage /\ todo' = todo
    BY DEF Cancel, Wait, At, stages
  <2>2. job[w].pc \in NearLabels /\ w \in Threads /\ w # Boot
    BY <2>1, <1>DeleteLabels, ManagerAssumption DEF Threads
  <2>3. PICK s \in Sandboxes : s = S(w)
    BY <2>2, <1>AtWorkSafe, <1>DeleteLabels
  <2>4. /\ job[w].pc \in HeldLabels /\ TypeInv /\ s \notin ledger.blocked
        /\ ledger.records[s] # None \/ ~disk[s].dir
        /\ job[w].pc \notin CreateLabels /\ job[w].pc \notin MovingLabels /\ job[w].pc \notin LandingLabels
    BY <2>2, <2>3, <1>AtWorkSafe, <1>DeleteLabels
  <2>5. ASSUME NEW v \in Workers, job' = job, ledger' = [ledger EXCEPT !.runtime[v] = None]
        PROVE  AdmitInv'
    <3>1. Unmoved
      BY <2>1, <2>4, <2>5, <1>OneEntry
    <3> QED
      BY <2>1, <2>5, <3>1, <1>DaemonAdmit
  <2>6. CASE Unmoved /\ Leave(w, "idle")
    BY <2>1, <2>2, <2>3, <2>4, <2>6, <1>StillOut
  <2>7. CASE Unmoved /\ \E p \in {"wait", "resources"} : Go(w, p)
    <3>1. PICK p \in {"wait", "resources"} : Go(w, p)
      BY <2>7
    <3>2. /\ p \in NearLabels /\ p \in BusyLabels /\ p \notin CreateLabels
          /\ p # "mark_sync" /\ p # "forget"
      BY <1>DeleteLabels, <3>1
    <3> QED
      BY <2>1, <2>2, <2>3, <2>4, <2>7, <3>1, <3>2, <1>StillGo
  <2>8. CASE Cancel(w)
    <3>1. Unmoved /\ Go(w, "wait")
      BY <2>1, <2>4, <2>8, <1>OnlyRuntime DEF Cancel
    <3> QED
      BY <2>7, <3>1
  <2>9. CASE Wait(w)
    <3>1. CASE ledger' = ledger /\ (Leave(w, "idle") \/ Go(w, "resources"))
      BY <2>1, <2>6, <2>7, <3>1, <1>SameUnmoved
    <3> QED
      BY <2>5, <2>9, <3>1 DEF Wait, Running, TokensOf
  <2> QED
    BY <2>8, <2>9
<1>ReleaseAdmit.
      ASSUME Inv, AdmitInv, NEW w \in Threads,
             BeginRelease(w) \/ Resources(w) \/ RootSync(w) \/ FinishRelease(w)
      PROVE  AdmitInv'
  <2> USE <1>ReleaseAdmit
  <2>1. /\ job[w].pc \in {"begin_release", "resources", "root_sync", "finish_release"}
        /\ Unmoved /\ stage' = stage /\ todo' = todo
    BY <1>SameUnmoved DEF BeginRelease, Resources, RootSync, FinishRelease, At, stages
  <2>2. job[w].pc \in BusyLabels /\ job[w].pc \notin CreateLabels /\ job[w].pc \notin LandingLabels
    BY <2>1, <1>DeleteLabels
  <2>3. PICK s \in Sandboxes : s = S(w)
    BY <2>2, <1>AtWorkSafe
  <2>4. /\ job[w].pc \in HeldLabels /\ s \notin ledger.blocked /\ TypeInv
        /\ job[w].pc \in NearLabels => ledger.records[s] # None \/ ~disk[s].dir
    BY <2>2, <2>3, <1>AtWorkSafe
  <2>5. CASE GiveUp(w) /\ (job[w].pc \in MovingLabels => ~Steady)
    BY <2>1, <2>2, <2>3, <2>4, <2>5, <1>StillOut
  <2>6. CASE BeginRelease(w)
    <3>1. job[w].pc = "begin_release" /\ job[w].pc \in NearLabels /\ job[w].pc \notin MovingLabels
      BY <2>6, <1>DeleteLabels DEF BeginRelease, At
    <3>2. CASE ~GiveUp(w)
      <4>1. PICK p : p = IF w = Boot THEN "resources" ELSE "cancel"
        OBVIOUS
      <4>2. /\ p \in NearLabels /\ p \in BusyLabels /\ p \notin CreateLabels /\ p # "mark_sync" /\ p # "forget"
            /\ w = Boot => p \in BootLabels
        BY <4>1, <1>DeleteLabels
      <4>3. Go(w, p)
        BY <2>6, <3>2, <4>1 DEF BeginRelease
      <4> QED
        BY <2>1, <2>2, <2>3, <2>4, <3>1, <4>2, <4>3, <1>StillGo
    <3> QED
      BY <2>5, <3>1, <3>2
  <2>7. CASE Resources(w)
    <3>1. job[w].pc = "resources" /\ job[w].pc \in NearLabels /\ job[w].pc \notin MovingLabels
      BY <2>7, <1>DeleteLabels DEF Resources, At
    <3>2. CASE ~GiveUp(w)
      <4>1. PICK p : p = IF disk[s].dir THEN "children" ELSE "finish_release"
        OBVIOUS
      <4>2. /\ p \in BusyLabels /\ p \notin CreateLabels /\ p # "mark_sync" /\ p # "forget" /\ p \in BootLabels
        BY <4>1, <1>DeleteLabels
      <4>3. Go(w, p)
        BY <2>3, <2>7, <3>2, <4>1 DEF Resources
      <4> QED
        BY <2>1, <2>2, <2>3, <2>4, <3>1, <4>2, <4>3, <1>StillGo
    <3> QED
      BY <2>5, <3>1, <3>2
  <2>8. CASE RootSync(w)
    <3>1. job[w].pc = "root_sync" /\ job[w].pc \in MovingLabels
      BY <2>8, <1>DeleteLabels DEF RootSync, At
    <3>2. Go(w, "finish_release") \/ ("tree" \in Faults /\ GiveUp(w))
      BY <2>8 DEF RootSync, Fails
    <3>3. "tree" \in Faults => ~Steady
      BY DEF Steady
    <3>4. CASE Go(w, "finish_release")
      BY <2>1, <2>2, <2>3, <2>4, <3>1, <3>4, <1>StillGo, <1>DeleteLabels
    <3> QED
      BY <2>5, <3>2, <3>3, <3>4
  <2>9. CASE FinishRelease(w)
    <3>1. job[w].pc = "finish_release" /\ job[w].pc \in MovingLabels
      BY <2>9, <1>DeleteLabels DEF FinishRelease, At
    <3>2. Go(w, "forget") \/ ("lease" \in Faults /\ GiveUp(w))
      BY <2>9 DEF FinishRelease, Fails
    <3>3. "lease" \in Faults => ~Steady
      BY DEF Steady
    <3>4. disk[s].metadata = None
      BY <2>3, <3>1 DEF Inv, Deleting
    <3>5. CASE Go(w, "forget")
      BY <2>1, <2>2, <2>3, <2>4, <3>1, <3>4, <3>5, <1>StillGo, <1>DeleteLabels
    <3> QED
      BY <2>5, <3>2, <3>3, <3>5
  <2> QED
    BY <2>6, <2>7, <2>8, <2>9
(* claim and delete before they found anything.                            *)
<1>InspectSafe.
      ASSUME Inv, AdmitInv, NEW w \in Workers, job[w].pc \in {"claim", "delete"}
      PROVE  /\ job[w].pc \in HeldLabels /\ job[w].pc # "idle" /\ TypeInv
             /\ w \in Threads /\ w # Boot /\ stage # "scan"
             /\ job[w].pc \notin BusyLabels /\ job[w].pc \notin CreateLabels
             /\ job[w].pc \notin MovingLabels /\ job[w].pc \notin LandingLabels
             /\ S(w) \in Sandboxes /\ SandboxInv(S(w)) /\ SafeAt(S(w))
             /\ ~Landing(S(w)) /\ ~Moving(S(w))
  <2> USE <1>InspectSafe
  <2>1. job[w].pc \in HeldLabels /\ job[w].pc \in Unbusy
    BY DEF HeldLabels, Unbusy
  <2>2. /\ job[w].pc \notin BusyLabels /\ job[w].pc \notin CreateLabels
        /\ job[w].pc \notin MovingLabels /\ job[w].pc \notin LandingLabels
    BY <2>1, AdmitLabels
  <2>3. /\ TypeInv /\ S(w) \in Sandboxes /\ w \in Threads /\ w # Boot /\ SandboxInv(S(w)) /\ job[w].pc # "idle"
    BY <2>1, AtWork
  <2>4. stage # "scan"
    BY <2>3 DEF Inv, StageInv, Starting
  <2>5. ASSUME NEW u \in Threads, job[u].pc \in BusyLabels, S(u) = S(w) PROVE FALSE
    BY <2>1, <2>2, <2>3, <2>5, Exclusive, AdmitLabels
  <2>6. ~Landing(S(w)) /\ ~Moving(S(w))
    BY <2>5, AdmitLabels DEF Landing, Moving, Threads
  <2> QED
    BY <2>1, <2>2, <2>3, <2>4, <2>6 DEF AdmitInv
<1>DeleteAbsentAdmit.
      ASSUME Inv, AdmitInv, NEW w \in Workers, DeleteAbsent(w)
      PROVE  AdmitInv'
  <2> USE <1>DeleteAbsentAdmit
  <2>1. job[w].pc \in {"claim", "delete"} /\ Unmoved /\ stage' = stage /\ todo' = todo
    BY <1>SameUnmoved DEF DeleteAbsent, At, stages
  <2>2. PICK s \in Sandboxes : s = S(w)
    BY <2>1, <1>InspectSafe
  <2>3. /\ job[w].pc \in HeldLabels /\ job[w].pc # "idle" /\ TypeInv /\ w \in Threads /\ w # Boot
        /\ job[w].pc \notin CreateLabels /\ job[w].pc \notin MovingLabels /\ job[w].pc \notin LandingLabels
        /\ SandboxInv(s) /\ SafeAt(s)
    BY <2>1, <2>2, <1>InspectSafe
  <2>4. inspect(s) = "Absent" /\ inspect(s) # "Corrupt"
    BY <2>2 DEF DeleteAbsent
  <2>5. ~disk[s].dir /\ s \notin ledger.blocked /\ disk[s].metadata = None
    BY <2>3, <2>4, Inspected, AbsentIsFree DEF SafeAt
  <2>6. CASE Leave(w, "idle")
    BY <2>1, <2>2, <2>3, <2>6, <1>StillOut
  <2>7. CASE Go(w, "forget")
    BY <2>1, <2>2, <2>3, <2>5, <2>7, <1>StillGo, <1>DeleteLabels
  <2>8. CASE lease[s] # None /\ job' = [job EXCEPT ![w].pc = "resources", ![w].lease = lease[s].state]
    <3>1. lease[s].state \in LeaseStates /\ "resources" \in HeldLabels /\ "resources" # "unlock"
      BY SMTT(30), <2>3, <2>8 DEF TypeInv, Leases, HeldLabels, DestroyLabels
    <3>2. Others(w) /\ job'[w].pc = "resources" /\ S(w)' = s
      BY <2>2, <2>3, <2>8, <3>1, GoesWithLease DEF JobKept
    <3>3. SafeJob(w)'
      BY <2>1, <2>5, <3>2, <1>SafeNow DEF Unmoved
    <3> QED
      BY <2>1, <2>2, <2>3, <3>2, <3>3, <1>StillStep, <1>DeleteLabels
  <2> QED
    BY <2>2, <2>6, <2>7, <2>8 DEF DeleteAbsent
(* Steps that change the directory of a sandbox.                           *)
<1>Unpublishes.
      ASSUME NEW s, disk'[s].metadata = None
      PROVE  s \notin Published'
  BY <1>Unpublishes DEF Published, inspect
<1>DiskAdmit.
      ASSUME Inv, AdmitInv, NEW w \in Threads, job[w].pc \in BusyLabels, NEW s \in Sandboxes, s = S(w),
             ledger' = ledger, stage' = stage, todo' = todo, Others(w),
             \A t \in Sandboxes \ {s} : disk'[t] = disk[t],
             w = Boot /\ job'[w].pc # "idle" => S(w)' = s,
             w \in Workers => /\ job'[w].pc \in CreateLabels <=> job[w].pc \in CreateLabels
                              /\ job[w].pc \in CreateLabels => job'[w].who = job[w].who,
             SafeAt(s)', SafeJob(w)'
      PROVE  AdmitInv'
  <2> USE <1>DiskAdmit
  <2>1. CountInv' /\ RoomInv'
    <3>1. \A v \in Workers : /\ job'[v].pc \in CreateLabels <=> job[v].pc \in CreateLabels
                             /\ job[v].pc \in CreateLabels => job'[v].who = job[v].who
      BY DEF Others, Threads
    <3> QED
      BY <3>1, <1>CountSame DEF AdmitInv
  <2> QED
    BY <2>1, <1>AdmitStep, AdmitLabels
<1>OtherDisks.
      ASSUME TypeInv, NEW s \in Sandboxes, NEW d, SetDisk(s, d)
      PROVE  \A t \in Sandboxes \ {s} : disk'[t] = disk[t]
  BY <1>OtherDisks DEF TypeInv, SetDisk
<1>CreateStepAdmit.
      ASSUME "sync" \notin Faults, Inv, Inv', AdmitInv, NEW w \in Workers, CreateStep(w)
      PROVE  AdmitInv'
  <2> USE <1>CreateStepAdmit
  <2>1. ledger' = ledger /\ stage' = stage /\ todo' = todo
    BY DEF CreateStep, stages
  <2>2. job[w].pc \in {"mkdir", "workspace", "temp", "rename"}
    BY SMT DEF CreateStep, AfterCreate
  <2>3. PICK p \in {"workspace", "temp", "rename", "sync", "abort"} : Go(w, p)
    <3>1. AfterCreate[job[w].pc] \in {"workspace", "temp", "rename", "sync"}
      BY SMTT(30), <2>2 DEF AfterCreate
    <3> QED
      BY <3>1 DEF CreateStep
  <2>4. /\ job[w].pc \in CreateLabels /\ job[w].pc \in BusyLabels /\ p \in CreateLabels /\ p \in BusyLabels
        /\ p # "mark_sync" /\ p # "forget" /\ p \notin NearLabels /\ p \notin {"reserve", "mkdir", "abort_free"}
        /\ w \in Threads /\ w # Boot
    BY SMTT(30), <2>2, <2>3, ManagerAssumption DEF BusyLabels, CreateLabels, NearLabels, WaitLabels, Threads
  <2>5. PICK s \in Sandboxes : s = S(w)
    BY <2>4, <1>AtWorkSafe
  <2>6. /\ job[w].pc \in HeldLabels /\ TypeInv /\ s \notin ledger.blocked
        /\ Others(w) /\ job'[w].pc = p /\ S(w)' = s /\ job'[w].who = job[w].who
    BY <2>3, <2>4, <2>5, <1>AtWorkSafe, <1>GoesBusy
  <2>7. \A t \in Sandboxes \ {s} : disk'[t] = disk[t]
    BY <2>5, <2>6, <1>OtherDisks DEF CreateStep
  <2>8. SafeJob(w)'
    BY <2>1, <2>4, <2>6, <1>SafeNow
  <2>9. Creating(w)' /\ ledger'.records[s] = None
    BY <2>1, <2>4, <2>5 DEF Inv, Creating
  <2>10. SafeAt(s)'
    <3>1. CASE p = "sync"
      <4>1. Landing(s)' /\ Moving(s)'
        BY <2>4, <2>6, <3>1 DEF Landing, Moving, LandingLabels, MovingLabels
      <4> QED
        BY <2>1, <2>6, <4>1 DEF SafeAt
    <3>2. CASE p # "sync"
      <4>1. disk'[s].metadata = None
        BY <2>3, <2>6, <2>9, <3>2 DEF Creating
      <4> QED
        BY <2>1, <2>6, <2>9, <4>1, <1>Unpublishes DEF SafeAt
    <3> QED
      BY <3>1, <3>2
  <2> QED
    BY <2>1, <2>4, <2>5, <2>6, <2>7, <2>8, <2>10, <1>DiskAdmit
<1>MarkLabelFacts.
      /\ MarkLabels = {"mark_temp", "mark_rename", "mark_sync"} /\ MarkLabels \subseteq BusyLabels
      /\ MarkLabels \cap CreateLabels = {} /\ MarkLabels \cap NearLabels = {} /\ MarkLabels \cap LandingLabels = {}
      /\ "mark_rename" # "mark_sync" /\ "forget" \notin MarkLabels
      /\ "mark_rename" \in MovingLabels /\ "mark_sync" \in MovingLabels /\ "mark_temp" \notin MovingLabels
  BY SMT DEF BusyLabels, LandingLabels, MovingLabels, NearLabels, CreateLabels, MarkLabels, WaitLabels
<1>MarkTempAdmit.
      ASSUME Inv, AdmitInv, NEW w \in Workers, MarkTemp(w)
      PROVE  AdmitInv'
  <2> USE <1>MarkTempAdmit
  <2>1. /\ job[w].pc = "mark_temp" /\ ledger' = ledger /\ stage' = stage /\ todo' = todo
        /\ w \in Threads /\ w # Boot
    BY ManagerAssumption DEF MarkTemp, At, stages, Threads
  <2>2. job[w].pc \in MarkLabels /\ job[w].pc \in BusyLabels /\ job[w].pc \notin CreateLabels
    BY <2>1, <1>MarkLabelFacts
  <2>3. PICK s \in Sandboxes : s = S(w)
    BY <2>1, <2>2, <1>AtWorkSafe
  <2>4. job[w].pc \in HeldLabels /\ TypeInv /\ s \notin ledger.blocked /\ ledger.records[s] # None
    BY <2>1, <2>2, <2>3, <1>AtWorkSafe DEF Inv, Deleting
  <2>5. CASE Go(w, "mark_rename") /\ ~(disk' = disk)
    <3>1. /\ Others(w) /\ job'[w].pc = "mark_rename" /\ S(w)' = s
      BY <2>1, <2>3, <2>4, <2>5, <1>MarkLabelFacts, <1>GoesBusy
    <3>2. \A t \in Sandboxes \ {s} : disk'[t] = disk[t]
      BY <2>3, <2>4, <2>5, <1>OtherDisks DEF MarkTemp
    <3>3. Moving(s)'
      BY <2>1, <3>1, <1>MarkLabelFacts DEF Moving
    <3>4. SafeAt(s)'
      BY <2>1, <2>4, <3>3 DEF SafeAt
    <3>5. SafeJob(w)'
      BY <2>1, <2>4, <3>1, <1>MarkLabelFacts, <1>SafeNow
    <3> QED
      BY <2>1, <2>2, <2>3, <3>1, <3>2, <3>4, <3>5, <1>DiskAdmit, <1>MarkLabelFacts
  <2>6. CASE Go(w, "mark_rename") /\ disk' = disk
    BY <2>1, <2>2, <2>3, <2>4, <2>6, <1>SameUnmoved, <1>StillGo, <1>MarkLabelFacts
  <2>7. CASE Leave(w, "idle") /\ disk' = disk
    BY <2>1, <2>2, <2>3, <2>4, <2>7, <1>SameUnmoved, <1>StillOut, <1>MarkLabelFacts
  <2> QED
    BY <2>5, <2>6, <2>7 DEF MarkTemp
<1>NotMoving.
      ASSUME Inv, AdmitInv, NEW w \in Threads, job[w].pc \in BusyLabels, job[w].pc \notin MovingLabels
      PROVE  ~Moving(S(w))
  <2> USE <1>NotMoving
  <2>1. ASSUME NEW u \in Threads, job[u].pc \in MovingLabels, S(u) = S(w) PROVE FALSE
    BY <2>1, Exclusive, AdmitLabels DEF Inv
  <2> QED
    BY <2>1 DEF Moving
<1>MarkRenameAdmit.
      ASSUME Inv, AdmitInv, NEW w \in Workers, MarkRename(w)
      PROVE  AdmitInv'
  <2> USE <1>MarkRenameAdmit
  <2>1. /\ job[w].pc = "mark_rename" /\ ledger' = ledger /\ stage' = stage /\ todo' = todo
        /\ w \in Threads /\ w # Boot
    BY ManagerAssumption DEF MarkRename, At, stages, Threads
  <2>2. job[w].pc \in MarkLabels /\ job[w].pc \in BusyLabels /\ job[w].pc \notin CreateLabels
    BY <2>1, <1>MarkLabelFacts
  <2>3. PICK s \in Sandboxes : s = S(w)
    BY <2>1, <2>2, <1>AtWorkSafe
  <2>4. /\ job[w].pc \in HeldLabels /\ TypeInv /\ s \notin ledger.blocked
        /\ ledger.records[s] # None /\ disk[s].metadata # None
    BY <2>1, <2>2, <2>3, <1>AtWorkSafe DEF Inv, Deleting
  <2>5. \A t \in Sandboxes \ {s} : disk'[t] = disk[t]
    BY <2>3, <2>4, <1>OtherDisks DEF MarkRename
  <2>6. CASE SetDisk(s, [disk[s] EXCEPT !.temp = FALSE, !.metadata.state = "Deleting"]) /\ Go(w, "mark_sync")
    <3>1. /\ Others(w) /\ job'[w].pc = "mark_sync" /\ S(w)' = s
      BY <2>1, <2>3, <2>4, <2>6, <1>MarkLabelFacts, <1>GoesBusy
    <3>2. PICK d \in Directories : d = disk[s]
      BY <2>4 DEF TypeInv
    <3>3. PICK m \in Metadata : m = d.metadata
      BY <2>4, <3>2 DEF Directories
    <3>4. PICK e : e = [d EXCEPT !.temp = FALSE, !.metadata.state = "Deleting"]
      OBVIOUS
    <3>5. e.metadata = [m EXCEPT !.state = "Deleting"] /\ ~e.temp
      BY SMTT(30), <3>3, <3>4 DEF Directories
    <3>6. e.metadata.state = "Deleting"
      BY SMTT(30), <3>3, <3>5 DEF Metadata
    <3>7. disk'[s] = e
      BY <2>4, <2>6, <3>2, <3>4 DEF SetDisk, TypeInv
    <3>8. Moving(s)'
      BY <2>1, <3>1, <1>MarkLabelFacts DEF Moving
    <3>9. SafeAt(s)'
      BY <2>1, <2>4, <3>8 DEF SafeAt
    <3>10. SafeJob(w)'
      BY <2>1, <2>4, <3>1, <3>5, <3>6, <3>7, <1>MarkLabelFacts DEF SafeJob, NearLabels
    <3> QED
      BY <2>1, <2>2, <2>3, <2>5, <3>1, <3>9, <3>10, <1>DiskAdmit, <1>MarkLabelFacts
  <2>7. CASE "mark" \in Faults /\ Leave(w, "idle")
    <3>1. /\ Others(w) /\ SafeJob(w)' /\ job'[w].pc \notin CreateLabels
      BY <2>1, <2>4, <2>7, <1>GoesOut
    <3>2. SafeAt(s)'
      BY <2>1, <2>4, <2>7 DEF SafeAt, Steady
    <3> QED
      BY <2>1, <2>2, <2>3, <2>5, <3>1, <3>2, <1>DiskAdmit
  <2> QED
    BY <2>3, <2>6, <2>7 DEF MarkRename, Fails
<1>RemoveStepAdmit.
      ASSUME Inv, Inv', AdmitInv, NEW w \in Threads, RemoveStep(w)
      PROVE  AdmitInv'
  <2> USE <1>RemoveStepAdmit
  <2>1. /\ job[w].pc \in {"children", "unlink", "rmdir"}
        /\ ledger' = ledger /\ stage' = stage /\ todo' = todo
    BY SMTT(30) DEF RemoveStep, AfterRemove, stages
  <2>2. /\ job[w].pc \in BusyLabels /\ job[w].pc \notin CreateLabels /\ job[w].pc \notin LandingLabels
        /\ job[w].pc \in DestroyLabels
        /\ job[w].pc \in {"children", "unlink"} => job[w].pc \in NearLabels /\ job[w].pc \notin MovingLabels
    BY SMTT(30), <2>1 DEF BusyLabels, CreateLabels, NearLabels, MovingLabels, LandingLabels, DestroyLabels,
       RemoveLabels, MarkLabels, WaitLabels
  <2>3. PICK s \in Sandboxes : s = S(w)
    BY <2>2, <1>AtWorkSafe
  <2>4. /\ job[w].pc \in HeldLabels /\ TypeInv /\ s \notin ledger.blocked /\ SafeAt(s) /\ stage # "scan"
        /\ job[w].pc \in {"children", "unlink"} => ledger.records[s] # None \/ ~disk[s].dir
    BY <2>2, <2>3, <1>AtWorkSafe
  <2>5. Closed(s) /\ disk[s].dir
    BY <2>1, <2>2, <2>3, DeletesAt
  <2>6. CASE "tree" \in Faults /\ GiveUp(w) /\ disk' = disk
    BY <2>1, <2>2, <2>3, <2>4, <2>6, <1>SameUnmoved, <1>StillOut DEF Steady
  <2>7. ASSUME NEW p \in {"unlink", "rmdir", "root_sync"}, Go(w, p), NEW d, SetDisk(s, d), SafeAt(s)',
               p = "unlink" => ledger'.records[s] # None
        PROVE  AdmitInv'
    <3>1. /\ p \in BusyLabels /\ p \in BootLabels /\ p \notin CreateLabels /\ p # "mark_sync" /\ p # "forget"
          /\ p # "unlink" => p \notin NearLabels
      BY SMTT(30), <2>7 DEF BusyLabels, BootLabels, CreateLabels, NearLabels, DestroyLabels, RemoveLabels, WaitLabels
    <3>2. Others(w) /\ job'[w].pc = p /\ S(w)' = s
      BY <2>3, <2>4, <2>7, <3>1, <1>GoesBusy
    <3>3. SafeJob(w)'
      BY <2>1, <2>4, <2>7, <3>1, <3>2, <1>SafeNow
    <3>4. \A t \in Sandboxes \ {s} : disk'[t] = disk[t]
      BY <2>4, <2>7, <1>OtherDisks
    <3> QED
      BY <2>1, <2>2, <2>3, <2>7, <3>1, <3>2, <3>3, <3>4, <1>DiskAdmit
  <2>8. ASSUME NEW p \in {"rmdir", "root_sync"}, Go(w, p)
        PROVE  SafeAt(s)'
    <3>1. /\ p \in BusyLabels /\ p \in BootLabels /\ p \in MovingLabels
      BY SMTT(30), <2>8 DEF BusyLabels, BootLabels, MovingLabels, DestroyLabels, RemoveLabels
    <3>2. job'[w].pc = p /\ S(w)' = s
      BY <2>3, <2>4, <2>8, <3>1, <1>GoesBusy
    <3>3. disk'[s].metadata = None
      BY <2>8, <3>2 DEF Inv, Deleting
    <3>4. Moving(s)'
      BY <3>1, <3>2 DEF Moving
    <3> QED
      BY <2>1, <2>4, <3>3, <3>4, <1>Unpublishes DEF SafeAt
  <2>9. CASE job[w].pc = "children" /\ SetDisk(s, Removed(disk[s], job[w].pc)) /\ Go(w, "unlink")
    <3>1. PICK d \in Directories : d = disk[s]
      BY <2>4 DEF TypeInv
    <3>2. PICK e : e = Removed(d, "children")
      OBVIOUS
    <3>3. e = [d EXCEPT !.workspace = FALSE, !.temp = FALSE]
      BY SMTT(30), <3>2 DEF Removed
    <3>4. e.dir = d.dir /\ ~e.temp /\ e.metadata = d.metadata
      BY <3>3 DEF Directories
    <3>5. disk'[s] = e
      BY <2>4, <2>9, <3>1, <3>2 DEF SetDisk, TypeInv
    <3>6. ledger.records[s] # None /\ ~Moving(s)
      BY <2>2, <2>3, <2>4, <2>5, <2>9, <1>NotMoving
    <3>7. ASSUME Steady PROVE s \in Published' /\ ledger'.records[s] = disk'[s].metadata
      <4>1. s \in Published /\ ledger.records[s] = disk[s].metadata
        BY <2>4, <3>6, <3>7 DEF SafeAt
      <4>2. disk'[s].metadata # None /\ disk'[s].metadata.state = "Deleting" /\ disk'[s].dir /\ ~disk'[s].temp
        BY <2>5, <3>1, <3>4, <3>5, <3>6, <4>1 DEF Closed
      <4>3. inspect(s)' = "Deleting"
        BY <4>2 DEF inspect
      <4> QED
        BY <2>1, <3>1, <3>4, <3>5, <4>1, <4>3 DEF Published
    <3>8. SafeAt(s)'
      BY <2>1, <2>4, <3>6, <3>7 DEF SafeAt, Steady
    <3> QED
      BY <2>1, <2>7, <2>9, <3>6, <3>8
  <2>10. CASE job[w].pc \in {"unlink", "rmdir"} /\ SetDisk(s, Removed(disk[s], job[w].pc)) /\ Go(w, AfterRemove[job[w].pc])
    <3>1. AfterRemove[job[w].pc] \in {"rmdir", "root_sync"}
      BY SMTT(30), <2>10 DEF AfterRemove
    <3>2. AfterRemove[job[w].pc] # "unlink"
      BY SMTT(30), <3>1
    <3>3. PICK p : p = AfterRemove[job[w].pc]
      OBVIOUS
    <3>4. SafeAt(s)'
      BY <2>8, <2>10, <3>1, <3>3
    <3> QED
      BY <2>7, <2>10, <3>1, <3>2, <3>3, <3>4
  <2>11. AfterRemove["children"] = "unlink"
    BY SMT DEF AfterRemove
  <2> QED
    BY <2>1, <2>3, <2>6, <2>9, <2>10, <2>11 DEF RemoveStep, Fails
(* Thread w enters a claim, or leaves it.                                  *)
<1>ClaimsGain.
      ASSUME NEW w \in Workers, Others(w), job[w].pc \notin CreateLabels, job'[w].pc \in CreateLabels,
             NEW o, job'[w].who = o
      PROVE  /\ Claiming' = Claiming \union {w} /\ w \notin Claiming
             /\ InFlight(o)' = InFlight(o) \union {w} /\ w \notin InFlight(o)
             /\ \A q : q # o => InFlight(q)' = InFlight(q)
  <2> USE <1>ClaimsGain
  <2>1. \A v \in Workers : v # w => job'[v] = job[v]
    BY DEF Others, Threads
  <2>2. Claiming' = Claiming \union {w} /\ w \notin Claiming
    BY SMTT(30), <2>1 DEF Claiming
  <2>3. InFlight(o)' = InFlight(o) \union {w} /\ w \notin InFlight(o)
    BY SMTT(30), <2>1 DEF InFlight, Claiming
  <2>4. ASSUME NEW q, q # o PROVE InFlight(q)' = InFlight(q)
    BY SMTT(30), <2>1, <2>4 DEF InFlight, Claiming
  <2> QED
    BY <2>2, <2>3, <2>4
<1>ClaimsLose.
      ASSUME NEW w \in Workers, Others(w), job[w].pc \in CreateLabels, job'[w].pc \notin CreateLabels,
             NEW o, job[w].who = o
      PROVE  /\ Claiming' = Claiming \ {w} /\ w \in Claiming
             /\ InFlight(o)' = InFlight(o) \ {w} /\ w \in InFlight(o)
             /\ \A q : q # o => InFlight(q)' = InFlight(q)
  <2> USE <1>ClaimsLose
  <2>1. \A v \in Workers : v # w => job'[v] = job[v]
    BY DEF Others, Threads
  <2>2. Claiming' = Claiming \ {w} /\ w \in Claiming
    BY SMTT(30), <2>1 DEF Claiming
  <2>3. InFlight(o)' = InFlight(o) \ {w} /\ w \in InFlight(o)
    BY SMTT(30), <2>1 DEF InFlight, Claiming
  <2>4. ASSUME NEW q, q # o PROVE InFlight(q)' = InFlight(q)
    BY SMTT(30), <2>1, <2>4 DEF InFlight, Claiming
  <2> QED
    BY <2>2, <2>3, <2>4
<1>RecordsSame.
      ASSUME ledger'.records = ledger.records
      PROVE  Recorded' = Recorded /\ \A o : OwnedBy(o)' = OwnedBy(o)
  BY <1>RecordsSame DEF Recorded, OwnedBy
<1>RecordsGain.
      ASSUME NEW s \in Sandboxes, \A t \in Sandboxes \ {s} : ledger'.records[t] = ledger.records[t],
             ledger.records[s] = None, ledger'.records[s] # None, NEW o, ledger'.records[s].owner = o
      PROVE  /\ Recorded' = Recorded \union {s} /\ s \notin Recorded
             /\ OwnedBy(o)' = OwnedBy(o) \union {s} /\ s \notin OwnedBy(o)
             /\ \A q : q # o => OwnedBy(q)' = OwnedBy(q)
  <2> USE <1>RecordsGain
  <2>1. Recorded' = Recorded \union {s} /\ s \notin Recorded
    BY SMTT(30) DEF Recorded
  <2>2. OwnedBy(o)' = OwnedBy(o) \union {s} /\ s \notin OwnedBy(o)
    BY SMTT(30) DEF OwnedBy
  <2>3. ASSUME NEW q, q # o PROVE OwnedBy(q)' = OwnedBy(q)
    BY SMTT(30), <2>3 DEF OwnedBy
  <2> QED
    BY <2>1, <2>2, <2>3
<1>RecordsLose.
      ASSUME NEW s \in Sandboxes, \A t \in Sandboxes \ {s} : ledger'.records[t] = ledger.records[t],
             ledger.records[s] # None, ledger'.records[s] = None, NEW o, ledger.records[s].owner = o
      PROVE  /\ Recorded' = Recorded \ {s} /\ s \in Recorded
             /\ OwnedBy(o)' = OwnedBy(o) \ {s} /\ s \in OwnedBy(o)
             /\ \A q : q # o => OwnedBy(q)' = OwnedBy(q)
  <2> USE <1>RecordsLose
  <2>1. Recorded' = Recorded \ {s} /\ s \in Recorded
    BY SMTT(30) DEF Recorded
  <2>2. OwnedBy(o)' = OwnedBy(o) \ {s} /\ s \in OwnedBy(o)
    BY SMTT(30) DEF OwnedBy
  <2>3. ASSUME NEW q, q # o PROVE OwnedBy(q)' = OwnedBy(q)
    BY SMTT(30), <2>3 DEF OwnedBy
  <2> QED
    BY <2>1, <2>2, <2>3
<1>Recount.
      ASSUME TypeInv, CountInv, RoomInv, NEW o \in Principals,
             NEW a \in Int, NEW b \in Int, NEW c \in Int, NEW d \in Int, NEW n \in Int,
             Recounted(o, a, b, c, d, n)
      PROVE  CountInv' /\ RoomInv'
  <2> USE <1>Recount
  <2>1. /\ Cardinality(Recorded) \in Nat /\ Cardinality(Claiming) \in Nat
        /\ Cardinality(OwnedBy(o)) \in Nat /\ Cardinality(InFlight(o)) \in Nat
        /\ ledger.reserved \in Int /\ ledger.owner_counts[o] \in Int
        /\ MaxSandboxes \in Nat /\ MaxPerOwner \in Nat
    BY Countable, LedgerAt, ManagerAssumption
  <2>2. /\ ledger.reserved = Cardinality(Claiming)
        /\ Cardinality(Recorded) + ledger.reserved <= MaxSandboxes
        /\ \A q \in Principals :
             /\ ledger.owner_counts[q] = Cardinality(OwnedBy(q)) + Cardinality(InFlight(q))
             /\ ledger.owner_counts[q] <= MaxPerOwner
    BY DEF CountInv, RoomInv
  <2>3. /\ ledger'.reserved = Cardinality(Claiming')
        /\ Cardinality(Recorded') + ledger'.reserved <= MaxSandboxes
    BY SMTT(30), <2>1, <2>2 DEF Recounted
  <2>4. ledger.owner_counts[o] = Cardinality(OwnedBy(o)) + Cardinality(InFlight(o)) /\ ledger.owner_counts[o] <= MaxPerOwner
    BY <2>2
  <2>5. /\ ledger'.owner_counts[o] = Cardinality(OwnedBy(o)') + Cardinality(InFlight(o)')
        /\ ledger'.owner_counts[o] <= MaxPerOwner
    BY SMTT(30), <2>1, <2>4 DEF Recounted
  <2>6. ASSUME NEW q \in Principals
        PROVE  /\ ledger'.owner_counts[q] = Cardinality(OwnedBy(q)') + Cardinality(InFlight(q)')
               /\ ledger'.owner_counts[q] <= MaxPerOwner
    <3>1. CASE q = o
      BY <2>5, <3>1
    <3>2. CASE q # o
      <4>1. OwnedBy(q)' = OwnedBy(q) /\ InFlight(q)' = InFlight(q) /\ ledger'.owner_counts[q] = ledger.owner_counts[q]
        BY <3>2 DEF Recounted
      <4> QED
        BY <2>2, <4>1
    <3> QED
      BY <3>1, <3>2
  <2> QED
    BY <2>3, <2>6 DEF CountInv, RoomInv
(* reserve_sandbox, on a claim that found room, and release_sandbox.       *)
<1>ReserveCounts.
      ASSUME TypeInv, CountInv, RoomInv, NEW w \in Workers, Others(w), NEW o \in Principals,
             job[w].pc \notin CreateLabels, job'[w].pc \in CreateLabels, job'[w].who = o,
             HasRoom(o), ledger' = reserve_sandbox(o)
      PROVE  CountInv' /\ RoomInv' /\ ledger'.records = ledger.records /\ ledger'.blocked = ledger.blocked
  <2> USE <1>ReserveCounts
  <2>1. /\ ledger'.records = ledger.records /\ ledger'.reserved = ledger.reserved + 1
        /\ ledger'.blocked = ledger.blocked
        /\ ledger'.owner_counts = [ledger.owner_counts EXCEPT ![o] = @ + 1]
    BY SMTT(30), Counts DEF reserve_sandbox, TypeInv, Ledgers
  <2>2. Recorded' = Recorded /\ \A q : OwnedBy(q)' = OwnedBy(q)
    BY <2>1, <1>RecordsSame
  <2>3. Cardinality(Claiming') = Cardinality(Claiming) + 1 /\ Cardinality(InFlight(o)') = Cardinality(InFlight(o)) + 1
    BY <1>ClaimsGain, Countable, Gains
  <2>4. \A q : q # o => OwnedBy(q)' = OwnedBy(q) /\ InFlight(q)' = InFlight(q)
    BY <2>2, <1>ClaimsGain
  <2>5. /\ ledger'.owner_counts[o] = ledger.owner_counts[o] + 1
        /\ \A q \in Principals : q # o => ledger'.owner_counts[q] = ledger.owner_counts[q]
    BY <2>1, LedgerAt
  <2>6. /\ Cardinality(Recorded') = Cardinality(Recorded) + 0 /\ Cardinality(OwnedBy(o)') = Cardinality(OwnedBy(o)) + 0
        /\ 1 \in Int /\ 0 \in Int /\ 1 = 0 + 1
    BY SMT, <2>2, Countable
  <2>7. Cardinality(Recorded) + ledger.reserved < MaxSandboxes /\ ledger.owner_counts[o] < MaxPerOwner
    BY DEF HasRoom, Recorded
  <2>8. Cardinality(Recorded) + ledger.reserved + 1 + 0 <= MaxSandboxes /\ ledger.owner_counts[o] + 1 <= MaxPerOwner
    BY SMTT(30), <2>7, Countable, LedgerAt, ManagerAssumption
  <2>9. Recounted(o, 0, 1, 1, 0, 1)
    BY <2>1, <2>3, <2>4, <2>5, <2>6, <2>8 DEF Recounted
  <2> QED
    BY <2>1, <2>6, <2>9, <1>Recount
<1>ReleaseCounts.
      ASSUME TypeInv, CountInv, RoomInv, NEW w \in Workers, Others(w), NEW o \in Principals,
             job[w].pc \in CreateLabels, job'[w].pc \notin CreateLabels, job[w].who = o,
             ledger' = release_sandbox(o)
      PROVE  CountInv' /\ RoomInv' /\ ledger'.records = ledger.records /\ ledger'.blocked = ledger.blocked
  <2> USE <1>ReleaseCounts
  <2>1. /\ ledger'.records = ledger.records /\ ledger'.reserved = ledger.reserved + (-1)
        /\ ledger'.blocked = ledger.blocked
        /\ ledger'.owner_counts = [ledger.owner_counts EXCEPT ![o] = @ + (-1)]
    BY SMTT(30), Counts DEF release_sandbox, TypeInv, Ledgers
  <2>2. Recorded' = Recorded /\ \A q : OwnedBy(q)' = OwnedBy(q)
    BY <2>1, <1>RecordsSame
  <2>3. Cardinality(Claiming') = Cardinality(Claiming) - 1 /\ Cardinality(InFlight(o)') = Cardinality(InFlight(o)) - 1
    BY <1>ClaimsLose, Countable, Loses
  <2>4. \A q : q # o => OwnedBy(q)' = OwnedBy(q) /\ InFlight(q)' = InFlight(q)
    BY <2>2, <1>ClaimsLose
  <2>5. /\ ledger'.owner_counts[o] = ledger.owner_counts[o] + (-1)
        /\ \A q \in Principals : q # o => ledger'.owner_counts[q] = ledger.owner_counts[q]
    BY <2>1, LedgerAt
  <2>6. /\ Cardinality(Recorded') = Cardinality(Recorded) + 0 /\ Cardinality(OwnedBy(o)') = Cardinality(OwnedBy(o)) + 0
        /\ Cardinality(Claiming') = Cardinality(Claiming) + (-1)
        /\ Cardinality(InFlight(o)') = Cardinality(InFlight(o)) + (-1)
        /\ -1 \in Int /\ 0 \in Int /\ -1 = 0 + (-1) /\ (-1) + 0 <= 0 /\ -1 <= 0
    BY SMTT(30), <2>2, <2>3, Countable
  <2>7. Recounted(o, 0, -1, -1, 0, -1)
    BY <2>1, <2>4, <2>5, <2>6 DEF Recounted
  <2> QED
    BY <2>1, <2>6, <2>7, <1>Recount
(* insert_reserved: the claim becomes a record.                            *)
<1>InsertCounts.
      ASSUME TypeInv, CountInv, RoomInv, NEW w \in Workers, Others(w), NEW o \in Principals,
             job[w].pc \in CreateLabels, job'[w].pc \notin CreateLabels, job[w].who = o,
             NEW s \in Sandboxes, NEW m \in Metadata, m.owner = o, ledger.records[s] = None,
             ledger' = insert_reserved(s, m)
      PROVE  /\ CountInv' /\ RoomInv' /\ ledger'.records[s] = m /\ ledger'.blocked = ledger.blocked
             /\ \A t \in Sandboxes \ {s} : ledger'.records[t] = ledger.records[t]
  <2> USE <1>InsertCounts
  <2>1. /\ ledger'.records = [ledger.records EXCEPT ![s] = m] /\ ledger'.reserved = ledger.reserved + (-1)
        /\ ledger'.blocked = ledger.blocked /\ ledger'.owner_counts = ledger.owner_counts
    BY SMTT(30), LedgerAt DEF insert_reserved
  <2>2. /\ ledger'.records[s] = m /\ m # None
        /\ \A t \in Sandboxes \ {s} : ledger'.records[t] = ledger.records[t]
    BY <2>1, LedgerAt, ManagerAssumption
  <2>3. Cardinality(Claiming') = Cardinality(Claiming) - 1 /\ Cardinality(InFlight(o)') = Cardinality(InFlight(o)) - 1
    BY <1>ClaimsLose, Countable, Loses
  <2>4. /\ Recorded' = Recorded \union {s} /\ s \notin Recorded
        /\ OwnedBy(o)' = OwnedBy(o) \union {s} /\ s \notin OwnedBy(o)
        /\ \A q : q # o => OwnedBy(q)' = OwnedBy(q)
    BY <2>2, <1>RecordsGain
  <2>5. Cardinality(Recorded') = Cardinality(Recorded) + 1 /\ Cardinality(OwnedBy(o)') = Cardinality(OwnedBy(o)) + 1
    BY <2>4, Countable, Gains
  <2>6. \A q : q # o => OwnedBy(q)' = OwnedBy(q) /\ InFlight(q)' = InFlight(q)
    BY <2>4, <1>ClaimsLose
  <2>7. /\ ledger'.owner_counts[o] = ledger.owner_counts[o] + 0
        /\ Cardinality(Claiming') = Cardinality(Claiming) + (-1)
        /\ Cardinality(InFlight(o)') = Cardinality(InFlight(o)) + (-1)
        /\ 1 \in Int /\ -1 \in Int /\ 0 \in Int /\ 0 = 1 + (-1) /\ (-1) + 1 <= 0 /\ 0 <= 0
    BY SMTT(30), <2>1, <2>3, Countable, LedgerAt
  <2>8. Recounted(o, 1, -1, -1, 1, 0)
    BY <2>1, <2>5, <2>6, <2>7 DEF Recounted
  <2> QED
    BY <2>1, <2>2, <2>7, <2>8, <1>Recount
(* remove_record_from_ledger, and the block that comes with it.            *)
<1>ForgetFields.
      ASSUME TypeInv, NEW s \in Sandboxes, NEW left, left = remove_record_from_ledger(ledger, s)
      PROVE  /\ left.records = [ledger.records EXCEPT ![s] = None]
             /\ left.blocked = ledger.blocked /\ left.reserved = ledger.reserved
             /\ ledger.records[s] = None => left.owner_counts = ledger.owner_counts
             /\ \A o : ledger.records[s] # None /\ o = ledger.records[s].owner =>
                   left.owner_counts = [ledger.owner_counts EXCEPT ![o] = @ + (-1)]
             /\ Block(ledger, s).records = left.records /\ Block(ledger, s).reserved = left.reserved
             /\ Block(ledger, s).owner_counts = left.owner_counts
             /\ Block(ledger, s).blocked = ledger.blocked \union {s}
  <2> USE <1>ForgetFields
  <2>1. PICK r : r = [w \in Workers |-> IF w \in TokensOf(ledger, s) THEN None ELSE ledger.runtime[w]]
    OBVIOUS
  <2>2. PICK kept : kept = [ledger EXCEPT !.records[s] = None, !.runtime = r]
    OBVIOUS
  <2>3. left = IF ledger.records[s] = None THEN kept ELSE Count(kept, ledger.records[s].owner, -1)
    BY <2>1, <2>2 DEF remove_record_from_ledger
  <2>4. /\ kept \in Ledgers /\ kept.records = [ledger.records EXCEPT ![s] = None]
        /\ kept.blocked = ledger.blocked /\ kept.reserved = ledger.reserved
        /\ kept.owner_counts = ledger.owner_counts
    <3>1. ledger \in Ledgers
      BY DEF TypeInv
    <3>2. r \in [Workers -> Runtimes \union {None}]
      BY SMTT(30), <2>1, LedgerAt
    <3> QED
      BY <2>2, <3>1, <3>2 DEF Ledgers
  <2>5. /\ left \in Ledgers /\ left.records = [ledger.records EXCEPT ![s] = None]
        /\ left.blocked = ledger.blocked /\ left.reserved = ledger.reserved
        /\ ledger.records[s] = None => left.owner_counts = ledger.owner_counts
        /\ \A o : ledger.records[s] # None /\ o = ledger.records[s].owner =>
                 left.owner_counts = [ledger.owner_counts EXCEPT ![o] = @ + (-1)]
    <3>1. CASE ledger.records[s] = None
      BY <2>3, <2>4, <3>1
    <3>2. CASE ledger.records[s] # None
      <4>1. ledger.records[s].owner \in Principals
        BY SMTT(30), <3>2, LedgerAt DEF Metadata
      <4>2. PICK o \in Principals : o = ledger.records[s].owner
        BY <4>1
      <4>0. PICK n \in Int : n = -1
        BY SMTT(30)
      <4>3. left = Count(kept, o, n)
        BY <2>3, <3>2, <4>0, <4>2
      <4>4. /\ Count(kept, o, n) \in Ledgers /\ Count(kept, o, n).records = kept.records
            /\ Count(kept, o, n).blocked = kept.blocked /\ Count(kept, o, n).reserved = kept.reserved
            /\ Count(kept, o, n).owner_counts = [kept.owner_counts EXCEPT ![o] = @ + n]
        BY SMTT(30), <2>4 DEF Count, Ledgers
      <4>5. /\ left \in Ledgers /\ left.records = kept.records /\ left.blocked = kept.blocked
            /\ left.reserved = kept.reserved
            /\ left.owner_counts = [kept.owner_counts EXCEPT ![o] = @ + n]
        BY <4>3, <4>4
      <4> QED
        BY <2>4, <3>2, <4>0, <4>2, <4>5
    <3> QED
      BY <3>1, <3>2
  <2>6. PICK B : B = Block(ledger, s)
    OBVIOUS
  <2>7. B = [left EXCEPT !.blocked = @ \union {s}]
    BY <2>6 DEF Block
  <2>8. B.records = left.records /\ B.reserved = left.reserved /\ B.owner_counts = left.owner_counts
        /\ B.blocked = left.blocked \union {s}
    BY SMTT(30), <2>5, <2>7 DEF Ledgers
  <2> QED
    BY <2>5, <2>6, <2>8
<1>ForgetCounts.
      ASSUME TypeInv, CountInv, RoomInv, NEW s \in Sandboxes,
             ledger' \in {remove_record_from_ledger(ledger, s), Block(ledger, s)},
             \A v \in Workers : /\ job'[v].pc \in CreateLabels <=> job[v].pc \in CreateLabels
                                /\ job[v].pc \in CreateLabels => job'[v].who = job[v].who
      PROVE  /\ CountInv' /\ RoomInv' /\ ledger'.records[s] = None
             /\ \A t \in Sandboxes \ {s} : ledger'.records[t] = ledger.records[t]
  <2> USE <1>ForgetCounts
  <2>1. /\ ledger'.records = [ledger.records EXCEPT ![s] = None] /\ ledger'.reserved = ledger.reserved
        /\ ledger.records[s] = None => ledger'.owner_counts = ledger.owner_counts
        /\ \A o : ledger.records[s] # None /\ o = ledger.records[s].owner =>
                 ledger'.owner_counts = [ledger.owner_counts EXCEPT ![o] = @ + (-1)]
    BY <1>ForgetFields
  <2>2. ledger'.records[s] = None /\ \A t \in Sandboxes \ {s} : ledger'.records[t] = ledger.records[t]
    BY <2>1, LedgerAt
  <2>3. CASE ledger.records[s] = None
    <3>1. \A t \in Sandboxes : ledger'.records[t] = ledger.records[t]
      BY <2>2, <2>3
    <3> QED
      BY <2>1, <2>2, <2>3, <3>1, <1>CountSame
  <2>4. CASE ledger.records[s] # None
    <3>1. ledger.records[s].owner \in Principals
      BY SMTT(30), <2>4, LedgerAt DEF Metadata
    <3>2. PICK o \in Principals : o = ledger.records[s].owner
      BY <3>1
    <3>3. /\ Recorded' = Recorded \ {s} /\ s \in Recorded
          /\ OwnedBy(o)' = OwnedBy(o) \ {s} /\ s \in OwnedBy(o)
          /\ \A q : q # o => OwnedBy(q)' = OwnedBy(q)
      BY <2>2, <2>4, <3>2, <1>RecordsLose
    <3>4. Cardinality(Recorded') = Cardinality(Recorded) - 1 /\ Cardinality(OwnedBy(o)') = Cardinality(OwnedBy(o)) - 1
      BY <3>3, Countable, Loses
    <3>5. Claiming' = Claiming /\ \A q : InFlight(q)' = InFlight(q)
      BY ClaimsSame
    <3>6. /\ ledger'.owner_counts[o] = ledger.owner_counts[o] + (-1)
          /\ \A q \in Principals : q # o => ledger'.owner_counts[q] = ledger.owner_counts[q]
      <4>1. ledger'.owner_counts = [ledger.owner_counts EXCEPT ![o] = @ + (-1)]
        BY <2>1, <2>4, <3>2
      <4> QED
        BY <4>1, LedgerAt
    <3>7. /\ Cardinality(Recorded') = Cardinality(Recorded) + (-1) /\ Cardinality(OwnedBy(o)') = Cardinality(OwnedBy(o)) + (-1)
          /\ Cardinality(Claiming') = Cardinality(Claiming) + 0
          /\ Cardinality(InFlight(o)') = Cardinality(InFlight(o)) + 0
          /\ ledger'.reserved = ledger.reserved + 0
          /\ -1 \in Int /\ 0 \in Int /\ -1 = (-1) + 0 /\ 0 + (-1) <= 0 /\ -1 <= 0
      BY SMTT(30), <2>1, <3>4, <3>5, Countable, LedgerAt
    <3>8. Recounted(o, -1, 0, 0, -1, -1)
      BY <3>3, <3>5, <3>6, <3>7 DEF Recounted
    <3> QED
      BY <2>2, <3>7, <3>8, <1>Recount
  <2> QED
    BY <2>3, <2>4
(* Steps that change the ledger.                                           *)
<1>ClaimersSame.
      ASSUME NEW w \in Threads, Others(w), job[w].pc \notin CreateLabels, job'[w].pc \notin CreateLabels
      PROVE  \A v \in Workers : /\ job'[v].pc \in CreateLabels <=> job[v].pc \in CreateLabels
                                /\ job[v].pc \in CreateLabels => job'[v].who = job[v].who
  BY <1>ClaimersSame DEF Others, Threads
(* A reservation is made or given back.                                    *)
<1>SameRecordsAdmit.
      ASSUME Inv, AdmitInv, NEW w \in Workers, job[w].pc \in HeldLabels, NEW s \in Sandboxes, s = S(w),
             Others(w), stage' = stage, todo' = todo, disk' = disk,
             ledger'.records = ledger.records, ledger'.blocked = ledger.blocked,
             job[w].pc \notin LandingLabels, job[w].pc \notin MovingLabels,
             CountInv', RoomInv', SafeJob(w)'
      PROVE  AdmitInv'
  <2> USE <1>SameRecordsAdmit
  <2>1. w \in Threads /\ w # Boot /\ stage # "scan"
    <3>1. w \in Threads /\ w # Boot /\ StageInv
      BY ManagerAssumption DEF Threads, Inv
    <3> QED
      BY <3>1, AdmitLabels DEF StageInv, Starting
  <2>2. Landing(s) => Landing(s)'
    BY DEF Landing, Others, Threads, S
  <2>3. Moving(s) => Moving(s)'
    BY DEF Moving, Others, S
  <2>4. SafeAt(s)'
    BY <2>1, <2>2, <2>3, <1>SafeAtFrame DEF AdmitInv
  <2> QED
    BY <2>1, <2>4, <1>AdmitStep
<1>ClaimAbsentAdmit.
      ASSUME Inv, AdmitInv, NEW w \in Workers, ClaimAbsent(w)
      PROVE  AdmitInv'
  <2> USE <1>ClaimAbsentAdmit
  <2>1. /\ job[w].pc \in {"claim", "delete"} /\ disk' = disk /\ stage' = stage /\ todo' = todo
    BY DEF ClaimAbsent, At, stages
  <2>2. PICK s \in Sandboxes : s = S(w)
    BY <2>1, <1>InspectSafe
  <2>3. /\ job[w].pc \in HeldLabels /\ job[w].pc # "idle" /\ TypeInv /\ w \in Threads /\ w # Boot
        /\ job[w].pc \notin CreateLabels /\ job[w].pc \notin MovingLabels /\ job[w].pc \notin LandingLabels
        /\ job[w].who \in Principals
    BY <2>1, <2>2, <1>InspectSafe, WorkerAt
  <2>4. CASE Leave(w, "idle") /\ ledger' = ledger
    BY <2>1, <2>2, <2>3, <2>4, <1>SameUnmoved, <1>StillOut
  <2>5. CASE /\ Go(w, "reserve") /\ ledger' = reserve_sandbox(job[w].who)
             /\ s \notin ledger.blocked /\ HasRoom(job[w].who)
    <3>1. PICK o \in Principals : o = job[w].who
      BY <2>3
    <3>2. /\ "reserve" \in BusyLabels /\ "reserve" \in CreateLabels /\ "reserve" \notin NearLabels
          /\ "reserve" # "forget" /\ "reserve" # "mark_sync"
      BY SMTT(30) DEF BusyLabels, CreateLabels, NearLabels, WaitLabels
    <3>3. Others(w) /\ job'[w].pc = "reserve" /\ S(w)' = s /\ job'[w].who = o
      BY <2>2, <2>3, <2>5, <3>1, <3>2, <1>GoesBusy
    <3>4. CountInv' /\ RoomInv' /\ ledger'.records = ledger.records /\ ledger'.blocked = ledger.blocked
      BY <2>3, <2>5, <3>1, <3>2, <3>3, <1>ReserveCounts DEF AdmitInv
    <3>5. SafeJob(w)'
      BY <2>5, <3>2, <3>3, <3>4, <1>SafeNow
    <3> QED
      BY <2>1, <2>2, <2>3, <3>3, <3>4, <3>5, <1>SameRecordsAdmit
  <2> QED
    BY <2>2, <2>4, <2>5 DEF ClaimAbsent
<1>UnreserveAdmit.
      ASSUME Inv, AdmitInv, NEW w \in Workers, job[w].pc \in {"reserve", "unreserve"},
             ledger' = release_sandbox(job[w].who), Leave(w, "idle"), disk' = disk, stage' = stage, todo' = todo
      PROVE  AdmitInv'
  <2> USE <1>UnreserveAdmit
  <2>1. /\ job[w].pc \in BusyLabels /\ job[w].pc \in CreateLabels
        /\ job[w].pc \notin MovingLabels /\ job[w].pc \notin LandingLabels
    BY SMTT(30) DEF BusyLabels, CreateLabels, LandingLabels, MovingLabels
  <2>2. w \in Threads
    BY DEF Threads
  <2>3. PICK s \in Sandboxes : s = S(w)
    BY <2>1, <2>2, <1>AtWorkSafe
  <2>4. /\ job[w].pc \in HeldLabels /\ TypeInv /\ job[w].who \in Principals
    BY <2>1, <2>2, <1>AtWorkSafe, WorkerAt
  <2>5. Others(w) /\ job'[w].pc \notin CreateLabels /\ SafeJob(w)'
    BY <2>2, <2>4, <1>GoesOut
  <2>6. CountInv' /\ RoomInv' /\ ledger'.records = ledger.records /\ ledger'.blocked = ledger.blocked
    BY <2>1, <2>4, <2>5, <1>ReleaseCounts DEF AdmitInv
  <2> QED
    BY <2>1, <2>3, <2>4, <2>5, <2>6, <1>SameRecordsAdmit
<1>ReserveIdentityAdmit.
      ASSUME Inv, AdmitInv, NEW w \in Workers, ReserveIdentity(w)
      PROVE  AdmitInv'
  <2> USE <1>ReserveIdentityAdmit
  <2>1. job[w].pc = "reserve" /\ disk' = disk /\ stage' = stage /\ todo' = todo
    BY DEF ReserveIdentity, At, stages
  <2>2. CASE Go(w, "mkdir") /\ ledger' = ledger
    <3>1. /\ job[w].pc \in BusyLabels /\ job[w].pc \in CreateLabels
          /\ job[w].pc \notin MovingLabels /\ job[w].pc \notin LandingLabels
          /\ "mkdir" \in BusyLabels /\ "mkdir" \in CreateLabels /\ "mkdir" \notin NearLabels
          /\ "mkdir" # "forget" /\ "mkdir" # "mark_sync"
      BY SMTT(30), <2>1 DEF BusyLabels, CreateLabels, LandingLabels, MovingLabels, NearLabels, WaitLabels
    <3>2. w \in Threads /\ w # Boot
      BY ManagerAssumption DEF Threads
    <3> QED
      BY <2>1, <2>2, <3>1, <3>2, <1>AtWorkSafe, <1>SameUnmoved, <1>StillGo
  <2>3. CASE ledger' = release_sandbox(job[w].who) /\ Leave(w, "idle")
    BY <2>1, <2>3, <1>UnreserveAdmit
  <2> QED
    BY <2>2, <2>3 DEF ReserveIdentity
<1>PublishAdmit.
      ASSUME Inv, AdmitInv, NEW w \in Workers, Publish(w)
      PROVE  AdmitInv'
  <2> USE <1>PublishAdmit
  <2>1. job[w].pc = "publish" /\ job[w].pc \in BusyLabels /\ job[w].pc \in CreateLabels
    BY DEF Publish, At, BusyLabels, CreateLabels
  <2>2. disk' = disk /\ stage' = stage /\ todo' = todo /\ w \in Threads /\ w # Boot
    BY ManagerAssumption DEF Publish, stages, Threads
  <2>3. PICK s \in Sandboxes : s = S(w)
    BY <2>1, <2>2, <1>AtWorkSafe
  <2>4. /\ job[w].pc \in HeldLabels /\ job[w].pc # "idle" /\ TypeInv /\ s \notin ledger.blocked
        /\ job[w].who \in Principals /\ Creating(w)
    BY <2>1, <2>2, <2>3, <1>AtWorkSafe, WorkerAt DEF Inv
  <2>5. PICK o \in Principals : o = job[w].who
    BY <2>4
  <2>6. PICK m : m = Meta("Active", o)
    OBVIOUS
  <2>7. m \in Metadata /\ m.owner = o /\ m.state = "Active" /\ m.state # "Deleting"
    BY SMTT(30), <2>6 DEF Meta, Metadata
  <2>8. /\ disk[s].dir /\ disk[s].workspace /\ ~disk[s].temp /\ disk[s].metadata = m
        /\ ledger.records[s] = None /\ m # None /\ (Isolated => lease[s] # None)
    BY <2>1, <2>3, <2>4, <2>5, <2>6, <2>7, ManagerAssumption DEF Creating
  <2>9. Others(w) /\ job'[w].pc = "unlock"
    <3>1. CASE Handed(w, m)
      <4>1. Pair(s) \in Pairs \union {None}
        BY SMTT(30), <2>4, <2>8 DEF Pair, TypeInv, Leases
      <4> QED
        BY <2>3, <2>4, <2>7, <3>1, <4>1, HandsOver
    <3>2. CASE Leave(w, "idle")
      BY <2>4, <3>2, Leaves
    <3> QED
      BY <2>5, <2>6, <3>1, <3>2 DEF Publish
  <2>10. job'[w].pc \notin CreateLabels /\ SafeJob(w)'
    <3>1. "unlock" \notin CreateLabels /\ "unlock" \notin BusyLabels
      BY SMTT(30) DEF BusyLabels, CreateLabels, MarkLabels, WaitLabels, DestroyLabels, RemoveLabels
    <3> QED
      BY <2>9, <3>1, <1>SafeAtRest
  <2>11. /\ CountInv' /\ RoomInv' /\ ledger'.records[s] = m /\ ledger'.blocked = ledger.blocked
         /\ \A t \in Sandboxes \ {s} : ledger'.records[t] = ledger.records[t]
    <3>1. ledger' = insert_reserved(s, m)
      BY <2>3, <2>5, <2>6 DEF Publish
    <3> QED
      BY <2>1, <2>4, <2>5, <2>7, <2>8, <2>9, <2>10, <3>1, <1>InsertCounts DEF AdmitInv
  <2>12. SafeAt(s)'
    <3>1. inspect(s)' = "Active"
      BY <2>2, <2>7, <2>8 DEF inspect
    <3>2. s \in Published'
      BY <3>1 DEF Published
    <3> QED
      BY <2>2, <2>4, <2>8, <2>11, <3>2 DEF SafeAt
  <2> QED
    BY <2>2, <2>3, <2>4, <2>9, <2>10, <2>11, <2>12, <1>AdmitStep
(* What claim and delete find published is recorded already.               *)
<1>NoteSafe.
      ASSUME Inv, AdmitInv, NEW w \in Workers, job[w].pc \in {"claim", "delete"}, NEW s \in Sandboxes, s = S(w),
             inspect(s) \in {"Active", "Deleting"}, disk' = disk,
             ledger' = note_valid_record(ledger, s, disk[s].metadata)
      PROVE  /\ s \notin ledger.blocked /\ ledger'.records[s] # None /\ SafeAt(s)'
             /\ ledger'.blocked = ledger.blocked
             /\ ledger'.owner_counts = ledger.owner_counts /\ ledger'.reserved = ledger.reserved
             /\ \A t \in Sandboxes \ {s} : ledger'.records[t] = ledger.records[t]
             /\ ledger.records[s] # None /\ ledger'.records[s].owner = ledger.records[s].owner
  <2> USE <1>NoteSafe
  <2>1. TypeInv /\ SandboxInv(s) /\ SafeAt(s) /\ ~Landing(s)
    BY <1>InspectSafe
  <2>2. PICK m \in Metadata : m = disk[s].metadata /\ m # None
    BY <2>1, Inspected
  <2>3. s \in Published /\ s \notin ledger.blocked /\ ledger.records[s] # None
    <3>1. inspect(s) # "Corrupt"
      BY SMTT(30)
    <3> QED
      BY <2>1, <3>1 DEF SafeAt, Published
  <2>4. ledger.records[s].owner = m.owner
    BY <2>1, <2>2, <2>3 DEF SandboxInv
  <2>5. ledger' = [ledger EXCEPT !.records[s] = m]
    BY <2>2, <2>3, <2>4 DEF note_valid_record, Conflicting
  <2>6. /\ ledger'.records = [ledger.records EXCEPT ![s] = m] /\ ledger'.blocked = ledger.blocked
        /\ ledger'.owner_counts = ledger.owner_counts /\ ledger'.reserved = ledger.reserved
    BY SMTT(30), <2>1, <2>5 DEF TypeInv, Ledgers
  <2>7. ledger'.records[s] = m /\ \A t \in Sandboxes \ {s} : ledger'.records[t] = ledger.records[t]
    BY <2>1, <2>6, LedgerAt
  <2>8. s \in Published' /\ disk'[s].metadata = m
    BY <2>2, <2>3 DEF Published, inspect
  <2>9. SafeAt(s)'
    BY <2>2, <2>3, <2>6, <2>7, <2>8 DEF SafeAt
  <2> QED
    BY <2>2, <2>3, <2>4, <2>6, <2>7, <2>9
<1>NoteAdmit.
      ASSUME Inv, AdmitInv, NEW w \in Workers, job[w].pc \in {"claim", "delete"}, NEW s \in Sandboxes, s = S(w),
             inspect(s) \in {"Active", "Deleting"}, disk' = disk, stage' = stage, todo' = todo,
             ledger' = note_valid_record(ledger, s, disk[s].metadata),
             Others(w), job'[w].pc \notin CreateLabels, SafeJob(w)'
      PROVE  AdmitInv'
  <2> USE <1>NoteAdmit
  <2>1. /\ ledger'.blocked = ledger.blocked /\ SafeAt(s)' /\ ledger'.records[s] # None
        /\ ledger'.owner_counts = ledger.owner_counts /\ ledger'.reserved = ledger.reserved
        /\ \A t \in Sandboxes \ {s} : ledger'.records[t] = ledger.records[t]
        /\ ledger.records[s] # None /\ ledger'.records[s].owner = ledger.records[s].owner
    BY <1>NoteSafe
  <2>2. job[w].pc \in HeldLabels /\ job[w].pc \notin CreateLabels /\ w \in Threads /\ w # Boot
    BY <1>InspectSafe
  <2>3. CountInv' /\ RoomInv'
    BY <2>1, <2>2, <1>ClaimersSame, <1>CountSame DEF AdmitInv
  <2> QED
    BY <2>1, <2>2, <2>3, <1>AdmitStep
<1>OutAtUnlock.
      ASSUME NEW w, job'[w].pc = "unlock"
      PROVE  job'[w].pc \notin CreateLabels /\ SafeJob(w)'
  <2> USE <1>OutAtUnlock
  <2>1. "unlock" \notin CreateLabels /\ "unlock" \notin BusyLabels
    BY SMT DEF BusyLabels, CreateLabels, MarkLabels, WaitLabels, DestroyLabels, RemoveLabels
  <2> QED
    BY <2>1, <1>SafeAtRest
<1>ClaimExistingAdmit.
      ASSUME Inv, AdmitInv, NEW w \in Workers, ClaimExisting(w)
      PROVE  AdmitInv'
  <2> USE <1>ClaimExistingAdmit
  <2>1. job[w].pc \in {"claim", "delete"} /\ disk' = disk /\ stage' = stage /\ todo' = todo
    BY DEF ClaimExisting, At, stages
  <2>2. PICK s \in Sandboxes : s = S(w)
    BY <2>1, <1>InspectSafe
  <2>3. TypeInv /\ job[w].pc # "idle"
    BY <2>1, <1>InspectSafe
  <2>4. inspect(s) = "Active" /\ ledger' = note_valid_record(ledger, s, disk[s].metadata)
    BY <2>2 DEF ClaimExisting
  <2>5. Others(w) /\ job'[w].pc = "unlock"
    <3>1. CASE HasIdentity(s, disk[s].metadata.owner) /\ Handed(w, disk[s].metadata)
      <4>1. disk[s].metadata.owner \in Principals
        BY SMTT(30), <2>3, <2>4, Inspected DEF Metadata
      <4>2. Isolated => lease[s] # None
        BY <3>1 DEF HasIdentity
      <4>3. Pair(s) \in Pairs \union {None}
        BY SMTT(30), <2>3, <4>2 DEF Pair, TypeInv, Leases
      <4> QED
        BY <2>2, <2>3, <3>1, <4>1, <4>3, HandsOver
    <3>2. CASE Leave(w, "idle")
      BY <2>3, <3>2, Leaves
    <3> QED
      BY <2>2, <3>1, <3>2 DEF ClaimExisting
  <2> QED
    BY <2>1, <2>2, <2>4, <2>5, <1>OutAtUnlock, <1>NoteAdmit
<1>RefuseAdmit.
      ASSUME Inv, AdmitInv, NEW w \in Workers, Refuse(w)
      PROVE  AdmitInv'
  <2> USE <1>RefuseAdmit
  <2>1. job[w].pc \in {"claim", "delete"} /\ disk' = disk /\ stage' = stage /\ todo' = todo /\ Leave(w, "idle")
    BY DEF Refuse, At, stages
  <2>2. PICK s \in Sandboxes : s = S(w)
    BY <2>1, <1>InspectSafe
  <2>3. /\ TypeInv /\ job[w].pc # "idle" /\ job[w].pc \in HeldLabels /\ job[w].pc \notin CreateLabels
        /\ w \in Threads /\ w # Boot
    BY <2>1, <1>InspectSafe
  <2>4. Others(w) /\ job'[w].pc = "unlock" /\ job'[w].pc \notin CreateLabels /\ SafeJob(w)'
    BY <2>1, <2>3, Leaves, <1>OutAtUnlock
  <2>5. CASE inspect(s) = "Deleting" /\ ledger' = note_valid_record(ledger, s, disk[s].metadata)
    BY <2>1, <2>2, <2>4, <2>5, <1>NoteAdmit
  <2>6. CASE inspect(s) = "Corrupt" /\ ledger' = Block(ledger, s)
    <3>1. /\ CountInv' /\ RoomInv' /\ ledger'.records[s] = None
          /\ \A t \in Sandboxes \ {s} : ledger'.records[t] = ledger.records[t]
      BY <2>3, <2>4, <2>6, <1>ClaimersSame, <1>ForgetCounts DEF AdmitInv
    <3>2. ledger'.blocked = ledger.blocked \union {s}
      BY <2>3, <2>6, <1>ForgetFields
    <3>3. inspect(s)' = "Corrupt" /\ s \notin Published'
      <4>1. inspect(s)' = "Corrupt"
        BY <2>1, <2>6 DEF inspect
      <4>2. "Corrupt" \notin {"Active", "Deleting"}
        OBVIOUS
      <4> QED
        BY <4>1, <4>2 DEF Published
    <3>4. SafeAt(s)'
      BY <3>1, <3>2, <3>3 DEF SafeAt
    <3> QED
      BY <2>1, <2>2, <2>3, <2>4, <3>1, <3>2, <3>4, <1>AdmitStep
  <2> QED
    BY <2>2, <2>5, <2>6 DEF Refuse
<1>DeletePresentAdmit.
      ASSUME Inv, AdmitInv, NEW w \in Workers, DeletePresent(w)
      PROVE  AdmitInv'
  <2> USE <1>DeletePresentAdmit
  <2>1. job[w].pc \in {"claim", "delete"} /\ disk' = disk /\ stage' = stage /\ todo' = todo
    BY DEF DeletePresent, At, stages
  <2>2. PICK s \in Sandboxes : s = S(w)
    BY <2>1, <1>InspectSafe
  <2>3. TypeInv /\ job[w].pc # "idle"
    BY <2>1, <1>InspectSafe
  <2>4. inspect(s) \in {"Active", "Deleting"} /\ ledger' = note_valid_record(ledger, s, disk[s].metadata)
    BY <2>2 DEF DeletePresent
  <2>5. CASE Leave(w, "idle")
    BY <2>1, <2>2, <2>3, <2>4, <2>5, Leaves, <1>OutAtUnlock, <1>NoteAdmit
  <2>6. CASE /\ Isolated => lease[s] # None
             /\ job' = [job EXCEPT ![w].pc = IF disk[s].metadata.state = "Active" THEN "mark_temp" ELSE "begin_release",
                                   ![w].lease = IF Isolated THEN lease[s].state ELSE None]
    <3>1. PICK p \in {"mark_temp", "begin_release"} :
             p = IF disk[s].metadata.state = "Active" THEN "mark_temp" ELSE "begin_release"
      OBVIOUS
    <3>2. PICK x : x = IF Isolated THEN lease[s].state ELSE None
      OBVIOUS
    <3>3. x \in LeaseStates \union {None}
      BY SMTT(30), <2>3, <2>6, <3>2 DEF TypeInv, Leases
    <3>4. job' = [job EXCEPT ![w].pc = p, ![w].lease = x]
      BY <2>6, <3>1, <3>2
    <3>5. /\ p \in HeldLabels /\ p # "unlock" /\ p \notin CreateLabels /\ p # "forget" /\ p # "mark_sync"
      BY SMTT(30), <3>1 DEF HeldLabels, MarkLabels, WaitLabels, CreateLabels
    <3>6. Others(w) /\ job'[w].pc = p /\ S(w)' = s
      BY <2>2, <2>3, <3>3, <3>4, <3>5, GoesWithLease DEF JobKept
    <3>7. s \notin ledger'.blocked /\ ledger'.records[s] # None
      BY <2>1, <2>2, <2>4, <1>NoteSafe
    <3>8. SafeJob(w)'
      BY <3>5, <3>6, <3>7, <1>SafeNow
    <3> QED
      BY <2>1, <2>2, <2>4, <3>5, <3>6, <3>8, <1>NoteAdmit
  <2> QED
    BY <2>2, <2>5, <2>6 DEF DeletePresent
<1>MarkSyncAdmit.
      ASSUME Inv, AdmitInv, NEW w \in Workers, MarkSync(w)
      PROVE  AdmitInv'
  <2> USE <1>MarkSyncAdmit
  <2>1. /\ job[w].pc = "mark_sync" /\ disk' = disk /\ stage' = stage /\ todo' = todo
        /\ w \in Threads /\ w # Boot
    BY ManagerAssumption DEF MarkSync, At, stages, Threads
  <2>2. job[w].pc \in MarkLabels /\ job[w].pc \in BusyLabels /\ job[w].pc \notin CreateLabels
    BY <2>1, <1>MarkLabelFacts
  <2>3. PICK s \in Sandboxes : s = S(w)
    BY <2>1, <2>2, <1>AtWorkSafe
  <2>4. /\ job[w].pc \in HeldLabels /\ TypeInv /\ s \notin ledger.blocked /\ SandboxInv(s)
        /\ disk[s].metadata.state = "Deleting" /\ ~disk[s].temp
    BY <2>1, <2>2, <2>3, <1>AtWorkSafe DEF SafeJob
  <2>5. ledger.records[s] # None /\ disk[s].metadata # None /\ disk[s].dir
    BY <2>1, <2>2, <2>3 DEF Inv, Deleting
  <2>6. CASE "mark" \in Faults /\ Leave(w, "idle") /\ ledger' = ledger
    BY <2>1, <2>2, <2>3, <2>4, <2>6, <1>SameUnmoved, <1>StillOut DEF Steady
  <2>7. CASE ledger' = [ledger EXCEPT !.records[s].state = "Deleting"] /\ Go(w, "begin_release")
    <3>1. ledger \in Ledgers /\ ledger.records[s] \in Metadata /\ disk[s].metadata \in Metadata
      BY SMTT(30), <2>4, <2>5 DEF TypeInv, Ledgers, Directories
    <3>2. PICK m : m = [ledger.records[s] EXCEPT !.state = "Deleting"]
      OBVIOUS
    <3>3. ledger.records[s].owner = disk[s].metadata.owner
      BY <2>4, <2>5 DEF SandboxInv
    <3>4. m = disk[s].metadata /\ m \in Metadata
      BY SMTT(30), <2>4, <3>1, <3>2, <3>3 DEF Metadata
    <3>5. ledger' = [ledger EXCEPT !.records[s] = m]
      BY SMTT(30), <2>7, <3>1, <3>2 DEF Ledgers
    <3>6. /\ ledger'.records = [ledger.records EXCEPT ![s] = m] /\ ledger'.blocked = ledger.blocked
          /\ ledger'.owner_counts = ledger.owner_counts /\ ledger'.reserved = ledger.reserved
      BY SMTT(30), <3>1, <3>5 DEF Ledgers
    <3>7. ledger'.records[s] = m /\ m # None /\ \A t \in Sandboxes \ {s} : ledger'.records[t] = ledger.records[t]
      BY <2>4, <2>5, <3>4, <3>6, LedgerAt
    <3>8. inspect(s)' = "Deleting"
      BY <2>1, <2>4, <2>5 DEF inspect
    <3>9. SafeAt(s)'
      BY <2>1, <2>4, <3>4, <3>6, <3>7, <3>8 DEF SafeAt, Published
    <3>10. /\ "begin_release" \in BusyLabels /\ "begin_release" \notin CreateLabels
           /\ "begin_release" # "forget" /\ "begin_release" # "mark_sync"
      BY <1>DeleteLabels
    <3>11. Others(w) /\ job'[w].pc = "begin_release" /\ S(w)' = s
      BY <2>1, <2>3, <2>4, <2>7, <3>10, <1>GoesBusy
    <3>12. SafeJob(w)'
      BY <2>4, <3>6, <3>7, <3>10, <3>11, <1>SafeNow
    <3>13. CountInv' /\ RoomInv'
      <4>1. \A v \in Workers : /\ job'[v].pc \in CreateLabels <=> job[v].pc \in CreateLabels
                               /\ job[v].pc \in CreateLabels => job'[v].who = job[v].who
        BY <2>1, <2>2, <3>10, <3>11, <1>ClaimersSame
      <4> QED
        BY <2>5, <3>3, <3>4, <3>6, <3>7, <4>1, <1>CountSame DEF AdmitInv
    <3> QED
      BY <2>1, <2>3, <2>4, <3>6, <3>7, <3>9, <3>11, <3>12, <3>13, <1>AdmitStep
  <2> QED
    BY <2>3, <2>6, <2>7 DEF MarkSync, Fails
<1>ForgetAdmit.
      ASSUME Inv, AdmitInv, NEW w \in Threads, Forget(w)
      PROVE  AdmitInv'
  <2> USE <1>ForgetAdmit
  <2>1. /\ job[w].pc = "forget" /\ disk' = disk /\ stage' = stage /\ todo' = todo /\ GiveUp(w)
        /\ job[w].pc \in BusyLabels /\ job[w].pc \notin CreateLabels
    BY <1>DeleteLabels DEF Forget, At, stages
  <2>2. PICK s \in Sandboxes : s = S(w)
    BY <2>1, <1>AtWorkSafe
  <2>3. /\ job[w].pc \in HeldLabels /\ TypeInv /\ s \notin ledger.blocked /\ disk[s].metadata = None
    BY <2>1, <2>2, <1>AtWorkSafe DEF SafeJob
  <2>4. /\ Others(w) /\ SafeJob(w)' /\ job'[w].pc \notin CreateLabels
        /\ w = Boot => job'[w].pc = "idle"
    BY <2>1, <2>3, <1>GoesOut
  <2>5. ledger' = remove_record_from_ledger(ledger, s)
    BY <2>2 DEF Forget
  <2>6. /\ CountInv' /\ RoomInv' /\ ledger'.records[s] = None
        /\ \A t \in Sandboxes \ {s} : ledger'.records[t] = ledger.records[t]
    BY <2>1, <2>3, <2>4, <2>5, <1>ClaimersSame, <1>ForgetCounts DEF AdmitInv
  <2>7. ledger'.blocked = ledger.blocked
    BY <2>3, <2>5, <1>ForgetFields
  <2>8. SafeAt(s)'
    BY <2>1, <2>3, <2>6, <2>7, <1>Unpublishes DEF SafeAt
  <2> QED
    BY <2>1, <2>2, <2>3, <2>4, <2>6, <2>7, <2>8, <1>AdmitStep
<1>DeletesAdmit.
      ASSUME Inv, Inv', AdmitInv, NEW w \in Threads, Deletes(w)
      PROVE  AdmitInv'
  BY <1>DeletesAdmit, <1>ReleaseAdmit, <1>RemoveStepAdmit, <1>ForgetAdmit DEF Deletes
<1>StepAdmit.
      ASSUME "sync" \notin Faults, Inv, Inv', AdmitInv, NEW w \in Workers, Step(w)
      PROVE  AdmitInv'
  <2> USE <1>StepAdmit
  <2>1. w \in Threads
    BY DEF Threads
  <2>2. CASE Lock(w) \/ Unlock(w)
    BY <2>2, <1>RequestAdmit
  <2>3. CASE ClaimExisting(w) \/ Refuse(w) \/ ClaimAbsent(w) \/ ReserveIdentity(w)
    BY <2>3, <1>ClaimExistingAdmit, <1>RefuseAdmit, <1>ClaimAbsentAdmit, <1>ReserveIdentityAdmit
  <2>4. CASE CreateStep(w) \/ CreateSync(w) \/ Publish(w) \/ Abort(w) \/ AbortFree(w)
    BY <2>4, <1>CreateStepAdmit, <1>ClaimAdmit, <1>PublishAdmit
  <2>5. CASE Unreserve(w)
    BY <2>5, <1>UnreserveAdmit DEF Unreserve, At, stages
  <2>6. CASE DeleteAbsent(w) \/ DeletePresent(w) \/ MarkTemp(w) \/ MarkRename(w) \/ MarkSync(w)
    BY <2>6, <1>DeleteAbsentAdmit, <1>DeletePresentAdmit, <1>MarkTempAdmit, <1>MarkRenameAdmit, <1>MarkSyncAdmit
  <2>7. CASE Cancel(w) \/ Wait(w) \/ Deletes(w)
    BY <2>1, <2>7, <1>WaitAdmit, <1>DeletesAdmit
  <2>8. CASE begin_launch(w) \/ Spawn(w) \/ finish_launch(w) \/ Terminate(w)
    BY <2>8, <1>LaunchAdmit
  <2> QED
    BY <2>2, <2>3, <2>4, <2>5, <2>6, <2>7, <2>8 DEF Step
<1>1. ASSUME NEW w \in Workers, Begin(w) \/ Step(w) \/ Unpublished(w) \/ EndChannel(w) \/ Exit(w)
      PROVE  AdmitInv'
  BY <1>1, <1>RequestAdmit, <1>StepAdmit, <1>LaunchAdmit, <1>ExitAdmit
<1>2. CASE Startup
  BY <1>2, <1>RecoverAdmit, <1>ReconcileDeletingAdmit, <1>DeletesAdmit DEF Startup, Threads
<1>3. CASE Freeze \/ Snapshot \/ Stop \/ ForceShutdown
  BY <1>3, <1>ShutdownAdmit
<1>4. CASE UNCHANGED vars
  BY <1>4, <1>ExitAdmit
<1> QED
  BY <1>1, <1>2, <1>3, <1>4 DEF Next

-----------------------------------------------------------------------------
(* claim.                                                                  *)

LEMMA ClaimExistingInv ==
  ASSUME Inv, NEW w \in Workers, ClaimExisting(w)
  PROVE  Inv'
<1>1. job[w].pc = "claim" /\ job[w].pc \in HeldLabels
  BY DEF ClaimExisting, At, HeldLabels
<1>2. PICK s \in Sandboxes : s = S(w)
  BY <1>1, AtWork
<1>3. TypeInv /\ job[w].pc # "idle" /\ w \in Threads /\ w # Boot
  BY <1>1, AtWork
<1>4. /\ inspect(s) = "Active" /\ ledger' = note_valid_record(ledger, s, disk[s].metadata)
      /\ disk' = disk /\ lease' = lease /\ process' = process /\ UNCHANGED <<locks, stage, todo>>
  BY <1>2 DEF ClaimExisting, stages
<1>5. LedgerKept(s) /\ LeaseKept(s) /\ ProcessKept
  BY <1>1, <1>2, <1>3, <1>4, NoteStep, SameLease, SameProcesses
<1>6. JobKept(w) /\ Creating(w)' /\ Deleting(w)'
  <2>1. CASE HasIdentity(s, disk[s].metadata.owner) /\ Handed(w, disk[s].metadata)
    <3>1. disk[s].metadata.owner \in Principals
      BY SMTT(30), <1>3, <1>4, Inspected DEF Metadata
    <3>2. Isolated => lease[s] # None
      BY <2>1 DEF HasIdentity
    <3>3. Pair(s) \in Pairs \union {None}
      BY SMTT(30), <1>3, <3>2 DEF Pair, TypeInv, Leases
    <3> QED
      BY <1>2, <1>3, <2>1, <3>1, <3>3, HandsOverKept
  <2>2. CASE Leave(w, "idle")
    BY <1>3, <2>2, LeavesKept
  <2> QED
    BY <1>2, <2>1, <2>2 DEF ClaimExisting
<1> QED
  BY <1>1, <1>2, <1>3, <1>4, <1>5, <1>6, KeptStep

LEMMA RefuseInv ==
  ASSUME Inv, NEW w \in Workers, Refuse(w)
  PROVE  Inv'
<1>1. job[w].pc \in {"claim", "delete"} /\ job[w].pc \in HeldLabels
  BY DEF Refuse, At, HeldLabels
<1>2. PICK s \in Sandboxes : s = S(w)
  BY <1>1, AtWork
<1>3. TypeInv /\ job[w].pc # "idle" /\ w \in Threads /\ w # Boot
  BY <1>1, AtWork
<1>4. /\ disk' = disk /\ lease' = lease /\ process' = process /\ UNCHANGED <<locks, stage, todo>>
      /\ Leave(w, "idle")
  BY DEF Refuse, stages
<1>5. LedgerKept(s)
  <2>1. CASE inspect(s) = "Corrupt" /\ ledger' = Block(ledger, s)
    <3>1. NoToken(s)
      <4> SUFFICES ASSUME NEW v \in Workers, ledger.runtime[v] # None, ledger.runtime[v].sandbox = s PROVE FALSE
        BY DEF NoToken
      <4>1. Usable(s)
        BY DEF Inv, LaunchInv
      <4>2. ~disk[s].temp
        BY <1>1, <1>2, <1>3, <4>1, Settled
      <4> QED
        BY <1>3, <2>1, <4>1, <4>2, Inspected DEF Usable
    <3>2. Records(ledger', s, None)
      BY <1>3, <2>1, <3>1, Forgets
    <3> QED
      BY <3>2 DEF Records, LedgerKept, RuntimeShrinks
  <2>2. CASE inspect(s) = "Deleting" /\ ledger' = note_valid_record(ledger, s, disk[s].metadata)
    BY <1>1, <1>2, <2>2, NoteStep
  <2> QED
    BY <1>2, <2>1, <2>2 DEF Refuse
<1>6. LeaseKept(s) /\ ProcessKept /\ JobKept(w) /\ Creating(w)' /\ Deleting(w)'
  BY <1>3, <1>4, SameLease, SameProcesses, LeavesKept
<1> QED
  BY <1>1, <1>2, <1>3, <1>4, <1>5, <1>6, KeptStep

(* What a thread that goes on has to know of its sandbox.                  *)
LEMMA CreatesNow ==
  ASSUME NEW w, NEW s, S(w)' = s, NEW p \in CreateLabels, job'[w].pc = p,
         ledger'.records[s] = None, NoToken(s)', NoProcess(s)',
         p \in {"reserve", "mkdir"} => ~disk'[s].dir,
         p \in {"workspace", "temp", "rename"} => disk'[s].dir /\ disk'[s].metadata = None,
         p \in {"temp", "rename"} => disk'[s].workspace,
         p \in {"sync", "publish"} => /\ disk'[s].dir /\ disk'[s].workspace /\ ~disk'[s].temp
                                      /\ disk'[s].metadata = Meta("Active", job'[w].who),
         p \in {"abort", "abort_free"} /\ "sync" \notin Faults => disk'[s].metadata = None,
         p = "abort_free" => Isolated,
         p \in CreateLabels \ {"reserve", "unreserve"} /\ Isolated =>
            lease'[s] # None /\ lease'[s].owner = job'[w].who
  PROVE  Creating(w)' /\ Deleting(w)'
<1>1. p \notin MarkLabels \union WaitLabels \union DestroyLabels
  BY DEF CreateLabels, MarkLabels, WaitLabels, DestroyLabels, RemoveLabels
<1>2. Deleting(w)'
  BY <1>1 DEF Deleting, WaitLabels, DestroyLabels, RemoveLabels
<1>3. Creating(w)'
  BY DEF Creating
<1> QED
  BY <1>2, <1>3

LEMMA DeletesNow ==
  ASSUME NEW w, NEW s, S(w)' = s,
         NEW p \in MarkLabels \union WaitLabels \union DestroyLabels, job'[w].pc = p,
         p \in MarkLabels => disk'[s].dir /\ disk'[s].metadata # None /\ ledger'.records[s] # None,
         p \notin MarkLabels => Closed(s)',
         p \in MarkLabels \union {"begin_release"} /\ job'[w].lease # None => lease'[s] # None,
         p \in DestroyLabels => NoToken(s)',
         p \in RemoveLabels => NoProcess(s)',
         p \in {"rmdir", "root_sync", "finish_release"} => disk'[s].metadata = None,
         p \in {"children", "unlink", "rmdir"} => disk'[s].dir
  PROVE  Creating(w)' /\ Deleting(w)'
<1>1. p \notin CreateLabels /\ (p \in WaitLabels \union DestroyLabels => p \notin MarkLabels)
  BY DEF CreateLabels, MarkLabels, WaitLabels, DestroyLabels, RemoveLabels
<1>2. Creating(w)'
  BY <1>1 DEF Creating, CreateLabels
<1>3. Deleting(w)'
  BY <1>1 DEF Deleting
<1> QED
  BY <1>2, <1>3

LEMMA Reserves ==
  ASSUME TypeInv, NEW o \in Principals, ledger' \in {reserve_sandbox(o), release_sandbox(o)}
  PROVE  ledger' \in Ledgers /\ ledger'.records = ledger.records /\ ledger'.runtime = ledger.runtime
<1>1. ledger \in Ledgers
  BY DEF TypeInv
<1>2. ASSUME NEW L \in Ledgers, NEW n \in Int, L.records = ledger.records, L.runtime = ledger.runtime,
             ledger' = [L EXCEPT !.reserved = n]
      PROVE  ledger' \in Ledgers /\ ledger'.records = ledger.records /\ ledger'.runtime = ledger.runtime
  BY SMT, <1>2 DEF Ledgers
<1>3. ASSUME NEW n \in Int, NEW k \in Int, ledger' = [Count(ledger, o, n) EXCEPT !.reserved = @ + k]
      PROVE  ledger' \in Ledgers /\ ledger'.records = ledger.records /\ ledger'.runtime = ledger.runtime
  <2>0. PICK L : L = Count(ledger, o, n)
    OBVIOUS
  <2>1. L \in Ledgers /\ L.records = ledger.records /\ L.runtime = ledger.runtime
    BY SMTT(30), <1>1, <2>0 DEF Count, Ledgers
  <2>2. PICK m \in Int : m = L.reserved + k
    BY SMTT(30), <2>1 DEF Ledgers
  <2> QED
    BY <1>2, <1>3, <2>0, <2>1, <2>2
<1>4. CASE ledger' = reserve_sandbox(o)
  BY SMTT(30), <1>3, <1>4 DEF reserve_sandbox
<1>5. CASE ledger' = release_sandbox(o)
  <2>1. ledger' = [Count(ledger, o, -1) EXCEPT !.reserved = @ + (-1)]
    <3>1. Count(ledger, o, -1) \in Ledgers
      BY SMTT(30), <1>1 DEF Count, Ledgers
    <3>2. Count(ledger, o, -1).reserved \in Int
      BY SMT, <3>1 DEF Ledgers
    <3> QED
      BY SMTT(30), <1>5, <3>2 DEF release_sandbox
  <2> QED
    BY SMTT(30), <1>3, <2>1
<1> QED
  BY <1>4, <1>5

LEMMA ClaimAbsentInv ==
  ASSUME Inv, NEW w \in Workers, ClaimAbsent(w)
  PROVE  Inv'
<1>1. job[w].pc = "claim" /\ job[w].pc \in HeldLabels
  BY DEF ClaimAbsent, At, HeldLabels
<1>2. PICK s \in Sandboxes : s = S(w)
  BY <1>1, AtWork
<1>3. TypeInv /\ job[w].pc # "idle" /\ w \in Threads /\ w # Boot /\ job[w].who \in Principals
  BY <1>1, AtWork, WorkerAt
<1>4. /\ inspect(s) = "Absent"
      /\ disk' = disk /\ lease' = lease /\ process' = process /\ UNCHANGED <<locks, stage, todo>>
  BY <1>2 DEF ClaimAbsent, stages
<1>5. ~disk[s].dir /\ NoToken(s) /\ NoProcess(s)
  BY <1>3, <1>4, Inspected, AbsentIsFree
<1>6. LeaseKept(s) /\ ProcessKept
  BY <1>3, <1>4, SameLease, SameProcesses
<1>7. CASE Leave(w, "idle") /\ ledger' = ledger
  BY <1>1, <1>2, <1>3, <1>4, <1>6, <1>7, SameLedger, LeavesKept, KeptStep
<1>8. CASE Go(w, "reserve") /\ ledger' = reserve_sandbox(job[w].who) /\ ledger.records[s] = None
  <2>1. JobKept(w) /\ job'[w].pc = "reserve" /\ S(w)' = s
    BY <1>2, <1>3, <1>8, GoesKept DEF Went, HeldLabels, CreateLabels
  <2>2. ledger' \in Ledgers /\ ledger'.records = ledger.records /\ ledger'.runtime = ledger.runtime
    BY <1>3, <1>8, Reserves
  <2>3. NoToken(s)' /\ NoProcess(s)'
    BY <1>4, <1>5, <2>2 DEF NoToken, NoProcess
  <2>4. Creating(w)' /\ Deleting(w)'
    BY <1>4, <1>5, <1>8, <2>1, <2>2, <2>3, CreatesNow DEF CreateLabels
  <2> QED
    BY <1>1, <1>2, <1>3, <1>4, <1>6, <2>1, <2>2, <2>4, SameRecords, KeptStep
<1> QED
  BY <1>2, <1>7, <1>8 DEF ClaimAbsent

(* Storage::create_active.                                                 *)
LEMMA CreateStepInv ==
  ASSUME Inv, NEW w \in Workers, CreateStep(w)
  PROVE  Inv'
<1>1. /\ job[w].pc \in {"mkdir", "workspace", "temp", "rename"}
      /\ job[w].pc \in HeldLabels /\ job[w].pc \in CreateLabels /\ job[w].pc \notin {"reserve", "unreserve"}
  <2>1. job[w].pc \in {"mkdir", "workspace", "temp", "rename"}
    BY SMT DEF CreateStep, AfterCreate
  <2> QED
    BY <2>1 DEF HeldLabels, CreateLabels
<1>2. PICK s \in Sandboxes : s = S(w)
  BY <1>1, AtWork
<1>3. /\ TypeInv /\ job[w].pc # "idle" /\ w \in Threads /\ w # Boot /\ job[w].who \in Principals
      /\ Creating(w) /\ SandboxInv(s)
  BY <1>1, <1>2, AtWork, WorkerAt
<1>4. lease' = lease /\ ledger' = ledger /\ process' = process /\ UNCHANGED <<locks, stage, todo>>
  BY DEF CreateStep, stages
<1>5. PICK d \in Directories : d = disk[s]
  BY <1>3 DEF TypeInv
<1>6. /\ ledger.records[s] = None /\ NoToken(s) /\ NoProcess(s)
      /\ job[w].pc = "mkdir" => ~d.dir
      /\ job[w].pc \in {"workspace", "temp", "rename"} => d.dir /\ d.metadata = None
      /\ job[w].pc \in {"temp", "rename"} => d.workspace
      /\ Isolated => lease[s] # None /\ lease[s].owner = job[w].who
  BY <1>1, <1>2, <1>3, <1>5 DEF Creating
<1>7. (job[w].pc = "mkdir" => d = Empty /\ ~d.temp) /\ d.metadata = None
  <2>1. Empty.metadata = None /\ ~Empty.temp
    BY SMT DEF Empty
  <2> QED
    BY <1>1, <1>3, <1>5, <1>6, <2>1 DEF SandboxInv
<1>8. PICK m : m = Meta("Active", job[w].who)
  OBVIOUS
<1>9. m \in Metadata /\ m.owner = job[w].who
  BY SMTT(30), <1>3, <1>8 DEF Meta, Metadata
<1>10. ASSUME NEW e \in Directories, SetDisk(s, e), e.dir \/ e = Empty,
              NEW p \in CreateLabels, p # "reserve", Go(w, p),
              \/ e.metadata = None \/ e.metadata = m,
              p = "mkdir" => ~e.dir,
              p \in {"workspace", "temp", "rename"} => e.dir /\ e.metadata = None,
              p \in {"temp", "rename"} => e.workspace,
              p \in {"sync", "publish"} => e.dir /\ e.workspace /\ ~e.temp /\ e.metadata = m,
              p = "abort" => e.metadata = None, p # "abort_free"
       PROVE  Inv'
  <2>1. JobKept(w) /\ job'[w].pc = p /\ S(w)' = s /\ job'[w].who = job[w].who
    BY <1>2, <1>3, <1>10, GoesKept DEF Went, HeldLabels, CreateLabels
  <2>2. /\ disk' \in [Sandboxes -> Directories] /\ disk'[s] = e
        /\ \A t \in Sandboxes \ {s} : disk'[t] = disk[t]
    BY <1>3, <1>10, SetsDisk
  <2>3. LeaseKept(s) /\ LedgerKept(s) /\ ProcessKept
    BY <1>3, <1>4, SameLease, SameLedger, SameProcesses
  <2>4. TypeInv' /\ Local(w)
    BY <1>2, <1>3, <1>4, <2>1, <2>2, <2>3, Types DEF LeaseKept, LedgerKept, ProcessKept, JobKept, Local
  <2>5. NoToken(s)' /\ NoProcess(s)'
    BY <1>4, <1>6 DEF NoToken, NoProcess
  <2>6. Creating(w)' /\ Deleting(w)'
    BY <1>4, <1>6, <1>8, <1>10, <2>1, <2>2, <2>5, CreatesNow
  <2>7. SandboxInv(s)'
    BY <1>4, <1>6, <1>9, <1>10, <2>2 DEF SandboxInv, Empty
  <2> QED
    BY <1>1, <1>2, <1>3, <1>6, <2>1, <2>4, <2>6, <2>7, HeldStep DEF JobKept
<1>11. CASE Fails("create") /\ SetDisk(s, [d EXCEPT !.temp = FALSE]) /\ Go(w, "abort")
  <2>1. PICK e : e = [d EXCEPT !.temp = FALSE]
    OBVIOUS
  <2>2. e \in Directories /\ e.dir = d.dir /\ e.metadata = d.metadata
    BY <2>1 DEF Directories
  <2>3. ~d.temp => e = d
    BY SMT, <2>1 DEF Directories
  <2>4. job[w].pc = "mkdir" => e = Empty
    BY <1>7, <2>3
  <2> QED
    BY <1>1, <1>6, <1>7, <1>10, <1>11, <2>1, <2>2, <2>4 DEF CreateLabels
<1>12. CASE job[w].pc = "mkdir" /\ SetDisk(s, [d EXCEPT !.dir = TRUE]) /\ Go(w, "workspace")
  <2>1. PICK e : e = [d EXCEPT !.dir = TRUE]
    OBVIOUS
  <2>2. e \in Directories /\ e.dir /\ e.metadata = d.metadata
    BY <2>1 DEF Directories
  <2> QED
    BY <1>7, <1>10, <1>12, <2>1, <2>2 DEF CreateLabels
<1>13. CASE job[w].pc = "workspace" /\ SetDisk(s, [d EXCEPT !.workspace = TRUE]) /\ Go(w, "temp")
  <2>1. PICK e : e = [d EXCEPT !.workspace = TRUE]
    OBVIOUS
  <2>2. e \in Directories /\ e.dir = d.dir /\ e.workspace /\ e.metadata = d.metadata
    BY <2>1 DEF Directories
  <2> QED
    BY <1>6, <1>7, <1>10, <1>13, <2>1, <2>2 DEF CreateLabels
<1>14. CASE job[w].pc = "temp" /\ SetDisk(s, [d EXCEPT !.temp = TRUE]) /\ Go(w, "rename")
  <2>1. PICK e : e = [d EXCEPT !.temp = TRUE]
    OBVIOUS
  <2>2. e \in Directories /\ e.dir = d.dir /\ e.workspace = d.workspace /\ e.metadata = d.metadata
    BY <2>1 DEF Directories
  <2> QED
    BY <1>6, <1>7, <1>10, <1>14, <2>1, <2>2 DEF CreateLabels
<1>15. CASE job[w].pc = "rename" /\ SetDisk(s, [d EXCEPT !.temp = FALSE, !.metadata = m]) /\ Go(w, "sync")
  <2>1. PICK e : e = [d EXCEPT !.temp = FALSE, !.metadata = m]
    OBVIOUS
  <2>2. e \in Directories /\ e.dir = d.dir /\ e.workspace = d.workspace /\ ~e.temp /\ e.metadata = m
    BY <1>9, <2>1 DEF Directories
  <2> QED
    BY <1>6, <1>7, <1>10, <1>15, <2>1, <2>2 DEF CreateLabels
<1>16. /\ AfterCreate["mkdir"] = "workspace" /\ AfterCreate["workspace"] = "temp"
       /\ AfterCreate["temp"] = "rename" /\ AfterCreate["rename"] = "sync"
  BY SMT DEF AfterCreate
<1>17. /\ Created(d, "mkdir", job[w].who) = [d EXCEPT !.dir = TRUE]
       /\ Created(d, "workspace", job[w].who) = [d EXCEPT !.workspace = TRUE]
       /\ Created(d, "temp", job[w].who) = [d EXCEPT !.temp = TRUE]
       /\ Created(d, "rename", job[w].who) = [d EXCEPT !.temp = FALSE, !.metadata = m]
  BY SMT, <1>8 DEF Created
<1>18. \/ Fails("create") /\ SetDisk(s, [d EXCEPT !.temp = FALSE]) /\ Go(w, "abort")
       \/ SetDisk(s, Created(d, job[w].pc, job[w].who)) /\ Go(w, AfterCreate[job[w].pc])
  BY <1>2, <1>5 DEF CreateStep
<1> QED
  BY <1>1, <1>11, <1>12, <1>13, <1>14, <1>15, <1>16, <1>17, <1>18

(* A claim that goes on without touching its directory.                    *)
LEMMA ClaimGoesOn ==
  ASSUME Inv, NEW w \in Workers, NEW s, s = S(w),
         disk' = disk, ledger' = ledger, process' = process, UNCHANGED <<locks, stage, todo>>,
         LeaseKept(s), NEW p, Go(w, p),
         \/ job[w].pc = "sync" /\ p = "publish"
         \/ job[w].pc = "sync" /\ p = "abort" /\ "sync" \in Faults
         \/ job[w].pc = "abort" /\ p = "abort_free" /\ Isolated
         \/ job[w].pc \in {"abort", "abort_free"} /\ p = "unreserve",
         p # "unreserve" /\ Isolated /\ lease[s] # None /\ lease[s].owner = job[w].who =>
            lease'[s] # None /\ lease'[s].owner = job[w].who
  PROVE  Inv'
<1>1. /\ job[w].pc \in HeldLabels /\ job[w].pc \in CreateLabels /\ job[w].pc # "mark_rename"
      /\ p \in HeldLabels /\ p \in CreateLabels /\ p \notin {"reserve", "mkdir", "workspace", "temp", "rename", "sync", "unlock"}
      /\ job[w].pc \notin {"reserve", "unreserve"}
  BY DEF HeldLabels, CreateLabels
<1>2. /\ TypeInv /\ job[w].pc # "idle" /\ w \in Threads /\ w # Boot /\ s \in Sandboxes /\ Creating(w)
  BY <1>1, AtWork
<1>3. JobKept(w) /\ job'[w].pc = p /\ S(w)' = s /\ job'[w].who = job[w].who
  BY <1>1, <1>2, GoesKept DEF Went
<1>4. /\ ledger.records[s] = None /\ NoToken(s) /\ NoProcess(s)
      /\ Isolated => lease[s] # None /\ lease[s].owner = job[w].who
      /\ job[w].pc = "sync" => /\ disk[s].dir /\ disk[s].workspace /\ ~disk[s].temp
                               /\ disk[s].metadata = Meta("Active", job[w].who)
      /\ job[w].pc = "abort" /\ "sync" \notin Faults => disk[s].metadata = None
  BY <1>1, <1>2 DEF Creating
<1>5. NoToken(s)' /\ NoProcess(s)'
  BY <1>4 DEF NoToken, NoProcess
<1>6. Creating(w)' /\ Deleting(w)'
  BY <1>1, <1>3, <1>4, <1>5, CreatesNow
<1>7. LedgerKept(s) /\ ProcessKept
  BY <1>2, SameLedger, SameProcesses
<1> QED
  BY <1>1, <1>2, <1>3, <1>6, <1>7, KeptStep

LEMMA CreateSyncInv ==
  ASSUME Inv, NEW w \in Workers, CreateSync(w)
  PROVE  Inv'
<1>1. PICK s : s = S(w)
  OBVIOUS
<1>2. /\ job[w].pc = "sync" /\ lease' = lease
      /\ disk' = disk /\ ledger' = ledger /\ process' = process /\ UNCHANGED <<locks, stage, todo>>
  BY DEF CreateSync, At, stages
<1>3. LeaseKept(s)
  BY <1>2, SameLease DEF Inv
<1> QED
  BY <1>1, <1>2, <1>3, ClaimGoesOn DEF CreateSync, Fails

LEMMA AbortInv ==
  ASSUME Inv, NEW w \in Workers, Abort(w)
  PROVE  Inv'
<1>1. job[w].pc = "abort" /\ job[w].pc \in HeldLabels /\ job[w].pc \in CreateLabels
  BY DEF Abort, At, HeldLabels, CreateLabels
<1>2. PICK s \in Sandboxes : s = S(w)
  BY <1>1, AtWork
<1>3. disk' = disk /\ ledger' = ledger /\ process' = process /\ UNCHANGED <<locks, stage, todo>>
  BY DEF Abort, stages
<1>4. TypeInv /\ Creating(w)
  BY <1>1, AtWork
<1>5. Isolated => lease[s] # None
  BY <1>1, <1>2, <1>4 DEF Creating
<1>6. ASSUME NEW state \in LeaseStates, Isolated, SetLease(s, state)
      PROVE  LeaseKept(s) /\ lease'[s] # None /\ lease'[s].owner = lease[s].owner
  BY <1>4, <1>5, <1>6, MovesLease DEF LeaseKept
<1>7. CASE ~Isolated /\ Go(w, "unreserve") /\ lease' = lease
  <2>1. LeaseKept(s)
    BY <1>4, <1>7, SameLease
  <2> QED
    BY <1>1, <1>2, <1>3, <1>7, <2>1, ClaimGoesOn
<1>8. CASE Isolated /\ Go(w, "abort_free") /\ SetLease(s, "Releasing")
  <2>1. LeaseKept(s) /\ lease'[s] # None /\ lease'[s].owner = lease[s].owner
    BY <1>6, <1>8 DEF LeaseStates
  <2> QED
    BY <1>1, <1>2, <1>3, <1>8, <2>1, ClaimGoesOn
<1>9. CASE Isolated /\ Go(w, "unreserve") /\ \E state \in LeaseStates : SetLease(s, state)
  <2>1. LeaseKept(s)
    BY <1>6, <1>9
  <2> QED
    BY <1>1, <1>2, <1>3, <1>9, <2>1, ClaimGoesOn
<1> QED
  BY <1>2, <1>7, <1>8, <1>9 DEF Abort, LeaseStates

LEMMA AbortFreeInv ==
  ASSUME Inv, NEW w \in Workers, AbortFree(w)
  PROVE  Inv'
<1>1. job[w].pc = "abort_free" /\ job[w].pc \in HeldLabels /\ job[w].pc \in CreateLabels
  BY DEF AbortFree, At, HeldLabels, CreateLabels
<1>2. PICK s \in Sandboxes : s = S(w)
  BY <1>1, AtWork
<1>3. /\ disk' = disk /\ ledger' = ledger /\ process' = process /\ UNCHANGED <<locks, stage, todo>>
      /\ Go(w, "unreserve")
  BY DEF AbortFree, stages
<1>4. TypeInv /\ Creating(w)
  BY <1>1, AtWork
<1>5. (disk[s].metadata = None \/ "sync" \in Faults) /\ lease[s] # None
  BY <1>1, <1>2, <1>4 DEF Creating
<1>6. LeaseKept(s)
  <2>1. CASE lease' = [lease EXCEPT ![s] = None]
    BY <1>4, <1>5, <2>1, SetsLease DEF LeaseKept
  <2>2. CASE lease' = lease
    BY <1>4, <2>2, SameLease
  <2>3. CASE SetLease(s, "Quarantined")
    BY <1>4, <1>5, <2>3, MovesLease DEF LeaseKept, LeaseStates
  <2> QED
    BY <1>2, <2>1, <2>2, <2>3 DEF AbortFree, MaySetLease
<1> QED
  BY <1>1, <1>2, <1>3, <1>6, ClaimGoesOn

LEMMA UnreserveInv ==
  ASSUME Inv, NEW w \in Workers, Unreserve(w)
  PROVE  Inv'
<1>1. job[w].pc = "unreserve" /\ job[w].pc \in HeldLabels
  BY DEF Unreserve, At, HeldLabels, CreateLabels
<1>2. PICK s \in Sandboxes : s = S(w)
  BY <1>1, AtWork
<1>3. TypeInv /\ job[w].pc # "idle" /\ w \in Threads /\ w # Boot /\ job[w].who \in Principals
  BY <1>1, AtWork, WorkerAt
<1>4. /\ disk' = disk /\ lease' = lease /\ process' = process /\ UNCHANGED <<locks, stage, todo>>
      /\ ledger' = release_sandbox(job[w].who) /\ Leave(w, "idle")
  BY DEF Unreserve, stages
<1>5. LedgerKept(s) /\ LeaseKept(s) /\ ProcessKept
  BY <1>3, <1>4, Reserves, SameRecords, SameLease, SameProcesses
<1>6. JobKept(w) /\ Creating(w)' /\ Deleting(w)'
  BY <1>3, <1>4, LeavesKept
<1> QED
  BY <1>1, <1>2, <1>3, <1>4, <1>5, <1>6, KeptStep

LEMMA PublishInv ==
  ASSUME Inv, NEW w \in Workers, Publish(w)
  PROVE  Inv'
<1>1. job[w].pc = "publish" /\ job[w].pc \in HeldLabels /\ job[w].pc \in CreateLabels
  BY DEF Publish, At, HeldLabels, CreateLabels
<1>2. PICK s \in Sandboxes : s = S(w)
  BY <1>1, AtWork
<1>3. /\ TypeInv /\ job[w].pc # "idle" /\ w \in Threads /\ w # Boot /\ job[w].who \in Principals
      /\ Creating(w)
  BY <1>1, AtWork, WorkerAt
<1>4. disk' = disk /\ process' = process /\ UNCHANGED <<locks, stage, todo>>
  BY DEF Publish, stages
<1>5. PICK m : m = Meta("Active", job[w].who)
  OBVIOUS
<1>6. m \in Metadata /\ m.owner \in Principals
  BY SMTT(30), <1>3, <1>5 DEF Meta, Metadata
<1>7. /\ disk[s].dir /\ disk[s].workspace /\ ~disk[s].temp /\ disk[s].metadata = m
      /\ Isolated => lease[s] # None
  BY <1>1, <1>2, <1>3, <1>5 DEF Creating
<1>8. m # None
  BY <1>6, ManagerAssumption
<1>9. LedgerKept(s)
  <2>0. PICK n \in Int : n = ledger.reserved - 1
    BY SMTT(30), <1>3, LedgerAt
  <2>1. ledger' = [ledger EXCEPT !.reserved = n, !.records[s] = m]
    BY <1>2, <1>5, <2>0 DEF Publish, insert_reserved
  <2>2. /\ ledger' \in Ledgers /\ ledger'.runtime = ledger.runtime
        /\ ledger'.records = [ledger.records EXCEPT ![s] = m]
    <3>1. ledger \in Ledgers
      BY <1>3 DEF TypeInv
    <3> QED
      BY <1>6, <2>1, <3>1 DEF Ledgers
  <2>3. ledger'.records[s] = m /\ \A t \in Sandboxes \ {s} : ledger'.records[t] = ledger.records[t]
    BY <1>3, <2>2, LedgerAt
  <2> QED
    BY <1>7, <1>8, <2>2, <2>3 DEF LedgerKept, RuntimeShrinks
<1>10. LeaseKept(s)
  <2>1. CASE lease' = lease
    BY <1>3, <2>1, SameLease
  <2>2. CASE Isolated /\ SetLease(s, "Quarantined")
    BY <1>3, <1>7, <2>2, MovesLease DEF LeaseKept, LeaseStates
  <2> QED
    BY <1>2, <2>1, <2>2 DEF Publish, MaySetLease
<1>11. JobKept(w) /\ Creating(w)' /\ Deleting(w)'
  <2>1. CASE Handed(w, m)
    <3>1. Pair(s) \in Pairs \union {None}
      BY SMTT(30), <1>3, <1>7 DEF Pair, TypeInv, Leases
    <3> QED
      BY <1>2, <1>3, <1>6, <2>1, <3>1, HandsOverKept
  <2>2. CASE Leave(w, "idle")
    BY <1>3, <2>2, LeavesKept
  <2> QED
    BY <1>2, <1>5, <2>1, <2>2 DEF Publish
<1>12. ProcessKept
  BY <1>3, <1>4, SameProcesses
<1> QED
  BY <1>1, <1>2, <1>3, <1>4, <1>9, <1>10, <1>11, <1>12, KeptStep

=============================================================================
