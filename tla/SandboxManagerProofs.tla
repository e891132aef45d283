------------------------ MODULE SandboxManagerProofs ------------------------
(***************************************************************************)
(* The remaining steps of the invariants of SandboxManagerSteps, and what  *)
(* these show: a workspace and a lease outlive the processes of their      *)
(* sandbox, shutdown is a barrier, an entry of the lock map outlives its   *)
(* users, the caps hold and the ledger agrees with the disk.               *)
(***************************************************************************)
EXTENDS SandboxManagerSteps

USE ZenonT(40)

-----------------------------------------------------------------------------
(* delete.                                                                 *)

LEMMA DeleteAbsentInv ==
  ASSUME Inv, NEW w \in Workers, DeleteAbsent(w)
  PROVE  Inv'
<1>1. job[w].pc = "delete" /\ job[w].pc \in HeldLabels
  BY DEF DeleteAbsent, At, HeldLabels
<1>2. PICK s \in Sandboxes : s = S(w)
  BY <1>1, AtWork
<1>3. TypeInv /\ job[w].pc # "idle" /\ w \in Threads /\ w # Boot /\ SandboxInv(s)
  BY <1>1, <1>2, AtWork
<1>4. /\ inspect(s) = "Absent" /\ disk' = disk /\ lease' = lease /\ ledger' = ledger /\ process' = process
      /\ UNCHANGED <<locks, stage, todo>>
  BY <1>2 DEF DeleteAbsent, stages
<1>5. LeaseKept(s) /\ LedgerKept(s) /\ ProcessKept
  BY <1>3, <1>4, SameLease, SameLedger, SameProcesses
<1>6. ~disk[s].dir /\ NoToken(s)
  BY <1>3, <1>4, Inspected, AbsentIsFree
<1>7. Closed(s)
  <2>1. ledger.records[s] # None => ledger.records[s].state \in {"Active", "Deleting"}
    BY SMT, <1>3, LedgerAt DEF Metadata
  <2> QED
    BY <1>3, <1>6, <2>1 DEF SandboxInv, Usable, Closed
<1>8. NoToken(s)' /\ Closed(s)'
  BY <1>4, <1>6, <1>7 DEF NoToken, Closed
<1>9. CASE Leave(w, "idle")
  BY <1>1, <1>2, <1>3, <1>4, <1>5, <1>9, LeavesKept, KeptStep
<1>10. CASE Go(w, "forget")
  <2>1. JobKept(w) /\ job'[w].pc = "forget" /\ S(w)' = s
    BY <1>2, <1>3, <1>10, GoesKept DEF Went, HeldLabels, DestroyLabels
  <2>2. Creating(w)' /\ Deleting(w)'
    BY <1>8, <2>1, DeletesNow DEF MarkLabels, WaitLabels, DestroyLabels, RemoveLabels
  <2> QED
    BY <1>1, <1>2, <1>3, <1>4, <1>5, <2>1, <2>2, KeptStep
<1>11. CASE lease[s] # None /\ job' = [job EXCEPT ![w].pc = "resources", ![w].lease = lease[s].state]
  <2>1. lease[s].state \in LeaseStates
    BY SMT, <1>3, <1>11 DEF TypeInv, Leases
  <2>2. JobKept(w) /\ job'[w].pc = "resources" /\ S(w)' = s
    BY <1>2, <1>3, <1>11, <2>1, GoesWithLease DEF HeldLabels, DestroyLabels
  <2>3. Creating(w)' /\ Deleting(w)'
    BY <1>8, <2>2, DeletesNow DEF MarkLabels, WaitLabels, DestroyLabels, RemoveLabels
  <2> QED
    BY <1>1, <1>2, <1>3, <1>4, <1>5, <2>2, <2>3, KeptStep
<1> QED
  BY <1>2, <1>9, <1>10, <1>11 DEF DeleteAbsent

LEMMA DeletePresentInv ==
  ASSUME Inv, NEW w \in Workers, DeletePresent(w)
  PROVE  Inv'
<1>1. job[w].pc = "delete" /\ job[w].pc \in HeldLabels
  BY DEF DeletePresent, At, HeldLabels
<1>2. PICK s \in Sandboxes : s = S(w)
  BY <1>1, AtWork
<1>3. TypeInv /\ job[w].pc # "idle" /\ w \in Threads /\ w # Boot
  BY <1>1, AtWork
<1>4. /\ inspect(s) \in {"Active", "Deleting"} /\ ledger' = note_valid_record(ledger, s, disk[s].metadata)
      /\ disk' = disk /\ lease' = lease /\ process' = process /\ UNCHANGED <<locks, stage, todo>>
  BY <1>2 DEF DeletePresent, stages
<1>5. /\ LedgerKept(s) /\ LeaseKept(s) /\ ProcessKept
      /\ Noted(ledger, s, disk[s].metadata) => ledger'.records[s] = disk[s].metadata
  BY <1>1, <1>2, <1>3, <1>4, NoteStep, SameLease, SameProcesses
<1>6. /\ disk[s].dir /\ disk[s].metadata # None
      /\ disk[s].metadata.state # "Active" => disk[s].metadata.state = "Deleting"
  BY <1>3, <1>4, Inspected
<1>7. CASE Leave(w, "idle")
  BY <1>1, <1>2, <1>3, <1>4, <1>5, <1>7, LeavesKept, KeptStep
<1>8. CASE /\ Noted(ledger, s, disk[s].metadata) /\ (Isolated => lease[s] # None)
           /\ job' = [job EXCEPT ![w].pc = IF disk[s].metadata.state = "Active" THEN "mark_temp" ELSE "begin_release",
                                 ![w].lease = IF Isolated THEN lease[s].state ELSE None]
  <2>1. PICK p \in {"mark_temp", "begin_release"} :
           p = IF disk[s].metadata.state = "Active" THEN "mark_temp" ELSE "begin_release"
    OBVIOUS
  <2>2. PICK x : x = IF Isolated THEN lease[s].state ELSE None
    OBVIOUS
  <2>3. x \in LeaseStates \union {None} /\ (x # None => lease[s] # None)
    BY SMTT(30), <1>3, <1>8, <2>2 DEF TypeInv, Leases
  <2>4. job' = [job EXCEPT ![w].pc = p, ![w].lease = x]
    BY <1>8, <2>1, <2>2
  <2>5. /\ p \in HeldLabels /\ p \in MarkLabels \union WaitLabels \union DestroyLabels /\ p # "unlock"
        /\ p = "mark_temp" => p \in MarkLabels
        /\ p \notin DestroyLabels /\ p \notin RemoveLabels
        /\ p \notin {"rmdir", "root_sync", "finish_release", "children", "unlink"}
        /\ p = "begin_release" => p \notin MarkLabels
    BY DEF HeldLabels, MarkLabels, WaitLabels, DestroyLabels, RemoveLabels
  <2>6. JobKept(w) /\ job'[w].pc = p /\ job'[w].lease = x /\ S(w)' = s
    BY <1>2, <1>3, <2>3, <2>4, <2>5, GoesWithLease
  <2>7. ledger'.records[s] = disk[s].metadata
    BY <1>5, <1>8
  <2>8. p = "begin_release" => Closed(s)'
    BY <1>6, <2>1, <2>7 DEF Closed
  <2>9. Creating(w)' /\ Deleting(w)'
    BY <1>4, <1>6, <2>3, <2>5, <2>6, <2>7, <2>8, DeletesNow
  <2> QED
    BY <1>1, <1>2, <1>3, <1>4, <1>5, <2>6, <2>9, KeptStep
<1> QED
  BY <1>2, <1>7, <1>8 DEF DeletePresent

(* A step on the directory of a sandbox that stays what it was published   *)
(* as, or loses its record.                                                *)
LEMMA DiskStep ==
  ASSUME Inv, NEW w \in Threads, job[w].pc \in HeldLabels, NEW s \in Sandboxes, s = S(w),
         NEW e \in Directories, SetDisk(s, e), lease' = lease, ledger' = ledger, process' = process,
         UNCHANGED <<locks, stage, todo>>, JobKept(w),
         w \in Workers => Creating(w)', Deleting(w)', w = Boot => Closed(s),
         e.dir \/ e = Empty,
         e.metadata = None \/ (disk[s].metadata # None /\ e.metadata.owner = disk[s].metadata.owner),
         \/ NoToken(s) /\ Closed(s)
         \/ /\ e.dir = disk[s].dir /\ e.workspace = disk[s].workspace
            /\ disk[s].metadata # None => e.metadata # None
            /\ e.temp => job'[w].pc = "mark_rename" /\ w \in Workers,
         NoProcess(s) \/ (e.dir = disk[s].dir /\ e.workspace = disk[s].workspace)
  PROVE  Inv'
<1>1. TypeInv /\ SandboxInv(s)
  BY DEF Inv
<1>2. /\ disk' \in [Sandboxes -> Directories] /\ disk'[s] = e
      /\ \A t \in Sandboxes \ {s} : disk'[t] = disk[t]
  BY <1>1, SetsDisk
<1>3. LeaseKept(s) /\ LedgerKept(s) /\ ProcessKept
  BY <1>1, SameLease, SameLedger, SameProcesses
<1>4. TypeInv' /\ Local(w)
  BY <1>1, <1>2, <1>3, Types DEF LeaseKept, LedgerKept, ProcessKept, JobKept, Local, S
<1>5. "mark_rename" # "idle"
  OBVIOUS
<1>6. Usable(s) => Usable(s)' \/ (NoToken(s) /\ Closed(s))
  BY <1>2, <1>5 DEF Usable, Marking, JobKept, S
<1>7. NoToken(s) \/ Usable(s)'
  BY <1>6 DEF NoToken, Inv, LaunchInv
<1>8. NoProcess(s) \/ (disk'[s].dir /\ disk'[s].workspace)
  BY <1>2 DEF NoProcess, Inv, LaunchInv
<1>9. SandboxInv(s)'
  <2>1. "Active" # "Deleting"
    OBVIOUS
  <2>2. ledger'.records[s] # None /\ ledger'.records[s].state = "Active" => Usable(s)'
    BY <1>1, <1>6, <2>1 DEF SandboxInv, Closed
  <2>3. ledger'.records[s] # None /\ disk'[s].metadata # None => ledger'.records[s].owner = disk'[s].metadata.owner
    BY <1>1, <1>2 DEF SandboxInv
  <2>4. Isolated /\ "sync" \notin Faults /\ disk'[s].metadata # None =>
          lease'[s] # None /\ lease'[s].owner = disk'[s].metadata.owner
    BY <1>1, <1>2 DEF SandboxInv
  <2> QED
    BY <1>2, <2>2, <2>3, <2>4 DEF SandboxInv, Empty
<1>10. w = Boot => Closed(s)'
  BY DEF Closed
<1> QED
  BY <1>4, <1>7, <1>8, <1>9, <1>10, HeldStep DEF JobKept

LEMMA MarkTempInv ==
  ASSUME Inv, NEW w \in Workers, MarkTemp(w)
  PROVE  Inv'
<1>1. /\ job[w].pc = "mark_temp" /\ job[w].pc \in HeldLabels /\ job[w].pc \in MarkLabels
      /\ job[w].pc # "mark_rename"
  BY DEF MarkTemp, At, HeldLabels, MarkLabels
<1>2. PICK s \in Sandboxes : s = S(w)
  BY <1>1, AtWork
<1>3. TypeInv /\ job[w].pc # "idle" /\ w \in Threads /\ w # Boot /\ Deleting(w) /\ SandboxInv(s)
  BY <1>1, <1>2, AtWork
<1>4. lease' = lease /\ ledger' = ledger /\ process' = process /\ UNCHANGED <<locks, stage, todo>>
  BY DEF MarkTemp, stages
<1>5. /\ disk[s].dir /\ disk[s].metadata # None /\ ledger.records[s] # None
      /\ job[w].lease # None => lease[s] # None
  BY <1>1, <1>2, <1>3 DEF Deleting
<1>6. CASE SetDisk(s, [disk[s] EXCEPT !.temp = TRUE]) /\ Go(w, "mark_rename")
  <2>1. PICK d \in Directories : d = disk[s]
    BY <1>3 DEF TypeInv
  <2>2. PICK e : e = [d EXCEPT !.temp = TRUE]
    OBVIOUS
  <2>3. e \in Directories /\ e.dir = d.dir /\ e.workspace = d.workspace /\ e.metadata = d.metadata /\ e.temp
    BY <2>2 DEF Directories
  <2>4. SetDisk(s, e)
    BY <1>6, <2>1, <2>2
  <2>5. JobKept(w) /\ job'[w].pc = "mark_rename" /\ S(w)' = s /\ job'[w].lease = job[w].lease
    BY <1>2, <1>3, <1>6, GoesKept DEF Went, HeldLabels, MarkLabels
  <2>6. disk'[s] = e
    BY <1>3, <2>3, <2>4, SetsDisk
  <2>7. Creating(w)' /\ Deleting(w)'
    BY <1>4, <1>5, <2>1, <2>3, <2>5, <2>6, DeletesNow DEF MarkLabels, WaitLabels, DestroyLabels, RemoveLabels
  <2> QED
    BY <1>1, <1>2, <1>3, <1>4, <1>5, <2>1, <2>3, <2>4, <2>5, <2>7, DiskStep
<1>7. CASE disk' = disk /\ Leave(w, "idle")
  BY <1>1, <1>2, <1>3, <1>4, <1>7, SameLease, SameLedger, SameProcesses, LeavesKept, KeptStep
<1> QED
  BY <1>2, <1>6, <1>7 DEF MarkTemp

LEMMA MarkRenameInv ==
  ASSUME Inv, NEW w \in Workers, MarkRename(w)
  PROVE  Inv'
<1>1. job[w].pc = "mark_rename" /\ job[w].pc \in HeldLabels /\ job[w].pc \in MarkLabels
  BY DEF MarkRename, At, HeldLabels, MarkLabels
<1>2. PICK s \in Sandboxes : s = S(w)
  BY <1>1, AtWork
<1>3. TypeInv /\ job[w].pc # "idle" /\ w \in Threads /\ w # Boot /\ Deleting(w) /\ SandboxInv(s)
  BY <1>1, <1>2, AtWork
<1>4. lease' = lease /\ ledger' = ledger /\ process' = process /\ UNCHANGED <<locks, stage, todo>>
  BY DEF MarkRename, stages
<1>5. PICK d \in Directories : d = disk[s]
  BY <1>3 DEF TypeInv
<1>6. /\ d.dir /\ d.metadata # None /\ ledger.records[s] # None
      /\ job[w].lease # None => lease[s] # None
  BY <1>1, <1>2, <1>3, <1>5 DEF Deleting
<1>7. ASSUME NEW e \in Directories, SetDisk(s, e), e.dir = d.dir, e.workspace = d.workspace, ~e.temp,
             e.metadata # None, e.metadata.owner = d.metadata.owner,
             JobKept(w), Creating(w)', Deleting(w)'
      PROVE  Inv'
  BY <1>1, <1>2, <1>3, <1>4, <1>5, <1>6, <1>7, DiskStep
<1>8. CASE SetDisk(s, [d EXCEPT !.temp = FALSE, !.metadata.state = "Deleting"]) /\ Go(w, "mark_sync")
  <2>1. PICK e : e = [d EXCEPT !.temp = FALSE, !.metadata.state = "Deleting"]
    OBVIOUS
  <2>2. PICK m : m = [d.metadata EXCEPT !.state = "Deleting"]
    OBVIOUS
  <2>3. d.metadata \in Metadata
    BY SMT, <1>6 DEF Directories
  <2>4. m \in Metadata /\ m.owner = d.metadata.owner
    BY SMT, <2>2, <2>3 DEF Metadata
  <2>5. e = [d EXCEPT !.temp = FALSE, !.metadata = m]
    BY SMTT(30), <2>1, <2>2 DEF Directories
  <2>6. e \in Directories /\ e.dir = d.dir /\ e.workspace = d.workspace /\ e.metadata = m /\ ~e.temp
    BY <2>4, <2>5 DEF Directories
  <2>7. e.metadata # None /\ e.metadata.owner = d.metadata.owner
    BY <2>4, <2>6, ManagerAssumption
  <2>8. SetDisk(s, e) /\ disk'[s] = e
    BY <1>3, <1>8, <2>1, <2>6, SetsDisk
  <2>9. JobKept(w) /\ job'[w].pc = "mark_sync" /\ S(w)' = s /\ job'[w].lease = job[w].lease
    BY <1>2, <1>3, <1>8, GoesKept DEF Went, HeldLabels, MarkLabels
  <2>10. Creating(w)' /\ Deleting(w)'
    BY <1>4, <1>6, <2>6, <2>7, <2>8, <2>9, DeletesNow DEF MarkLabels, WaitLabels, DestroyLabels, RemoveLabels
  <2> QED
    BY <1>7, <2>6, <2>7, <2>8, <2>9, <2>10
<1>9. CASE SetDisk(s, [d EXCEPT !.temp = FALSE]) /\ Leave(w, "idle")
  <2>1. PICK e : e = [d EXCEPT !.temp = FALSE]
    OBVIOUS
  <2>2. e \in Directories /\ e.dir = d.dir /\ e.workspace = d.workspace /\ e.metadata = d.metadata /\ ~e.temp
    BY <2>1 DEF Directories
  <2>3. JobKept(w) /\ Creating(w)' /\ Deleting(w)'
    BY <1>3, <1>9, LeavesKept
  <2> QED
    BY <1>6, <1>7, <1>9, <2>1, <2>2, <2>3
<1> QED
  BY <1>2, <1>5, <1>8, <1>9 DEF MarkRename

LEMMA MarkSyncInv ==
  ASSUME Inv, NEW w \in Workers, MarkSync(w)
  PROVE  Inv'
<1>1. /\ job[w].pc = "mark_sync" /\ job[w].pc \in HeldLabels /\ job[w].pc \in MarkLabels
      /\ job[w].pc # "mark_rename"
  BY DEF MarkSync, At, HeldLabels, MarkLabels
<1>2. PICK s \in Sandboxes : s = S(w)
  BY <1>1, AtWork
<1>3. TypeInv /\ job[w].pc # "idle" /\ w \in Threads /\ w # Boot /\ Deleting(w) /\ SandboxInv(s)
  BY <1>1, <1>2, AtWork
<1>4. disk' = disk /\ lease' = lease /\ process' = process /\ UNCHANGED <<locks, stage, todo>>
  BY DEF MarkSync, stages
<1>5. /\ disk[s].metadata # None /\ ledger.records[s] # None
      /\ job[w].lease # None => lease[s] # None
  BY <1>1, <1>2, <1>3 DEF Deleting
<1>6. LeaseKept(s) /\ ProcessKept
  BY <1>3, <1>4, SameLease, SameProcesses
<1>7. CASE ledger' = ledger /\ Leave(w, "idle")
  BY <1>1, <1>2, <1>3, <1>4, <1>6, <1>7, SameLedger, LeavesKept, KeptStep
<1>8. CASE ledger' = [ledger EXCEPT !.records[s].state = "Deleting"] /\ Go(w, "begin_release")
  <2>1. ledger \in Ledgers /\ ledger.records[s] \in Metadata
    BY <1>3, <1>5, LedgerAt DEF TypeInv
  <2>2. PICK m : m = [ledger.records[s] EXCEPT !.state = "Deleting"]
    OBVIOUS
  <2>3. m \in Metadata /\ m.state = "Deleting" /\ m.owner = ledger.records[s].owner
    BY SMTT(30), <2>1, <2>2 DEF Metadata
  <2>4. ledger' = [ledger EXCEPT !.records[s] = m]
    BY SMTT(30), <1>8, <2>1, <2>2 DEF Ledgers
  <2>5. /\ ledger' \in Ledgers /\ ledger'.runtime = ledger.runtime
        /\ ledger'.records = [ledger.records EXCEPT ![s] = m]
    BY SMTT(30), <2>1, <2>3, <2>4 DEF Ledgers
  <2>6. /\ ledger'.records[s] = m /\ m # None
        /\ \A t \in Sandboxes \ {s} : ledger'.records[t] = ledger.records[t]
    BY <1>3, <2>3, <2>5, LedgerAt, ManagerAssumption
  <2>7. "Deleting" # "Active"
    OBVIOUS
  <2>8. LedgerKept(s)
    BY <1>3, <1>5, <2>3, <2>5, <2>6, <2>7 DEF LedgerKept, RuntimeShrinks, SandboxInv
  <2>9. JobKept(w) /\ job'[w].pc = "begin_release" /\ S(w)' = s /\ job'[w].lease = job[w].lease
    BY <1>2, <1>3, <1>8, GoesKept DEF Went, HeldLabels, WaitLabels
  <2>10. Closed(s)'
    BY <2>3, <2>6 DEF Closed
  <2>11. Creating(w)' /\ Deleting(w)'
    BY <1>4, <1>5, <2>9, <2>10, DeletesNow DEF MarkLabels, WaitLabels, DestroyLabels, RemoveLabels
  <2> QED
    BY <1>1, <1>2, <1>3, <1>4, <1>6, <2>8, <2>9, <2>11, KeptStep
<1> QED
  BY <1>2, <1>7, <1>8 DEF MarkSync

(* The runtime entries and processes of cancelled launches.                *)
LEMMA SetsRuntime ==
  ASSUME TypeInv, NEW f \in [Workers -> Runtimes \union {None}], ledger' = [ledger EXCEPT !.runtime = f]
  PROVE  ledger' \in Ledgers /\ ledger'.records = ledger.records /\ ledger'.runtime = f
<1>1. ledger \in Ledgers
  BY DEF TypeInv
<1> QED
  BY SMT, <1>1 DEF Ledgers

LEMMA CancelsRuntime ==
  ASSUME TypeInv, NEW T, \A v \in T : v \in Workers /\ ledger.runtime[v] # None,
         ledger' = [ledger EXCEPT !.runtime = [v \in Workers |->
           IF v \in T THEN [ledger.runtime[v] EXCEPT !.cancelled = TRUE] ELSE ledger.runtime[v]]]
  PROVE  /\ ledger' \in Ledgers /\ ledger'.records = ledger.records /\ RuntimeShrinks
         /\ \A v \in T : ledger'.runtime[v] # None /\ ledger'.runtime[v].cancelled
         /\ \A v \in Workers \ T : ledger'.runtime[v] = ledger.runtime[v]
<1>1. PICK f : f = [v \in Workers |->
           IF v \in T THEN [ledger.runtime[v] EXCEPT !.cancelled = TRUE] ELSE ledger.runtime[v]]
  OBVIOUS
<1>2. ledger.runtime \in [Workers -> Runtimes \union {None}]
  BY LedgerAt
<1>3. ASSUME NEW x \in Runtimes
      PROVE  /\ [x EXCEPT !.cancelled = TRUE] \in Runtimes
             /\ [x EXCEPT !.cancelled = TRUE].sandbox = x.sandbox
             /\ [x EXCEPT !.cancelled = TRUE].marker = x.marker
             /\ [x EXCEPT !.cancelled = TRUE].cancelled
  BY DEF Runtimes
<1>4. \A v \in T : f[v] \in Runtimes /\ f[v].sandbox = ledger.runtime[v].sandbox
                   /\ f[v].marker = ledger.runtime[v].marker /\ f[v].cancelled
  <2> SUFFICES ASSUME NEW v \in T
      PROVE  f[v] \in Runtimes /\ f[v].sandbox = ledger.runtime[v].sandbox
             /\ f[v].marker = ledger.runtime[v].marker /\ f[v].cancelled
    OBVIOUS
  <2>1. PICK x \in Runtimes : x = ledger.runtime[v] /\ v \in Workers
    BY <1>2
  <2>2. f[v] = [x EXCEPT !.cancelled = TRUE]
    BY <1>1, <2>1
  <2> QED
    BY <1>3, <2>1, <2>2
<1>5. \A v \in Workers \ T : f[v] = ledger.runtime[v]
  BY <1>1
<1>6. f \in [Workers -> Runtimes \union {None}]
  <2>1. DOMAIN f = Workers /\ f = [v \in Workers |-> f[v]]
    BY <1>1
  <2>2. \A v \in Workers : f[v] \in Runtimes \union {None}
    BY <1>2, <1>4, <1>5
  <2> QED
    BY <2>1, <2>2
<1>7. ledger' \in Ledgers /\ ledger'.records = ledger.records /\ ledger'.runtime = f
  BY <1>1, <1>6, SetsRuntime
<1>8. None \notin Runtimes
  BY ManagerAssumption
<1>9. RuntimeShrinks
  BY <1>4, <1>5, <1>7, <1>8 DEF RuntimeShrinks
<1> QED
  BY <1>4, <1>5, <1>7, <1>8, <1>9

LEMMA Dooms ==
  ASSUME TypeInv, NEW T, process' = Doomed(T)
  PROVE  ProcessKept
<1>1. process \in [Workers -> Processes \union {None}]
  BY DEF TypeInv
<1>2. DOMAIN process' = Workers /\ process' = [v \in Workers |-> process'[v]]
  BY DEF Doomed
<1>3. ASSUME NEW x \in Processes
      PROVE  [x EXCEPT !.doomed = TRUE] \in Processes /\ [x EXCEPT !.doomed = TRUE].sandbox = x.sandbox
  BY DEF Processes
<1>4. ASSUME NEW v \in Workers
      PROVE  /\ process'[v] \in Processes \union {None}
             /\ process'[v] # None => process[v] # None /\ process'[v].sandbox = process[v].sandbox
  <2>1. process'[v] = IF v \in T /\ process[v] # None THEN [process[v] EXCEPT !.doomed = TRUE] ELSE process[v]
    BY DEF Doomed
  <2>2. CASE v \in T /\ process[v] # None
    <3>1. PICK x \in Processes : x = process[v]
      BY <1>1, <2>2
    <3>2. process'[v] = [x EXCEPT !.doomed = TRUE]
      BY <2>1, <2>2, <3>1
    <3> QED
      BY <1>3, <2>2, <3>1, <3>2
  <2>3. CASE ~(v \in T /\ process[v] # None)
    BY <1>1, <2>1, <2>3
  <2> QED
    BY <2>2, <2>3
<1>5. process' \in [Workers -> Processes \union {None}]
  BY <1>2, <1>4
<1> QED
  BY <1>4, <1>5 DEF ProcessKept, ProcessShrinks

LEMMA CancelInv ==
  ASSUME Inv, NEW w \in Workers, Cancel(w)
  PROVE  Inv'
<1>1. /\ job[w].pc = "cancel" /\ job[w].pc \in HeldLabels /\ job[w].pc \in WaitLabels
      /\ job[w].pc # "mark_rename"
  BY DEF Cancel, At, HeldLabels, WaitLabels
<1>2. PICK s \in Sandboxes : s = S(w)
  BY <1>1, AtWork
<1>3. TypeInv /\ job[w].pc # "idle" /\ w \in Threads /\ w # Boot /\ Deleting(w)
  BY <1>1, <1>2, AtWork
<1>4. /\ disk' = disk /\ lease' = lease /\ UNCHANGED <<locks, stage, todo>>
      /\ Go(w, "wait") /\ process' = Doomed(Running(ledger, TokensOf(ledger, s)))
  BY <1>2 DEF Cancel, stages
<1>5. Closed(s)
  BY <1>1, <1>2, <1>3 DEF Deleting
<1>6. ledger' \in Ledgers /\ ledger'.records = ledger.records /\ RuntimeShrinks
  <2>1. PICK T : T = TokensOf(ledger, s)
    OBVIOUS
  <2>2. \A v \in T : v \in Workers /\ ledger.runtime[v] # None
    BY <2>1 DEF TokensOf
  <2>3. ledger' = [ledger EXCEPT !.runtime = [v \in Workers |->
           IF v \in T THEN [ledger.runtime[v] EXCEPT !.cancelled = TRUE] ELSE ledger.runtime[v]]]
    BY <1>2, <2>1 DEF Cancel
  <2> QED
    BY <1>3, <2>2, <2>3, CancelsRuntime
<1>7. LedgerKept(s)
  BY <1>6 DEF LedgerKept
<1>8. LeaseKept(s) /\ ProcessKept
  BY <1>3, <1>4, SameLease, Dooms
<1>9. JobKept(w) /\ job'[w].pc = "wait" /\ S(w)' = s
  BY <1>2, <1>3, <1>4, GoesKept DEF Went, HeldLabels, WaitLabels
<1>10. Closed(s)'
  BY <1>5, <1>6 DEF Closed
<1>11. Creating(w)' /\ Deleting(w)'
  BY <1>9, <1>10, DeletesNow DEF MarkLabels, WaitLabels, DestroyLabels, RemoveLabels
<1> QED
  BY <1>1, <1>2, <1>3, <1>4, <1>7, <1>8, <1>9, <1>11, KeptStep

LEMMA WaitInv ==
  ASSUME Inv, NEW w \in Workers, Wait(w)
  PROVE  Inv'
<1>1. /\ job[w].pc = "wait" /\ job[w].pc \in HeldLabels /\ job[w].pc \in WaitLabels
      /\ job[w].pc # "mark_rename"
  BY DEF Wait, At, HeldLabels, WaitLabels
<1>2. PICK s \in Sandboxes : s = S(w)
  BY <1>1, AtWork
<1>3. TypeInv /\ job[w].pc # "idle" /\ w \in Threads /\ w # Boot /\ Deleting(w)
  BY <1>1, <1>2, AtWork
<1>4. disk' = disk /\ lease' = lease /\ process' = process /\ UNCHANGED <<locks, stage, todo>>
  BY <1>2 DEF Wait, stages
<1>5. Closed(s)
  BY <1>1, <1>2, <1>3 DEF Deleting
<1>6. LeaseKept(s) /\ ProcessKept
  BY <1>3, <1>4, SameLease, SameProcesses
<1>7. CASE Waits(s) = {} /\ Go(w, "resources") /\ ledger' = ledger
  <2>1. NoToken(s)
    BY <1>7 DEF Waits, TokensOf, NoToken
  <2>2. NoToken(s)' /\ Closed(s)'
    BY <1>5, <1>7, <2>1 DEF NoToken, Closed
  <2>3. JobKept(w) /\ job'[w].pc = "resources" /\ S(w)' = s
    BY <1>2, <1>3, <1>7, GoesKept DEF Went, HeldLabels, DestroyLabels
  <2>4. Creating(w)' /\ Deleting(w)'
    BY <2>2, <2>3, DeletesNow DEF MarkLabels, WaitLabels, DestroyLabels, RemoveLabels
  <2> QED
    BY <1>1, <1>2, <1>3, <1>4, <1>6, <1>7, <2>3, <2>4, SameLedger, KeptStep
<1>8. CASE /\ job' = job
           /\ \E v \in Running(ledger, TokensOf(ledger, s)) : ledger' = [ledger EXCEPT !.runtime[v] = None]
  <2>1. PICK v \in Workers : /\ ledger.runtime[v] # None /\ ledger.runtime[v].marker = "Running"
                             /\ ledger' = [ledger EXCEPT !.runtime[v] = None]
    BY <1>8 DEF Running, TokensOf
  <2>2. ledger.runtime \in [Workers -> Runtimes \union {None}] /\ ledger \in Ledgers
    BY <1>3, LedgerAt DEF TypeInv
  <2>3. PICK f : f = [ledger.runtime EXCEPT ![v] = None]
    OBVIOUS
  <2>4. /\ f \in [Workers -> Runtimes \union {None}] /\ f[v] = None
        /\ \A u \in Workers \ {v} : f[u] = ledger.runtime[u]
    BY <2>2, <2>3
  <2>5. ledger' = [ledger EXCEPT !.runtime = f]
    BY SMTT(30), <2>1, <2>2, <2>3 DEF Ledgers
  <2>6. ledger' \in Ledgers /\ ledger'.records = ledger.records /\ ledger'.runtime = f
    BY <1>3, <2>4, <2>5, SetsRuntime
  <2>7. "Running" # "Launching"
    OBVIOUS
  <2>8. LedgerKept(s)
    BY <2>1, <2>4, <2>6, <2>7 DEF LedgerKept, RuntimeShrinks
  <2>9. JobKept(w) /\ S(w)' = s /\ job'[w].pc = "wait"
    BY <1>1, <1>2, <1>3, <1>8 DEF JobKept, TypeInv, JobsOK, Others, S
  <2>10. Closed(s)'
    BY <1>5, <2>6 DEF Closed
  <2>11. Creating(w)' /\ Deleting(w)'
    BY <2>9, <2>10, DeletesNow DEF MarkLabels, WaitLabels, DestroyLabels, RemoveLabels
  <2> QED
    BY <1>1, <1>2, <1>3, <1>4, <1>6, <2>8, <2>9, <2>11, KeptStep
<1>9. CASE Leave(w, "idle") /\ ledger' = ledger
  BY <1>1, <1>2, <1>3, <1>4, <1>6, <1>9, SameLedger, LeavesKept, KeptStep
<1> QED
  BY <1>2, <1>7, <1>8, <1>9 DEF Wait

-----------------------------------------------------------------------------
(* The steps a delete and the startup reconciliation share.                *)

LEMMA DeleteGoes ==
  ASSUME TypeInv, NEW w \in Threads, job[w].pc # "idle", NEW p \in DestroyLabels, Go(w, p)
  PROVE  JobKept(w) /\ job'[w].pc = p /\ S(w)' = S(w) /\ p \in HeldLabels /\ p # "unlock"
<1>1. p \in HeldLabels /\ p # "unlock" /\ p \in BootLabels
  BY DEF HeldLabels, DestroyLabels, RemoveLabels, BootLabels
<1>2. CASE w \in Workers
  BY <1>1, <1>2, GoesKept DEF Went
<1>3. CASE w = Boot
  <2>1. JobsOK' /\ Others(w) /\ Went(w, p)
    BY <1>1, <1>3, BootGoes
  <2> QED
    BY <1>1, <2>1 DEF JobKept, Went, S
<1> QED
  BY <1>2, <1>3 DEF Threads

LEMMA DeleteGivesUp ==
  ASSUME TypeInv, NEW w \in Threads, job[w].pc # "idle", GiveUp(w)
  PROVE  JobKept(w) /\ Creating(w)' /\ Deleting(w)'
<1>1. CASE w = Boot
  <2>1. job' = [job EXCEPT ![w] = Idle]
    BY <1>1 DEF GiveUp
  <2>2. JobsOK' /\ Others(w) /\ job'[w].pc = "idle"
    BY <2>1, Stops
  <2>3. "idle" # "unlock"
    OBVIOUS
  <2> QED
    BY <2>2, <2>3, Rests DEF JobKept, Unbusy
<1>2. CASE w # Boot
  BY <1>2, LeavesKept DEF GiveUp, Threads
<1> QED
  BY <1>1, <1>2

LEMMA BeginReleaseInv ==
  ASSUME Inv, NEW w \in Threads, BeginRelease(w)
  PROVE  Inv'
<1>1. job[w].pc = "begin_release"
  BY DEF BeginRelease, At
<1>2. PICK s : s = S(w)
  OBVIOUS
<1>3. /\ job[w].pc \in HeldLabels /\ job[w].pc # "mark_rename" /\ job[w].pc # "idle"
      /\ TypeInv /\ s \in Sandboxes /\ Closed(s)
      /\ job[w].lease # None => lease[s] # None
  BY <1>1, <1>2, DeletesAt
<1>4. disk' = disk /\ ledger' = ledger /\ process' = process /\ UNCHANGED <<locks, stage, todo>>
  BY DEF BeginRelease, stages
<1>5. LedgerKept(s) /\ ProcessKept /\ Closed(s)'
  BY <1>3, <1>4, SameLedger, SameProcesses DEF Closed
<1>6. LeaseKept(s)
  <2>1. CASE lease' = lease
    BY <1>3, <2>1, SameLease
  <2>2. CASE job[w].lease \in {"Active", "Reserved"} /\ SetLease(s, "Releasing")
    <3>1. "Active" \in LeaseStates /\ "Releasing" \in LeaseStates
      BY DEF LeaseStates
    <3>2. lease[s] # None
      BY <1>3, <2>2, <3>1, ManagerAssumption
    <3> QED
      BY <1>3, <2>2, <3>1, <3>2, MovesLease DEF LeaseKept
  <2> QED
    BY <1>2, <2>1, <2>2 DEF BeginRelease, MaySetLease
<1>7. CASE GiveUp(w)
  BY <1>2, <1>3, <1>4, <1>5, <1>6, <1>7, DeleteGivesUp, KeptStep
<1>8. CASE w # Boot /\ Go(w, "cancel")
  <2>1. w \in Workers
    BY <1>8 DEF Threads
  <2>2. JobKept(w) /\ job'[w].pc = "cancel" /\ S(w)' = s
    BY <1>2, <1>3, <1>8, <2>1, GoesKept DEF Went, HeldLabels, WaitLabels
  <2>3. Creating(w)' /\ Deleting(w)'
    BY <1>5, <2>2, DeletesNow DEF MarkLabels, WaitLabels, DestroyLabels, RemoveLabels
  <2> QED
    BY <1>2, <1>3, <1>4, <1>5, <1>6, <2>2, <2>3, KeptStep
<1>9. CASE w = Boot /\ Go(w, "resources")
  <2>1. JobKept(w) /\ job'[w].pc = "resources" /\ S(w)' = s
    BY <1>2, <1>3, <1>9, DeleteGoes DEF DestroyLabels
  <2>2. stage \in Starting
    BY <1>3, <1>9 DEF Inv, StageInv, Starting
  <2>3. NoToken(s)'
    BY <1>4, <2>2 DEF Inv, StageInv, NoToken
  <2>4. Creating(w)' /\ Deleting(w)'
    BY <1>5, <2>1, <2>3, DeletesNow DEF MarkLabels, WaitLabels, DestroyLabels, RemoveLabels
  <2> QED
    BY <1>2, <1>3, <1>4, <1>5, <1>6, <2>1, <2>4, KeptStep
<1> QED
  BY <1>7, <1>8, <1>9 DEF BeginRelease

LEMMA ResourcesInv ==
  ASSUME Inv, NEW w \in Threads, Resources(w)
  PROVE  Inv'
<1>1. job[w].pc = "resources" /\ job[w].pc \in DestroyLabels
  BY DEF Resources, At, DestroyLabels
<1>2. PICK s : s = S(w)
  OBVIOUS
<1>3. /\ job[w].pc \in HeldLabels /\ job[w].pc # "mark_rename" /\ job[w].pc # "idle"
      /\ TypeInv /\ s \in Sandboxes /\ Closed(s) /\ NoToken(s)
  BY <1>1, <1>2, DeletesAt
<1>4. disk' = disk /\ lease' = lease /\ ledger' = ledger /\ UNCHANGED <<locks, stage, todo>>
  BY DEF Resources, stages
<1>5. LedgerKept(s) /\ LeaseKept(s) /\ Closed(s)' /\ NoToken(s)'
  BY <1>3, <1>4, SameLedger, SameLease DEF Closed, NoToken
<1>6. CASE GiveUp(w) /\ process' = process
  BY <1>2, <1>3, <1>4, <1>5, <1>6, SameProcesses, DeleteGivesUp, KeptStep
<1>7. CASE process' = Ended(s) /\ Go(w, IF disk[s].dir THEN "children" ELSE "finish_release")
  <2>1. process \in [Workers -> Processes \union {None}]
    BY <1>3 DEF TypeInv
  <2>2. \A v \in Workers : process'[v] = IF process[v] # None /\ process[v].sandbox = s THEN None ELSE process[v]
    BY <1>7 DEF Ended
  <2>3. process' \in [Workers -> Processes \union {None}]
    BY <1>7, <2>1, <2>2 DEF Ended
  <2>4. ProcessKept /\ NoProcess(s)'
    BY <2>2, <2>3 DEF ProcessKept, ProcessShrinks, NoProcess
  <2>5. PICK p \in {"children", "finish_release"} : p = IF disk[s].dir THEN "children" ELSE "finish_release"
    OBVIOUS
  <2>6. p \in DestroyLabels /\ p \in RemoveLabels
    BY DEF DestroyLabels, RemoveLabels
  <2>7. JobKept(w) /\ job'[w].pc = p /\ S(w)' = s
    BY <1>2, <1>3, <1>7, <2>5, <2>6, DeleteGoes
  <2>8. p = "finish_release" => disk[s].metadata = None
    BY <1>3, <2>5, AbsentIsFree
  <2>9. Creating(w)' /\ Deleting(w)'
    BY <1>4, <1>5, <2>4, <2>5, <2>6, <2>7, <2>8, DeletesNow DEF MarkLabels
  <2> QED
    BY <1>2, <1>3, <1>4, <1>5, <2>4, <2>7, <2>9, KeptStep
<1> QED
  BY <1>2, <1>6, <1>7 DEF Resources

LEMMA RootSyncInv ==
  ASSUME Inv, NEW w \in Threads, RootSync(w)
  PROVE  Inv'
<1>1. job[w].pc = "root_sync" /\ job[w].pc \in DestroyLabels /\ job[w].pc \in RemoveLabels
  BY DEF RootSync, At, DestroyLabels, RemoveLabels
<1>2. PICK s : s = S(w)
  OBVIOUS
<1>3. /\ job[w].pc \in HeldLabels /\ job[w].pc # "mark_rename" /\ job[w].pc # "idle"
      /\ TypeInv /\ s \in Sandboxes /\ Closed(s) /\ NoToken(s) /\ NoProcess(s) /\ disk[s].metadata = None
  BY <1>1, <1>2, DeletesAt
<1>4. /\ disk' = disk /\ lease' = lease /\ ledger' = ledger /\ process' = process
      /\ UNCHANGED <<locks, stage, todo>>
  BY DEF RootSync, stages
<1>5. /\ LedgerKept(s) /\ LeaseKept(s) /\ ProcessKept
      /\ Closed(s)' /\ NoToken(s)' /\ NoProcess(s)' /\ disk'[s].metadata = None
  BY <1>3, <1>4, SameLedger, SameLease, SameProcesses DEF Closed, NoToken, NoProcess
<1>6. CASE GiveUp(w)
  BY <1>2, <1>3, <1>4, <1>5, <1>6, DeleteGivesUp, KeptStep
<1>7. CASE Go(w, "finish_release")
  <2>1. JobKept(w) /\ job'[w].pc = "finish_release" /\ S(w)' = s
    BY <1>2, <1>3, <1>7, DeleteGoes DEF DestroyLabels, RemoveLabels
  <2>2. Creating(w)' /\ Deleting(w)'
    BY <1>5, <2>1, DeletesNow DEF MarkLabels, WaitLabels, DestroyLabels, RemoveLabels
  <2> QED
    BY <1>2, <1>3, <1>4, <1>5, <2>1, <2>2, KeptStep
<1> QED
  BY <1>6, <1>7 DEF RootSync

LEMMA FinishReleaseInv ==
  ASSUME Inv, NEW w \in Threads, FinishRelease(w)
  PROVE  Inv'
<1>1. job[w].pc = "finish_release" /\ job[w].pc \in DestroyLabels
  BY DEF FinishRelease, At, DestroyLabels, RemoveLabels
<1>2. PICK s : s = S(w)
  OBVIOUS
<1>3. /\ job[w].pc \in HeldLabels /\ job[w].pc # "mark_rename" /\ job[w].pc # "idle"
      /\ TypeInv /\ s \in Sandboxes /\ Closed(s) /\ NoToken(s) /\ disk[s].metadata = None
  BY <1>1, <1>2, DeletesAt
<1>4. disk' = disk /\ ledger' = ledger /\ process' = process /\ UNCHANGED <<locks, stage, todo>>
  BY DEF FinishRelease, stages
<1>5. LedgerKept(s) /\ ProcessKept /\ Closed(s)' /\ NoToken(s)'
  BY <1>3, <1>4, SameLedger, SameProcesses DEF Closed, NoToken
<1>6. LeaseKept(s)
  <2>1. CASE lease' = lease
    BY <1>3, <2>1, SameLease
  <2>2. CASE lease' = [lease EXCEPT ![s] = None]
    BY <1>3, <2>2, SetsLease DEF LeaseKept
  <2> QED
    BY <1>2, <2>1, <2>2 DEF FinishRelease
<1>7. CASE GiveUp(w)
  BY <1>2, <1>3, <1>4, <1>5, <1>6, <1>7, DeleteGivesUp, KeptStep
<1>8. CASE Go(w, "forget")
  <2>1. JobKept(w) /\ job'[w].pc = "forget" /\ S(w)' = s
    BY <1>2, <1>3, <1>8, DeleteGoes DEF DestroyLabels
  <2>2. Creating(w)' /\ Deleting(w)'
    BY <1>5, <2>1, DeletesNow DEF MarkLabels, WaitLabels, DestroyLabels, RemoveLabels
  <2> QED
    BY <1>2, <1>3, <1>4, <1>5, <1>6, <2>1, <2>2, KeptStep
<1> QED
  BY <1>7, <1>8 DEF FinishRelease

LEMMA ForgetInv ==
  ASSUME Inv, NEW w \in Threads, Forget(w)
  PROVE  Inv'
<1>1. job[w].pc = "forget" /\ job[w].pc \in DestroyLabels
  BY DEF Forget, At, DestroyLabels
<1>2. PICK s : s = S(w)
  OBVIOUS
<1>3. /\ job[w].pc \in HeldLabels /\ job[w].pc # "mark_rename" /\ job[w].pc # "idle"
      /\ TypeInv /\ s \in Sandboxes /\ NoToken(s)
  BY <1>1, <1>2, DeletesAt
<1>4. /\ disk' = disk /\ lease' = lease /\ process' = process /\ UNCHANGED <<locks, stage, todo>>
      /\ ledger' = remove_record_from_ledger(ledger, s) /\ GiveUp(w)
  BY <1>2 DEF Forget, stages
<1>5. Records(ledger', s, None)
  BY <1>3, <1>4, Forgets
<1>6. LedgerKept(s) /\ Closed(s)'
  BY <1>5 DEF Records, LedgerKept, RuntimeShrinks, Closed
<1>7. LeaseKept(s) /\ ProcessKept
  BY <1>3, <1>4, SameLease, SameProcesses
<1> QED
  BY <1>2, <1>3, <1>4, <1>6, <1>7, DeleteGivesUp, KeptStep

(* Storage::remove_tree.                                                   *)
LEMMA RemoveStepInv ==
  ASSUME Inv, NEW w \in Threads, RemoveStep(w)
  PROVE  Inv'
<1>1. /\ job[w].pc \in {"children", "unlink", "rmdir"}
      /\ job[w].pc \in DestroyLabels /\ job[w].pc \in RemoveLabels
  <2>1. job[w].pc \in {"children", "unlink", "rmdir"}
    BY SMT DEF RemoveStep, AfterRemove
  <2> QED
    BY <2>1 DEF DestroyLabels, RemoveLabels
<1>2. PICK s : s = S(w)
  OBVIOUS
<1>3. /\ job[w].pc \in HeldLabels /\ job[w].pc # "mark_rename" /\ job[w].pc # "idle"
      /\ TypeInv /\ s \in Sandboxes /\ Closed(s) /\ NoToken(s) /\ NoProcess(s) /\ disk[s].dir
  BY <1>1, <1>2, DeletesAt
<1>4. lease' = lease /\ ledger' = ledger /\ process' = process /\ UNCHANGED <<locks, stage, todo>>
  BY DEF RemoveStep, stages
<1>5. Closed(s)' /\ NoToken(s)' /\ NoProcess(s)'
  BY <1>3, <1>4 DEF Closed, NoToken, NoProcess
<1>6. PICK d \in Directories : d = disk[s]
  BY <1>3 DEF TypeInv
<1>7. ASSUME NEW e \in Directories, SetDisk(s, e), e.dir \/ e = Empty,
             e.metadata = None \/ e.metadata = d.metadata,
             NEW p \in {"unlink", "rmdir", "root_sync"}, Go(w, p),
             p \in {"rmdir", "root_sync"} => e.metadata = None,
             p \in {"unlink", "rmdir"} => e.dir
      PROVE  Inv'
  <2>1. p \in DestroyLabels /\ p \in RemoveLabels /\ p \notin MarkLabels
    BY DEF DestroyLabels, RemoveLabels, MarkLabels
  <2>2. JobKept(w) /\ job'[w].pc = p /\ S(w)' = s
    BY <1>2, <1>3, <1>7, <2>1, DeleteGoes
  <2>3. disk'[s] = e
    BY <1>3, <1>7, SetsDisk
  <2>4. Creating(w)' /\ Deleting(w)'
    BY <1>5, <1>7, <2>1, <2>2, <2>3, DeletesNow
  <2>5. e.metadata = None \/ (d.metadata # None /\ e.metadata.owner = d.metadata.owner)
    BY <1>7
  <2> QED
    BY <1>2, <1>3, <1>4, <1>6, <1>7, <2>2, <2>4, <2>5, DiskStep
<1>8. CASE GiveUp(w) /\ disk' = disk
  BY <1>2, <1>3, <1>4, <1>5, <1>8, SameLease, SameLedger, SameProcesses, DeleteGivesUp, KeptStep
<1>9. CASE SetDisk(s, [d EXCEPT !.workspace = FALSE, !.temp = FALSE]) /\ Go(w, "unlink")
  <2>1. PICK e : e = [d EXCEPT !.workspace = FALSE, !.temp = FALSE]
    OBVIOUS
  <2>2. e \in Directories /\ e.dir = d.dir /\ e.metadata = d.metadata
    BY <2>1 DEF Directories
  <2> QED
    BY <1>3, <1>6, <1>7, <1>9, <2>1, <2>2
<1>10. CASE SetDisk(s, [d EXCEPT !.metadata = None]) /\ Go(w, "rmdir")
  <2>1. PICK e : e = [d EXCEPT !.metadata = None]
    OBVIOUS
  <2>2. e \in Directories /\ e.dir = d.dir /\ e.metadata = None
    BY SMT, <2>1 DEF Directories
  <2> QED
    BY <1>3, <1>6, <1>7, <1>10, <2>1, <2>2
<1>11. CASE SetDisk(s, Empty) /\ Go(w, "root_sync")
  <2>1. Empty \in Directories /\ Empty.metadata = None
    BY SMT DEF Empty, Directories
  <2> QED
    BY <1>7, <1>11, <2>1
<1>12. /\ AfterRemove["children"] = "unlink" /\ AfterRemove["unlink"] = "rmdir" /\ AfterRemove["rmdir"] = "root_sync"
  BY SMT DEF AfterRemove
<1>13. /\ Removed(d, "children") = [d EXCEPT !.workspace = FALSE, !.temp = FALSE]
       /\ Removed(d, "unlink") = [d EXCEPT !.metadata = None]
       /\ Removed(d, "rmdir") = Empty
  BY SMT DEF Removed
<1>14. \/ GiveUp(w) /\ disk' = disk
       \/ SetDisk(s, Removed(d, job[w].pc)) /\ Go(w, AfterRemove[job[w].pc])
  BY <1>2, <1>6 DEF RemoveStep
<1> QED
  BY <1>1, <1>8, <1>9, <1>10, <1>11, <1>12, <1>13, <1>14

-----------------------------------------------------------------------------
(* Steps of a request outside its work on a sandbox.                       *)

LEMMA OuterStep ==
  ASSUME Inv, NEW w \in Workers, job[w].pc # "mark_rename", job'[w].pc \in Unbusy, Others(w),
         disk' = disk, lease' = lease, stage' = stage, todo' = todo, stage \notin Starting,
         ledger'.records = ledger.records,
         TypeInv', LockInv', LockEntryOutlivesUsers', ShutdownBarrier',
         \A v \in Workers \ {w} : ledger'.runtime[v] = ledger.runtime[v] /\ process'[v] = process[v],
         \A t \in Sandboxes : Closed(t) /\ NoToken(t) => NoToken(t)' /\ (NoProcess(t) => NoProcess(t)'),
         (\A t \in Sandboxes : Usable(t) => Usable(t)') => LaunchInv(w)'
  PROVE  Inv'
<1>1. w \in Threads /\ w # Boot /\ Boot \in Threads /\ Workers \subseteq Threads
  BY ManagerAssumption DEF Threads
<1>2. \A v \in Threads \ {w} : job'[v] = job[v]
  BY DEF Others
<1>3. ASSUME NEW t, Usable(t) PROVE Usable(t)'
  <2>1. Marking(t) => Marking(t)'
    BY <1>1, <1>2 DEF Marking, S
  <2> QED
    BY <1>3, <2>1 DEF Usable
<1>4. TypeInv
  BY DEF Inv
<1>5. StageInv'
  <2>1. stage # "leases" /\ stage # "deleting"
    BY DEF Starting
  <2> QED
    BY <1>1, <1>2, <2>1 DEF Inv, StageInv
<1>6. \A s \in Sandboxes : SandboxInv(s)'
  <2> SUFFICES ASSUME NEW s \in Sandboxes PROVE SandboxInv(s)'
    OBVIOUS
  <2>1. SandboxInv(s)
    BY DEF Inv
  <2> QED
    BY <1>3, <2>1 DEF SandboxInv, Empty
<1>7. \A v \in Workers : LaunchInv(v)'
  <2>1. LaunchInv(w)'
    BY <1>3
  <2> SUFFICES ASSUME NEW v \in Workers, v # w PROVE LaunchInv(v)'
    BY <2>1
  <2>2. job'[v] = job[v] /\ ledger'.runtime[v] = ledger.runtime[v] /\ process'[v] = process[v] /\ LaunchInv(v)
    BY <1>1, <1>2 DEF Inv
  <2>3. ledger'.runtime[v] # None => (Usable(ledger.runtime[v].sandbox))'
    <3>1. PICK t : t = ledger.runtime[v].sandbox
      OBVIOUS
    <3>2. ledger'.runtime[v] # None => Usable(t)'
      BY <1>3, <2>2, <3>1 DEF LaunchInv
    <3> QED
      BY <2>2, <3>1, <3>2
  <2> QED
    BY <2>2, <2>3 DEF LaunchInv, S
<1>8. ASSUME NEW v \in Threads, v # w, job[v].pc \in HeldLabels
      PROVE  S(v) \in Sandboxes
  <2>1. job[v].pc # "idle"
    BY <1>8 DEF HeldLabels, CreateLabels, MarkLabels, WaitLabels, DestroyLabels, RemoveLabels
  <2> QED
    BY <1>4, <2>1, WorkerAt, BootAt DEF Threads
<1>9. \A v \in Workers : Creating(v)'
  <2> SUFFICES ASSUME NEW v \in Workers, v # w PROVE Creating(v)'
    BY Rests
  <2>1. job'[v] = job[v] /\ Creating(v) /\ v \in Threads
    BY <1>1, <1>2 DEF Inv
  <2>2. PICK t : t = S(v)
    OBVIOUS
  <2>3. job[v].pc \in CreateLabels => (NoToken(t) => NoToken(t)') /\ (NoProcess(t) => NoProcess(t)')
    <3> SUFFICES ASSUME job[v].pc \in CreateLabels
        PROVE  (NoToken(t) => NoToken(t)') /\ (NoProcess(t) => NoProcess(t)')
      OBVIOUS
    <3>1. Closed(t) /\ NoToken(t) /\ NoProcess(t)
      BY <2>1, <2>2 DEF Creating, Closed
    <3>2. t \in Sandboxes
      BY <1>8, <2>1, <2>2 DEF HeldLabels
    <3> QED
      BY <3>1, <3>2
  <2> QED
    BY <2>1, <2>2, <2>3, CreatingFrame
<1>10. \A v \in Threads : Deleting(v)'
  <2> SUFFICES ASSUME NEW v \in Threads, v # w PROVE Deleting(v)'
    BY Rests
  <2>1. job'[v] = job[v] /\ Deleting(v)
    BY <1>2 DEF Inv
  <2>2. PICK t : t = S(v)
    OBVIOUS
  <2>3. job[v].pc \in DestroyLabels => t \in Sandboxes /\ Closed(t) /\ NoToken(t)
    BY <1>8, <2>1, <2>2 DEF Deleting, HeldLabels
  <2>4. job[v].pc \in DestroyLabels => (NoToken(t) => NoToken(t)')
    BY <2>3
  <2>5. job[v].pc \in RemoveLabels => (NoProcess(t) => NoProcess(t)')
    BY <2>3 DEF DestroyLabels
  <2> QED
    BY <2>1, <2>2, <2>4, <2>5, DeletingFrame
<1> QED
  BY <1>5, <1>6, <1>7, <1>9, <1>10 DEF Inv

(* A request that leaves entries and processes alone.                      *)
LEMMA RequestStep ==
  ASSUME Inv, NEW w \in Workers, job[w].pc # "mark_rename", job'[w].pc \in Unbusy, Others(w),
         disk' = disk, lease' = lease, ledger' = ledger, process' = process,
         stage' = stage, todo' = todo, stage \notin Starting,
         JobsOK', DOMAIN lifecycle' = Sandboxes, lock_entries' \subseteq Sandboxes,
         LockInv', LockEntryOutlivesUsers',
         job'[w].pc \notin {"spawn", "finish_launch"},
         job'[w].pc \in {"begin_launch", "unlock"} => job'[w].handle # None \/ job'[w].next = "idle",
         job'[w].pc = "begin_launch" => job'[w].handle # None
  PROVE  Inv'
<1>1. TypeInv /\ ShutdownBarrier /\ LaunchInv(w)
  BY DEF Inv
<1>2. TypeInv' /\ ShutdownBarrier'
  BY <1>1 DEF TypeInv, ShutdownBarrier
<1>3. \A t \in Sandboxes : Closed(t) /\ NoToken(t) => NoToken(t)' /\ (NoProcess(t) => NoProcess(t)')
  BY DEF NoToken, NoProcess
<1>4. ASSUME \A t \in Sandboxes : Usable(t) => Usable(t)'
      PROVE  LaunchInv(w)'
  <2>1. ledger.runtime[w] # None => ledger.runtime[w].sandbox \in Sandboxes
    BY SMTT(30), <1>1, LedgerAt DEF Runtimes
  <2>2. PICK t : t = ledger.runtime[w].sandbox
    OBVIOUS
  <2>3. ledger'.runtime[w] # None => Usable(t)'
    BY <1>1, <1>4, <2>1, <2>2 DEF LaunchInv
  <2>4. ledger'.runtime[w] # None => (Usable(ledger.runtime[w].sandbox))'
    BY <2>2, <2>3
  <2>5. "idle" # "begin_launch"
    OBVIOUS
  <2> QED
    BY <1>1, <2>4, <2>5 DEF LaunchInv
<1> QED
  BY <1>1, <1>2, <1>3, <1>4, OuterStep

LEMMA BeginInv ==
  ASSUME Inv, NEW w \in Workers, Begin(w)
  PROVE  Inv'
<1>1. PICK op \in Ops \ {"shutdown"}, o \in Principals, s \in Sandboxes :
         /\ job' = [job EXCEPT ![w] = [pc |-> "lock", op |-> op, who |-> o, sandbox |-> s,
                                       next |-> "idle", lease |-> None, handle |-> None]]
         /\ lock_entries' = lock_entries \union {s}
  BY DEF Begin
<1>2. /\ job[w].pc = "idle" /\ stage \in Serving
      /\ disk' = disk /\ lease' = lease /\ ledger' = ledger /\ process' = process
      /\ lifecycle' = lifecycle /\ stage' = stage /\ todo' = todo
  BY DEF Begin, At, stages
<1>3. PICK x : x = [pc |-> "lock", op |-> op, who |-> o, sandbox |-> s,
                    next |-> "idle", lease |-> None, handle |-> None]
  OBVIOUS
<1>4. op \in {"launch", "delete"}
  BY ManagerAssumption
<1>5. x \in WorkerJobs /\ x.pc = "lock" /\ x.sandbox = s
  BY SMTT(30), <1>3, <1>4 DEF WorkerJobs
<1>6. TypeInv /\ LockInv /\ LockEntryOutlivesUsers /\ w \in Threads /\ w # Boot
  BY ManagerAssumption DEF Inv, Threads
<1>7. JobsOK' /\ Others(w) /\ job'[w] = x
  BY <1>1, <1>3, <1>5, <1>6, OneJob
<1>8. \A v \in Workers \ {w} : job'[v] = job[v]
  BY <1>7 DEF Others, Threads
<1>9. "lock" \notin HeldLabels
  BY SMT DEF HeldLabels, CreateLabels, MarkLabels, WaitLabels, DestroyLabels, RemoveLabels
<1>10. LockInv'
  BY <1>2, <1>5, <1>6, <1>7, <1>8, <1>9 DEF LockInv, Held, S
<1>11. LockEntryOutlivesUsers'
  <2> SUFFICES ASSUME NEW v \in Workers, (job[v].pc \notin {"idle"} \union LaunchLabels)'
      PROVE  (S(v) \in lock_entries)'
    BY DEF LockEntryOutlivesUsers
  <2>1. lock_entries' = lock_entries \union {s}
    BY <1>1
  <2>2. CASE v = w
    BY <1>5, <1>7, <2>1, <2>2 DEF S
  <2>3. CASE v # w
    BY <1>6, <1>8, <2>1, <2>3 DEF LockEntryOutlivesUsers, S
  <2> QED
    BY <2>2, <2>3
<1>12. stage \notin Starting
  BY <1>2 DEF Serving, Starting
<1>13. lock_entries' \subseteq Sandboxes /\ DOMAIN lifecycle' = Sandboxes
  BY <1>1, <1>2, <1>6 DEF TypeInv
<1>14. job'[w].pc = "lock" /\ job'[w].pc \in Unbusy
  BY <1>5, <1>7 DEF Unbusy
<1> QED
  BY <1>2, <1>7, <1>10, <1>11, <1>12, <1>13, <1>14, RequestStep

(* A request at work is served.                                            *)
LEMMA Served ==
  ASSUME Inv, NEW w \in Workers, job[w].pc # "idle"
  PROVE  stage \notin Starting
BY DEF Inv, StageInv

LEMMA LockTaken ==
  ASSUME Inv, NEW w \in Workers, Lock(w)
  PROVE  Inv'
<1>1. /\ job[w].pc = "lock" /\ lifecycle[S(w)] = None
      /\ lifecycle' = [lifecycle EXCEPT ![S(w)] = w]
      /\ disk' = disk /\ lease' = lease /\ ledger' = ledger /\ process' = process
      /\ lock_entries' = lock_entries /\ stage' = stage /\ todo' = todo
  BY DEF Lock, At, stages
<1>2. PICK p \in {"claim", "delete"} : Go(w, p)
  BY DEF Lock
<1>3. p \in WorkerLabels /\ p \in Unbusy /\ p # "idle" /\ p \notin LaunchLabels /\ p # "unlock"
  BY DEF WorkerLabels, HeldLabels, Unbusy, LaunchLabels
<1>4. TypeInv /\ LockInv /\ LockEntryOutlivesUsers /\ job[w].pc # "idle"
  BY <1>1 DEF Inv
<1>5. S(w) \in Sandboxes /\ w \in Threads
  BY <1>4, WorkerAt
<1>6. JobsOK' /\ Others(w) /\ Went(w, p)
  BY <1>2, <1>3, <1>4, Goes
<1>7. job'[w].pc = p /\ S(w)' = S(w)
  BY <1>6 DEF Went, S
<1>8. \A v \in Workers \ {w} : job'[v] = job[v] /\ S(v)' = S(v)
  BY <1>6 DEF Others, Threads, S
<1>9. DOMAIN lifecycle = Sandboxes
  BY <1>4 DEF TypeInv
<1>10. /\ lifecycle'[S(w)] = w /\ DOMAIN lifecycle' = Sandboxes
       /\ \A t \in Sandboxes : t # S(w) => lifecycle'[t] = lifecycle[t]
  BY <1>1, <1>5, <1>9
<1>11. LockInv'
  <2> SUFFICES ASSUME NEW v \in Workers, v # w, Held(v)' PROVE (lifecycle[S(v)] = v)'
    BY <1>7, <1>10 DEF LockInv
  <2>1. Held(v)
    BY <1>8 DEF Held
  <2>2. lifecycle[S(v)] = v /\ v # None
    BY <1>4, <2>1, ManagerAssumption DEF LockInv
  <2>3. S(v) \in Sandboxes /\ S(v) # S(w)
    BY <1>1, <2>1, <2>2, AtWork DEF Held
  <2> QED
    BY <1>8, <1>10, <2>2, <2>3
<1>12. LockEntryOutlivesUsers'
  <2>1. "lock" # "idle" /\ "lock" \notin LaunchLabels
    BY DEF LaunchLabels
  <2>2. S(w) \in lock_entries
    BY <1>1, <1>4, <2>1 DEF LockEntryOutlivesUsers
  <2> QED
    BY <1>1, <1>4, <1>7, <1>8, <2>2 DEF LockEntryOutlivesUsers
<1>13. lock_entries' \subseteq Sandboxes /\ stage \notin Starting
  BY <1>1, <1>4, Served DEF TypeInv
<1>14. p \notin {"spawn", "finish_launch", "begin_launch", "unlock"} /\ job[w].pc # "mark_rename"
  BY <1>1
<1> QED
  BY <1>1, <1>3, <1>6, <1>7, <1>10, <1>11, <1>12, <1>13, <1>14, RequestStep

-----------------------------------------------------------------------------
(* A launch.  Its entry is new only while its sandbox is published, and    *)
(* its process only while it has an entry.                                 *)

LEMMA LaunchStep ==
  ASSUME Inv, NEW w \in Workers, job[w].pc \in LaunchLabels,
         JobsOK', Others(w), job'[w].pc \in {"idle"} \union LaunchLabels,
         disk' = disk, lease' = lease, UNCHANGED <<locks, stage, todo>>,
         ledger' \in Ledgers, ledger'.records = ledger.records,
         process' \in [Workers -> Processes \union {None}],
         \A v \in Workers \ {w} : ledger'.runtime[v] = ledger.runtime[v] /\ process'[v] = process[v],
         \/ ledger'.runtime[w] = None
         \/ /\ ledger.runtime[w] # None /\ ledger'.runtime[w].sandbox = ledger.runtime[w].sandbox
            /\ ledger.runtime[w].cancelled => ledger'.runtime[w].cancelled
         \/ /\ stage = "ready" /\ ledger.records[ledger'.runtime[w].sandbox] # None
            /\ ledger.records[ledger'.runtime[w].sandbox].state = "Active",
         \/ process'[w] = None
         \/ process[w] # None /\ process'[w].sandbox = process[w].sandbox
         \/ stage # "stopped" /\ ledger.runtime[w] # None /\ ledger.runtime[w].sandbox = process'[w].sandbox,
         job'[w].pc \in {"spawn", "finish_launch"} =>
            /\ ledger'.runtime[w] # None /\ ledger'.runtime[w].sandbox = job'[w].sandbox
            /\ ledger'.runtime[w].marker = "Launching",
         job'[w].pc \in {"begin_launch", "spawn"} => job'[w].handle # None
  PROVE  Inv'
<1>1. /\ TypeInv /\ LockInv /\ LockEntryOutlivesUsers /\ ShutdownBarrier /\ LaunchInv(w)
      /\ \A s \in Sandboxes : SandboxInv(s)
  BY DEF Inv
<1>2. /\ "mark_rename" \notin LaunchLabels /\ "idle" \notin LaunchLabels
      /\ LaunchLabels \cap HeldLabels = {} /\ "idle" \notin HeldLabels
      /\ {"idle"} \union LaunchLabels \subseteq Unbusy /\ "unlock" \notin {"idle"} \union LaunchLabels
  BY SMT DEF LaunchLabels, Unbusy, HeldLabels, CreateLabels, MarkLabels, WaitLabels, DestroyLabels, RemoveLabels
<1>3. stage \notin Starting
  BY <1>2, Served
<1>4. stage' = stage /\ todo' = todo /\ lifecycle' = lifecycle /\ lock_entries' = lock_entries
  BY DEF locks
<1>5. disk \in [Sandboxes -> Directories] /\ lease \in [Sandboxes -> Leases \union {None}]
  BY <1>1 DEF TypeInv
<1>6. TypeInv'
  BY <1>1, <1>5, Types
<1>7. \A v \in Workers \ {w} : job'[v] = job[v] /\ S(v)' = S(v)
  BY DEF Others, Threads, S
<1>8. LockInv' /\ LockEntryOutlivesUsers'
  <2>0. job'[w].pc \notin HeldLabels
    BY <1>2
  <2>1. LockInv'
    BY <1>1, <1>4, <1>7, <2>0 DEF LockInv, Held
  <2>2. LockEntryOutlivesUsers'
    BY <1>1, <1>4, <1>7 DEF LockEntryOutlivesUsers
  <2> QED
    BY <2>1, <2>2
<1>9. ShutdownBarrier'
  <2>1. "ready" \notin {"stopping", "stopped", "dirty"}
    OBVIOUS
  <2> QED
    BY <1>1, <1>4, <2>1 DEF ShutdownBarrier
<1>10. ASSUME NEW t \in Sandboxes, Closed(t), NoToken(t)
       PROVE  NoToken(t)' /\ (NoProcess(t) => NoProcess(t)')
  <2>1. "Active" # "Deleting"
    OBVIOUS
  <2>2. ledger'.runtime[w] # None => ledger'.runtime[w].sandbox # t
    BY <1>10, <2>1 DEF NoToken, Closed
  <2>3. NoToken(t)'
    BY <1>10, <2>2 DEF NoToken
  <2>4. NoProcess(t) /\ process'[w] # None => process'[w].sandbox # t
    BY <1>10 DEF NoToken, NoProcess
  <2>5. NoProcess(t) => NoProcess(t)'
    BY <2>4 DEF NoProcess
  <2> QED
    BY <2>3, <2>5
<1>11. ASSUME \A t \in Sandboxes : Usable(t) => Usable(t)'
       PROVE  LaunchInv(w)'
  <2>1. ledger'.runtime[w] # None => ledger'.runtime[w].sandbox \in Sandboxes
    BY SMT DEF Ledgers, Runtimes
  <2>2. PICK t : t = ledger'.runtime[w].sandbox
    OBVIOUS
  <2>3. ledger'.runtime[w] # None => Usable(t)
    BY <1>1, <2>1, <2>2 DEF LaunchInv, SandboxInv
  <2>4. ledger'.runtime[w] # None => Usable(t)'
    BY <1>11, <2>1, <2>2, <2>3
  <2>5. (ledger.runtime[w] # None => Usable(ledger.runtime[w].sandbox))'
    BY <2>2, <2>4
  <2>6. process'[w] # None => disk'[process'[w].sandbox].dir /\ disk'[process'[w].sandbox].workspace
    BY <1>1 DEF LaunchInv, Usable
  <2>7. job'[w].pc # "unlock"
    BY <1>2
  <2> QED
    BY <2>5, <2>6, <2>7 DEF LaunchInv, S
<1> QED
  BY <1>2, <1>3, <1>4, <1>6, <1>8, <1>9, <1>10, <1>11, OuterStep

(* One entry of the ledger, set.                                           *)
LEMMA SetsEntry ==
  ASSUME TypeInv, NEW w \in Workers, NEW x \in Runtimes \union {None}, ledger' = [ledger EXCEPT !.runtime[w] = x]
  PROVE  /\ ledger' \in Ledgers /\ ledger'.records = ledger.records /\ ledger'.runtime[w] = x
         /\ \A v \in Workers \ {w} : ledger'.runtime[v] = ledger.runtime[v]
<1>1. ledger.runtime \in [Workers -> Runtimes \union {None}] /\ ledger \in Ledgers
  BY LedgerAt DEF TypeInv
<1>2. PICK f : f = [ledger.runtime EXCEPT ![w] = x]
  OBVIOUS
<1>3. /\ f \in [Workers -> Runtimes \union {None}] /\ f[w] = x
      /\ \A u \in Workers \ {w} : f[u] = ledger.runtime[u]
  BY <1>1, <1>2
<1>4. ledger' = [ledger EXCEPT !.runtime = f]
  BY SMTT(30), <1>1, <1>2 DEF Ledgers
<1>5. ledger' \in Ledgers /\ ledger'.records = ledger.records /\ ledger'.runtime = f
  BY <1>3, <1>4, SetsRuntime
<1> QED
  BY <1>3, <1>5

LEMMA Clears ==
  ASSUME TypeInv, NEW w \in Workers, clear_runtime(w)
  PROVE  /\ ledger' \in Ledgers /\ ledger'.records = ledger.records
         /\ ledger'.runtime[w] = None \/ (ledger.runtime[w] # None /\ ledger'.runtime[w] = ledger.runtime[w])
         /\ \A v \in Workers \ {w} : ledger'.runtime[v] = ledger.runtime[v]
<1>1. CASE Cleared(w)
  BY <1>1, SetsEntry DEF clear_runtime
<1>2. CASE ~Cleared(w)
  BY <1>2 DEF clear_runtime, TypeInv
<1> QED
  BY <1>1, <1>2

LEMMA Returns ==
  ASSUME TypeInv, NEW w \in Workers, Return(w)
  PROVE  /\ JobsOK' /\ Others(w) /\ job'[w].pc \in {"idle"} \union LaunchLabels
         /\ job'[w].pc \notin {"begin_launch", "spawn", "finish_launch"}
<1>1. JobsOK' /\ Others(w) /\ job'[w].pc = "idle"
  BY Stops DEF Return, Threads
<1> QED
  BY <1>1

LEMMA LaunchGoes ==
  ASSUME TypeInv, NEW w \in Workers, job[w].pc # "idle", NEW p \in LaunchLabels, Go(w, p)
  PROVE  /\ JobsOK' /\ Others(w) /\ job'[w].pc \in {"idle"} \union LaunchLabels
         /\ job'[w].pc = p /\ job'[w].sandbox = S(w) /\ job'[w].handle = job[w].handle
<1>1. JobsOK' /\ Others(w) /\ Went(w, p) /\ w # Boot
  BY Goes, WorkerAt DEF WorkerLabels
<1> QED
  BY <1>1 DEF Went, S

(* A launch that ends: with or without its entry, and no new process.      *)
LEMMA LaunchEnds ==
  ASSUME Inv, NEW w \in Workers, job[w].pc \in LaunchLabels, clear_runtime(w), Return(w),
         process' = process, disk' = disk, lease' = lease, UNCHANGED <<locks, stage, todo>>
  PROVE  Inv'
<1>1. TypeInv
  BY DEF Inv
<1>2. process' \in [Workers -> Processes \union {None}]
  BY <1>1 DEF TypeInv
<1>3. /\ ledger' \in Ledgers /\ ledger'.records = ledger.records
      /\ ledger'.runtime[w] = None \/ (ledger.runtime[w] # None /\ ledger'.runtime[w] = ledger.runtime[w])
      /\ \A v \in Workers \ {w} : ledger'.runtime[v] = ledger.runtime[v]
  BY <1>1, Clears
<1>4. /\ JobsOK' /\ Others(w) /\ job'[w].pc \in {"idle"} \union LaunchLabels
      /\ job'[w].pc \notin {"begin_launch", "spawn", "finish_launch"}
  BY <1>1, Returns
<1> QED
  BY <1>2, <1>3, <1>4, LaunchStep

(* A launch that goes on to be terminated.                                 *)
LEMMA LaunchDoomed ==
  ASSUME Inv, NEW w \in Workers, job[w].pc \in LaunchLabels, process' = Doomed({w}), Go(w, "terminate"),
         ledger' = ledger, disk' = disk, lease' = lease, UNCHANGED <<locks, stage, todo>>
  PROVE  Inv'
<1>1. TypeInv /\ job[w].pc # "idle"
  BY DEF Inv, LaunchLabels
<1>2. process' \in [Workers -> Processes \union {None}] /\ ProcessShrinks
  BY <1>1, Dooms DEF ProcessKept
<1>3. \A v \in Workers \ {w} : process'[v] = process[v]
  BY DEF Doomed
<1>4. /\ JobsOK' /\ Others(w) /\ job'[w].pc \in {"idle"} \union LaunchLabels /\ job'[w].pc = "terminate"
  BY <1>1, LaunchGoes DEF LaunchLabels
<1>5. ledger' \in Ledgers
  BY <1>1 DEF TypeInv
<1>6. "terminate" \notin {"begin_launch", "spawn", "finish_launch"}
  OBVIOUS
<1> QED
  BY <1>2, <1>3, <1>4, <1>5, <1>6, LaunchStep DEF ProcessShrinks

LEMMA BeginLaunchInv ==
  ASSUME Inv, NEW w \in Workers, begin_launch(w)
  PROVE  Inv'
<1>1. job[w].pc = "begin_launch" /\ job[w].pc \in LaunchLabels /\ job[w].pc # "idle"
  BY DEF begin_launch, At, LaunchLabels
<1>2. TypeInv /\ LaunchInv(w)
  BY DEF Inv
<1>3. disk' = disk /\ lease' = lease /\ process' = process /\ UNCHANGED <<locks, stage, todo>>
  BY DEF begin_launch, stages
<1>4. process' \in [Workers -> Processes \union {None}]
  BY <1>2, <1>3 DEF TypeInv
<1>5. CASE ~Admits(w)
  <2>1. Return(w) /\ ledger' = ledger
    BY <1>5 DEF begin_launch
  <2>2. /\ JobsOK' /\ Others(w) /\ job'[w].pc \in {"idle"} \union LaunchLabels
        /\ job'[w].pc \notin {"begin_launch", "spawn", "finish_launch"}
    BY <1>2, <2>1, Returns
  <2>3. ledger' \in Ledgers
    BY <1>2, <2>1 DEF TypeInv
  <2> QED
    BY <1>1, <1>3, <1>4, <2>1, <2>2, <2>3, LaunchStep
<1>6. CASE Admits(w)
  <2>1. PICK s \in Sandboxes : s = S(w)
    BY <1>1, <1>2, WorkerAt
  <2>2. PICK x : x = [sandbox |-> s, marker |-> "Launching", cancelled |-> FALSE]
    OBVIOUS
  <2>3. x \in Runtimes /\ x.sandbox = s /\ x.marker = "Launching"
    BY SMTT(30), <2>2 DEF Runtimes
  <2>4. ledger' = [ledger EXCEPT !.runtime[w] = x] /\ Go(w, "spawn")
    BY <1>6, <2>1, <2>2 DEF begin_launch
  <2>5. /\ ledger' \in Ledgers /\ ledger'.records = ledger.records /\ ledger'.runtime[w] = x
        /\ \A v \in Workers \ {w} : ledger'.runtime[v] = ledger.runtime[v]
    BY <1>2, <2>3, <2>4, SetsEntry
  <2>6. /\ JobsOK' /\ Others(w) /\ job'[w].pc \in {"idle"} \union LaunchLabels
        /\ job'[w].pc = "spawn" /\ job'[w].sandbox = s /\ job'[w].handle = job[w].handle
    BY <1>1, <1>2, <2>1, <2>4, LaunchGoes DEF LaunchLabels
  <2>7. job[w].handle # None
    BY <1>1, <1>2 DEF LaunchInv
  <2>8. stage = "ready" /\ ledger.records[s] # None /\ ledger.records[s].state = "Active"
    <3>1. stage = "ready" /\ ledger.records[s] = Meta("Active", job[w].handle.owner)
      BY <1>6, <2>1 DEF Admits
    <3>2. job[w].handle \in Handles
      BY SMTT(30), <1>1, <1>2, <2>7, WorkerAt DEF WorkerJobs
    <3>3. Meta("Active", job[w].handle.owner) \in Metadata /\ Meta("Active", job[w].handle.owner).state = "Active"
      BY SMTT(30), <3>2 DEF Handles, Meta, Metadata
    <3> QED
      BY <3>1, <3>3, ManagerAssumption
  <2>9. x # None
    BY <2>3, ManagerAssumption
  <2> QED
    BY <1>1, <1>3, <1>4, <2>3, <2>5, <2>6, <2>7, <2>8, <2>9, LaunchStep
<1> QED
  BY <1>5, <1>6

LEMMA SpawnInv ==
  ASSUME Inv, NEW w \in Workers, Spawn(w)
  PROVE  Inv'
<1>1. job[w].pc = "spawn" /\ job[w].pc \in LaunchLabels /\ job[w].pc # "idle"
  BY DEF Spawn, At, LaunchLabels
<1>2. TypeInv /\ LaunchInv(w)
  BY DEF Inv
<1>3. disk' = disk /\ lease' = lease /\ UNCHANGED <<locks, stage, todo>>
  BY DEF Spawn, stages
<1>4. CASE clear_runtime(w) /\ Return(w) /\ process' = process
  BY <1>1, <1>3, <1>4, LaunchEnds
<1>5. CASE /\ Launchable(w) /\ Go(w, "finish_launch") /\ ledger' = ledger
           /\ process' = [process EXCEPT ![w] = [sandbox |-> S(w), pair |-> job[w].handle.pair,
                                                 leader |-> TRUE, doomed |-> FALSE]]
  <2>1. PICK s \in Sandboxes : s = S(w)
    BY <1>1, <1>2, WorkerAt
  <2>2. /\ job[w].handle # None
        /\ ledger.runtime[w] # None /\ ledger.runtime[w].sandbox = s /\ ledger.runtime[w].marker = "Launching"
    BY <1>1, <1>2, <2>1 DEF LaunchInv
  <2>3. job[w].handle \in Handles
    BY SMTT(30), <1>1, <1>2, <2>2, WorkerAt DEF WorkerJobs
  <2>4. PICK x : x = [sandbox |-> s, pair |-> job[w].handle.pair, leader |-> TRUE, doomed |-> FALSE]
    OBVIOUS
  <2>5. x \in Processes /\ x.sandbox = s
    BY SMTT(30), <2>3, <2>4 DEF Processes, Handles
  <2>6. process \in [Workers -> Processes \union {None}] /\ process' = [process EXCEPT ![w] = x]
    BY <1>2, <1>5, <2>1, <2>4 DEF TypeInv
  <2>7. /\ process' \in [Workers -> Processes \union {None}] /\ process'[w] = x
        /\ \A v \in Workers \ {w} : process'[v] = process[v]
    BY <2>5, <2>6
  <2>8. /\ JobsOK' /\ Others(w) /\ job'[w].pc \in {"idle"} \union LaunchLabels
        /\ job'[w].pc = "finish_launch" /\ job'[w].sandbox = s
    BY <1>1, <1>2, <1>5, <2>1, LaunchGoes DEF LaunchLabels
  <2>9. ledger' \in Ledgers /\ stage # "stopped"
    BY <1>2, <1>5 DEF TypeInv, Launchable
  <2>10. "finish_launch" \notin {"begin_launch", "spawn"}
    OBVIOUS
  <2> QED
    BY <1>1, <1>3, <1>5, <2>2, <2>5, <2>7, <2>8, <2>9, <2>10, LaunchStep
<1> QED
  BY <1>4, <1>5 DEF Spawn

LEMMA FinishLaunchInv ==
  ASSUME Inv, NEW w \in Workers, finish_launch(w)
  PROVE  Inv'
<1>1. job[w].pc = "finish_launch" /\ job[w].pc \in LaunchLabels /\ job[w].pc # "idle"
  BY DEF finish_launch, At, LaunchLabels
<1>2. TypeInv
  BY DEF Inv
<1>3. disk' = disk /\ lease' = lease /\ UNCHANGED <<locks, stage, todo>>
  BY DEF finish_launch, stages
<1>4. CASE ~Commits(w)
  BY <1>1, <1>3, <1>4, LaunchDoomed DEF finish_launch
<1>5. CASE Commits(w)
  <2>1. ledger.runtime[w] # None /\ process' = process /\ Go(w, "running")
        /\ ledger' = [ledger EXCEPT !.runtime[w].marker = "Running"]
    BY <1>5 DEF Commits, finish_launch
  <2>2. PICK y \in Runtimes : y = ledger.runtime[w]
    BY <1>2, <2>1, LedgerAt
  <2>3. PICK x : x = [y EXCEPT !.marker = "Running"]
    OBVIOUS
  <2>4. x \in Runtimes /\ x.sandbox = y.sandbox /\ x.cancelled = y.cancelled
    BY SMTT(30), <2>3 DEF Runtimes
  <2>5. ledger' = [ledger EXCEPT !.runtime[w] = x]
    <3>1. ledger \in Ledgers
      BY <1>2 DEF TypeInv
    <3> QED
      BY SMTT(30), <2>1, <2>2, <2>3, <3>1 DEF Ledgers
  <2>6. /\ ledger' \in Ledgers /\ ledger'.records = ledger.records /\ ledger'.runtime[w] = x
        /\ \A v \in Workers \ {w} : ledger'.runtime[v] = ledger.runtime[v]
    BY <1>2, <2>4, <2>5, SetsEntry
  <2>7. /\ JobsOK' /\ Others(w) /\ job'[w].pc \in {"idle"} \union LaunchLabels
        /\ job'[w].pc = "running"
    BY <1>1, <1>2, <2>1, LaunchGoes DEF LaunchLabels
  <2>8. process' \in [Workers -> Processes \union {None}]
    BY <1>2, <2>1 DEF TypeInv
  <2>9. "running" \notin {"begin_launch", "spawn", "finish_launch"}
    OBVIOUS
  <2> QED
    BY <1>1, <1>3, <2>1, <2>2, <2>4, <2>6, <2>7, <2>8, <2>9, LaunchStep
<1> QED
  BY <1>4, <1>5

LEMMA LaunchOverInv ==
  ASSUME Inv, NEW w \in Workers, Terminate(w) \/ Unpublished(w) \/ EndChannel(w)
  PROVE  Inv'
<1>1. job[w].pc \in LaunchLabels
  BY DEF Terminate, Unpublished, EndChannel, At, LaunchLabels
<1>2. disk' = disk /\ lease' = lease /\ UNCHANGED <<locks, stage, todo>>
  BY DEF Terminate, Unpublished, EndChannel, stages
<1>3. CASE Terminate(w) \/ EndChannel(w)
  BY <1>1, <1>2, <1>3, LaunchEnds DEF Terminate, EndChannel
<1>4. CASE Unpublished(w)
  BY <1>1, <1>2, <1>4, LaunchDoomed DEF Unpublished
<1> QED
  BY <1>3, <1>4

-----------------------------------------------------------------------------
(* Steps of the daemon as a whole, and exits.                              *)

LEMMA ManagerStep ==
  ASSUME Inv, job' = job, disk' = disk, lease' = lease, UNCHANGED locks,
         ledger' \in Ledgers, ledger'.records = ledger.records, RuntimeShrinks, ProcessKept,
         TypeInv', StageInv', ShutdownBarrier'
  PROVE  Inv'
<1>1. lifecycle' = lifecycle /\ lock_entries' = lock_entries /\ ProcessShrinks
  BY DEF locks, ProcessKept
<1>2. LockInv' /\ LockEntryOutlivesUsers'
  BY <1>1 DEF Inv, LockInv, LockEntryOutlivesUsers, Held, S
<1>3. ASSUME NEW t PROVE Usable(t) <=> Usable(t)'
  BY DEF Usable, Marking, S
<1>4. \A s \in Sandboxes : SandboxInv(s)'
  <2> SUFFICES ASSUME NEW s \in Sandboxes PROVE SandboxInv(s)'
    OBVIOUS
  <2>1. SandboxInv(s)
    BY DEF Inv
  <2> QED
    BY <1>3, <2>1 DEF SandboxInv, Empty
<1>5. \A v \in Workers : LaunchInv(v)'
  <2> SUFFICES ASSUME NEW v \in Workers PROVE LaunchInv(v)'
    OBVIOUS
  <2>1. LaunchInv(v)
    BY DEF Inv
  <2>2. PICK t : t = ledger'.runtime[v].sandbox
    OBVIOUS
  <2>3. ledger'.runtime[v] # None => Usable(t)
    BY <2>1, <2>2 DEF LaunchInv, RuntimeShrinks
  <2>4. ledger'.runtime[v] # None => Usable(t)'
    BY <1>3, <2>3
  <2>5. (ledger.runtime[v] # None => Usable(ledger.runtime[v].sandbox))'
    BY <2>2, <2>4
  <2>6. process'[v] # None => disk'[process'[v].sandbox].dir /\ disk'[process'[v].sandbox].workspace
    BY <1>1, <2>1 DEF LaunchInv, ProcessShrinks
  <2>7. job[v].pc \in {"spawn", "finish_launch"} =>
           /\ ledger'.runtime[v] # None /\ ledger'.runtime[v].sandbox = S(v)
           /\ ledger'.runtime[v].marker = "Launching"
    BY <2>1 DEF LaunchInv, RuntimeShrinks
  <2> QED
    BY <2>1, <2>5, <2>6, <2>7 DEF LaunchInv, S
<1>6. ASSUME NEW t PROVE (NoToken(t) => NoToken(t)') /\ (NoProcess(t) => NoProcess(t)')
  BY <1>1, Shrinks
<1>7. \A v \in Workers : Creating(v)'
  <2> SUFFICES ASSUME NEW v \in Workers PROVE Creating(v)'
    OBVIOUS
  <2>1. Creating(v)
    BY DEF Inv
  <2>2. PICK t : t = S(v)
    OBVIOUS
  <2> QED
    BY <1>6, <2>1, <2>2, CreatingFrame
<1>8. \A v \in Threads : Deleting(v)'
  <2> SUFFICES ASSUME NEW v \in Threads PROVE Deleting(v)'
    OBVIOUS
  <2>1. Deleting(v)
    BY DEF Inv
  <2>2. PICK t : t = S(v)
    OBVIOUS
  <2> QED
    BY <1>6, <2>1, <2>2, DeletingFrame
<1> QED
  BY <1>2, <1>4, <1>5, <1>7, <1>8 DEF Inv

LEMMA SameRuntime ==
  ASSUME TypeInv, ledger' = ledger
  PROVE  ledger' \in Ledgers /\ ledger'.records = ledger.records /\ RuntimeShrinks
BY DEF TypeInv, RuntimeShrinks

LEMMA ExitInv ==
  ASSUME Inv, NEW w \in Workers, Exit(w)
  PROVE  Inv'
<1>1. /\ disk' = disk /\ lease' = lease /\ ledger' = ledger /\ job' = job /\ UNCHANGED locks
      /\ stage' = stage /\ todo' = todo /\ UNCHANGED <<locks, stage, todo>>
  BY DEF Exit, stages
<1>2. TypeInv /\ StageInv /\ ShutdownBarrier /\ process \in [Workers -> Processes \union {None}]
  BY DEF Inv, TypeInv
<1>3. ASSUME NEW x \in Processes \union {None}, process' = [process EXCEPT ![w] = x],
             x # None => process[w] # None /\ x.sandbox = process[w].sandbox
      PROVE  ProcessKept
  <2>1. process' \in [Workers -> Processes \union {None}] /\ \A v \in Workers : process'[v] = IF v = w THEN x ELSE process[v]
    BY <1>2, <1>3
  <2> QED
    BY <1>3, <2>1 DEF ProcessKept, ProcessShrinks
<1>4. ProcessKept
  <2>1. CASE process' = [process EXCEPT ![w] = None]
    BY <1>3, <2>1
  <2>2. CASE process[w] # None /\ process' = [process EXCEPT ![w].leader = FALSE]
    <3>1. PICK y \in Processes : y = process[w]
      BY <1>2, <2>2
    <3>2. PICK x : x = [y EXCEPT !.leader = FALSE]
      OBVIOUS
    <3>3. x \in Processes /\ x.sandbox = y.sandbox
      BY <3>2 DEF Processes
    <3>4. process' = [process EXCEPT ![w] = x]
      BY <2>2, <3>1, <3>2
    <3> QED
      BY <1>3, <2>2, <3>1, <3>3, <3>4
  <2> QED
    BY <2>1, <2>2 DEF Exit
<1>5. JobsOK' /\ disk' \in [Sandboxes -> Directories] /\ lease' \in [Sandboxes -> Leases \union {None}]
  BY <1>1, <1>2 DEF TypeInv, JobsOK
<1>6. TypeInv'
  BY <1>1, <1>2, <1>4, <1>5, SameRuntime, Types DEF ProcessKept
<1>7. StageInv' /\ ShutdownBarrier'
  BY <1>1, <1>2, <1>4 DEF StageInv, ShutdownBarrier, ProcessKept, ProcessShrinks, Closed
<1> QED
  BY <1>1, <1>2, <1>4, <1>6, <1>7, SameRuntime, ManagerStep

LEMMA FreezeInv ==
  ASSUME Inv, Freeze
  PROVE  Inv'
<1>1. /\ disk' = disk /\ lease' = lease /\ ledger' = ledger /\ process' = process /\ job' = job
      /\ UNCHANGED locks /\ stage = "ready" /\ stage' = "frozen" /\ todo' = todo
  BY DEF Freeze
<1>2. TypeInv /\ StageInv
  BY DEF Inv
<1>3. TypeInv'
  BY <1>1, <1>2 DEF TypeInv, JobsOK, locks, Starting
<1>4. StageInv' /\ ShutdownBarrier'
  BY <1>1, <1>2 DEF StageInv, Starting, ShutdownBarrier
<1>5. ProcessKept
  BY <1>1, <1>2, SameProcesses
<1> QED
  BY <1>1, <1>2, <1>3, <1>4, <1>5, SameRuntime, ManagerStep

LEMMA CancelsAll ==
  ASSUME TypeInv, CancelAll
  PROVE  /\ ledger' \in Ledgers /\ ledger'.records = ledger.records /\ RuntimeShrinks /\ ProcessKept
         /\ \A w \in Workers : ledger'.runtime[w] # None => ledger'.runtime[w].cancelled
<1>1. \A w \in Workers : w \notin Tokens => ledger.runtime[w] = None
  BY DEF Tokens
<1>2. [w \in Workers |-> IF w \in Tokens THEN [ledger.runtime[w] EXCEPT !.cancelled = TRUE] ELSE None]
        = [v \in Workers |-> IF v \in Tokens THEN [ledger.runtime[v] EXCEPT !.cancelled = TRUE] ELSE ledger.runtime[v]]
  BY SMTT(30), <1>1
<1>3. ledger' = [ledger EXCEPT !.runtime = [v \in Workers |->
        IF v \in Tokens THEN [ledger.runtime[v] EXCEPT !.cancelled = TRUE] ELSE ledger.runtime[v]]]
  BY <1>2 DEF CancelAll
<1>4. \A v \in Tokens : v \in Workers /\ ledger.runtime[v] # None
  BY DEF Tokens
<1>5. /\ ledger' \in Ledgers /\ ledger'.records = ledger.records /\ RuntimeShrinks
      /\ \A v \in Tokens : ledger'.runtime[v] # None /\ ledger'.runtime[v].cancelled
      /\ \A v \in Workers \ Tokens : ledger'.runtime[v] = ledger.runtime[v]
  BY <1>3, <1>4, CancelsRuntime
<1>6. ProcessKept
  BY Dooms DEF CancelAll
<1> QED
  BY <1>1, <1>5, <1>6

LEMMA SnapshotInv ==
  ASSUME Inv, Snapshot \/ ForceShutdown
  PROVE  Inv'
<1>1. /\ disk' = disk /\ lease' = lease /\ job' = job /\ UNCHANGED locks /\ CancelAll
      /\ stage \in {"ready", "frozen", "stopping"} /\ stage' \in {"stopping", "dirty"}
      /\ todo' \in {Tokens, {}}
  BY DEF Snapshot, ForceShutdown, Serving
<1>2. TypeInv /\ StageInv
  BY DEF Inv
<1>3. /\ ledger' \in Ledgers /\ ledger'.records = ledger.records /\ RuntimeShrinks /\ ProcessKept
      /\ \A w \in Workers : ledger'.runtime[w] # None => ledger'.runtime[w].cancelled
  BY <1>1, <1>2, CancelsAll
<1>4. Tokens \subseteq Workers /\ todo' \subseteq Workers
  BY <1>1 DEF Tokens
<1>5. TypeInv'
  BY <1>1, <1>2, <1>3, <1>4 DEF TypeInv, JobsOK, locks, Starting, ProcessKept
<1>6. StageInv' /\ ShutdownBarrier'
  BY <1>1, <1>2, <1>3 DEF StageInv, Starting, ShutdownBarrier
<1> QED
  BY <1>1, <1>3, <1>5, <1>6, ManagerStep

LEMMA NoProcesses ==
  ASSUME process' = [w \in Workers |-> None]
  PROVE  ProcessKept /\ \A w \in Workers : process'[w] = None
<1>1. \A w \in Workers : process'[w] = None
  OBVIOUS
<1>2. process' \in [Workers -> Processes \union {None}]
  OBVIOUS
<1> QED
  BY <1>1, <1>2 DEF ProcessKept, ProcessShrinks

LEMMA StopInv ==
  ASSUME Inv, Stop
  PROVE  Inv'
<1>1. disk' = disk /\ lease' = lease /\ job' = job /\ UNCHANGED locks /\ stage = "stopping"
  BY DEF Stop
<1>2. TypeInv /\ StageInv /\ ShutdownBarrier /\ todo \subseteq Workers
  BY <1>1 DEF Inv, TypeInv
<1>3. ASSUME NEW w \in todo, ledger.runtime[w] # None => ledger.runtime[w].marker = "Running",
             ledger' = [ledger EXCEPT !.runtime[w] = None], todo' = todo \ {w}, stage' = stage, process' = process
      PROVE  Inv'
  <2>1. w \in Workers
    BY <1>2
  <2>2. /\ ledger' \in Ledgers /\ ledger'.records = ledger.records /\ ledger'.runtime[w] = None
        /\ \A v \in Workers \ {w} : ledger'.runtime[v] = ledger.runtime[v]
    BY <1>2, <1>3, <2>1, SetsEntry
  <2>3. RuntimeShrinks
    BY <1>3, <2>2 DEF RuntimeShrinks
  <2>4. ProcessKept
    BY <1>2, <1>3, SameProcesses
  <2>5. TypeInv'
    BY <1>1, <1>2, <1>3, <2>2 DEF TypeInv, JobsOK, locks, Starting
  <2>6. StageInv' /\ ShutdownBarrier'
    BY <1>1, <1>2, <1>3, <2>3 DEF StageInv, Starting, ShutdownBarrier, RuntimeShrinks
  <2> QED
    BY <1>1, <2>2, <2>3, <2>4, <2>5, <2>6, ManagerStep
<1>4. ASSUME stage' \in {"stopped", "dirty"}, ProcessKept, stage' = "stopped" => \A w \in Workers : process'[w] = None,
             todo' = {}, ledger' = ledger
      PROVE  Inv'
  <2>1. TypeInv'
    BY <1>1, <1>2, <1>4 DEF TypeInv, JobsOK, locks, Starting, ProcessKept
  <2>2. StageInv' /\ ShutdownBarrier'
    BY <1>1, <1>2, <1>4 DEF StageInv, Starting, ShutdownBarrier
  <2> QED
    BY <1>1, <1>2, <1>4, <2>1, <2>2, SameRuntime, ManagerStep
<1>5. CASE \E w \in todo :
            /\ ledger.runtime[w] # None => ledger.runtime[w].marker = "Running" /\ Reaped(w)
            /\ ledger' = [ledger EXCEPT !.runtime[w] = None]
            /\ todo' = todo \ {w} /\ UNCHANGED <<stage, process>>
  BY <1>3, <1>5
<1>6. CASE stage' = "stopped" /\ process' = [w \in Workers |-> None] /\ todo' = {} /\ ledger' = ledger
  BY <1>4, <1>6, NoProcesses
<1>7. CASE stage' = "dirty" /\ process' = process /\ todo' = {} /\ ledger' = ledger
  <2>1. ProcessKept
    BY <1>2, <1>7, SameProcesses
  <2> QED
    BY <1>4, <1>7, <2>1
<1> QED
  BY <1>5, <1>6, <1>7 DEF Stop

-----------------------------------------------------------------------------
(* The daemon dies and starts again.                                       *)

LEMMA StartStep ==
  ASSUME TypeInv', StageInv', ShutdownBarrier', Deleting(Boot)',
         \A v \in Workers : /\ job'[v].pc = "idle" /\ ledger'.runtime[v] = None
                            /\ process'[v] # None => disk'[process'[v].sandbox].dir /\ disk'[process'[v].sandbox].workspace,
         \A s \in Sandboxes : SandboxInv(s)'
  PROVE  Inv'
<1>1. LockInv' /\ LockEntryOutlivesUsers'
  BY DEF LockInv, Held, LockEntryOutlivesUsers, HeldLabels, CreateLabels, MarkLabels, WaitLabels,
               DestroyLabels, RemoveLabels
<1>2. \A v \in Workers : LaunchInv(v)'
  BY DEF LaunchInv
<1>3. \A v \in Workers : Creating(v)' /\ Deleting(v)'
  BY Rests DEF Unbusy
<1>4. \A v \in Threads : Deleting(v)'
  BY <1>3 DEF Threads
<1> QED
  BY <1>1, <1>2, <1>3, <1>4 DEF Inv

LEMMA NewLedgerOK ==
  /\ NewLedger \in Ledgers
  /\ \A s \in Sandboxes : NewLedger.records[s] = None
  /\ \A w \in Workers : NewLedger.runtime[w] = None
BY SMTT(30) DEF NewLedger, Ledgers

LEMMA CrashInv ==
  ASSUME Inv, Crash
  PROVE  Inv'
<1>1. /\ disk' = disk /\ lease' = lease /\ process' = process /\ ledger' = NewLedger
      /\ lifecycle' = [s \in Sandboxes |-> None] /\ lock_entries' = {}
      /\ job' = [w \in Threads |-> Idle] /\ stage' = "scan" /\ todo' = {}
  BY DEF Crash
<1>2. TypeInv
  BY DEF Inv
<1>3. Idle.pc = "idle"
  BY SMTT(30) DEF Idle
<1>4. DOMAIN job' = Threads /\ (\A w \in Threads : job'[w] = Idle) /\ Boot \in Threads
  BY <1>1 DEF Threads
<1>5. /\ ledger' \in Ledgers
      /\ \A s \in Sandboxes : ledger'.records[s] = None
      /\ \A w \in Workers : ledger'.runtime[w] = None
  BY <1>1, NewLedgerOK
<1>6. JobsOK'
  BY <1>4 DEF JobsOK, Threads
<1>7. TypeInv'
  BY <1>1, <1>2, <1>5, <1>6 DEF TypeInv, Starting
<1>8. (\A w \in Workers : job'[w].pc = "idle") /\ job'[Boot].pc = "idle"
  BY <1>3, <1>4 DEF Threads
<1>9. StageInv' /\ ShutdownBarrier'
  BY <1>1, <1>5, <1>8 DEF StageInv, ShutdownBarrier
<1>10. Deleting(Boot)'
  BY <1>8, Rests DEF Unbusy
<1>11. \A s \in Sandboxes : SandboxInv(s)'
  BY <1>1, <1>5 DEF Inv, SandboxInv, Empty
<1>12. \A v \in Workers : process'[v] # None => disk'[process'[v].sandbox].dir /\ disk'[process'[v].sandbox].workspace
  BY <1>1 DEF Inv, LaunchInv
<1> QED
  BY <1>5, <1>7, <1>8, <1>9, <1>10, <1>11, <1>12, StartStep

(* Before requests are served every thread of a request is idle.           *)
LEMMA AtStart ==
  ASSUME Inv, stage \in Starting, job[Boot].pc = "idle", job' = job, ledger' = ledger
  PROVE  /\ \A v \in Workers : job'[v].pc = "idle" /\ ledger'.runtime[v] = None
         /\ Deleting(Boot)'
<1>1. \A v \in Workers : job'[v].pc = "idle" /\ ledger'.runtime[v] = None
  BY DEF Inv, StageInv
<1>2. Deleting(Boot)'
  BY Rests DEF Unbusy
<1> QED
  BY <1>1, <1>2

LEMMA SweepInv ==
  ASSUME Inv, Sweep
  PROVE  Inv'
<1>1. /\ disk' = disk /\ lease' = lease /\ ledger' = ledger /\ UNCHANGED locks /\ job' = job
      /\ stage = "sweep"
  BY DEF Sweep
<1>2. TypeInv /\ StageInv
  BY DEF Inv
<1>3. (\A w \in Workers : job[w].pc = "idle" /\ ledger.runtime[w] = None) /\ job[Boot].pc = "idle"
  BY <1>1, <1>2 DEF StageInv, Starting
<1>4. ASSUME ProcessKept, stage' \in {"leases", "failed"},
             stage' = "leases" => /\ \A w \in Workers : process'[w] = None
                                  /\ todo' \subseteq Sandboxes /\ \A s \in todo' : lease[s] # None
      PROVE  Inv'
  <2>1. TypeInv'
    BY <1>1, <1>2, <1>4 DEF TypeInv, JobsOK, locks, Starting, ProcessKept
  <2>2. StageInv' /\ ShutdownBarrier'
    BY <1>1, <1>3, <1>4 DEF StageInv, ShutdownBarrier
  <2> QED
    BY <1>1, <1>2, <1>4, <2>1, <2>2, SameRuntime, ManagerStep
<1>5. CASE /\ process' = [w \in Workers |-> None] /\ stage' = "leases"
           /\ todo' = {s \in Sandboxes : lease[s] # None}
  <2>1. todo' \subseteq Sandboxes /\ \A s \in todo' : lease[s] # None
    BY <1>5
  <2>2. ProcessKept /\ \A w \in Workers : process'[w] = None
    BY <1>5, NoProcesses
  <2> QED
    BY <1>4, <1>5, <2>1, <2>2
<1>6. CASE stage' = "failed" /\ process' = process
  <2>1. ProcessKept
    BY <1>2, <1>6, SameProcesses
  <2> QED
    BY <1>4, <1>6, <2>1
<1> QED
  BY <1>5, <1>6 DEF Sweep

(* A lease keeps its owner, or goes with nothing left of its sandbox.      *)
LEMMA ReconciledLease ==
  ASSUME Inv, NEW s \in Sandboxes, lease[s] # None
  PROVE  /\ Reconciled(s) \in Leases \union {None}
         /\ Reconciled(s) = None => disk[s].metadata = None
         /\ Reconciled(s) # None => Reconciled(s).owner = lease[s].owner
<1>1. PICK l \in Leases : l = lease[s]
  BY DEF Inv, TypeInv
<1>2. PICK q : q = [l EXCEPT !.state = "Quarantined"]
  OBVIOUS
<1>3. q \in Leases /\ q.owner = l.owner
  BY SMTT(30), <1>2 DEF Leases, LeaseStates
<1>4. l # None /\ q # None
  BY <1>1, <1>3, ManagerAssumption
<1>5. inspect(s) = "Absent" => disk[s].metadata = None
  BY Inspected, AbsentIsFree DEF Inv
<1>6. CASE l.state = "Quarantined" \/ Matches(s)
  <2>1. ~(l.state = "Releasing" /\ inspect(s) = "Absent") \/ l.state = "Quarantined"
    BY <1>6 DEF Matches
  <2>2. ~(l.state = "Releasing" /\ inspect(s) = "Absent")
    BY SMTT(30), <2>1
  <2>3. Reconciled(s) = l
    BY SMTT(30), <1>1, <1>6, <2>2 DEF Reconciled
  <2> QED
    BY <1>1, <1>4, <2>3
<1>7. CASE ~(l.state = "Quarantined" \/ Matches(s)) /\ l.state = "Releasing" /\ inspect(s) = "Absent"
  <2>1. Reconciled(s) = None
    BY SMTT(30), <1>1, <1>7 DEF Reconciled
  <2> QED
    BY <1>5, <1>7, <2>1
<1>8. CASE ~(l.state = "Quarantined" \/ Matches(s)) /\ ~(l.state = "Releasing" /\ inspect(s) = "Absent")
  <2>1. Reconciled(s) = q
    BY SMTT(30), <1>1, <1>2, <1>8 DEF Reconciled
  <2> QED
    BY <1>1, <1>3, <1>4, <2>1
<1> QED
  BY <1>6, <1>7, <1>8

LEMMA ReconcileLeaseInv ==
  ASSUME Inv, ReconcileLease
  PROVE  Inv'
<1>1. /\ disk' = disk /\ ledger' = ledger /\ process' = process /\ UNCHANGED locks /\ job' = job
      /\ stage = "leases"
  BY DEF ReconcileLease
<1>2. TypeInv /\ StageInv /\ todo \subseteq Sandboxes
  BY <1>1 DEF Inv, TypeInv
<1>3. /\ \A w \in Workers : job[w].pc = "idle" /\ ledger.runtime[w] = None /\ process[w] = None
      /\ job[Boot].pc = "idle" /\ \A s \in todo : lease[s] # None
  BY <1>1, <1>2 DEF StageInv, Starting
<1>4. lease \in [Sandboxes -> Leases \union {None}]
  BY <1>2 DEF TypeInv
<1>5. ASSUME NEW s \in todo, lease' = [lease EXCEPT ![s] = Reconciled(s)], todo' = todo \ {s}, stage' = stage
      PROVE  Inv'
  <2>1. s \in Sandboxes /\ lease[s] # None
    BY <1>2, <1>3
  <2>2. PICK x : x = Reconciled(s)
    OBVIOUS
  <2>3. /\ x \in Leases \union {None}
        /\ x = None => disk[s].metadata = None
        /\ x # None => x.owner = lease[s].owner
    BY <2>1, <2>2, ReconciledLease
  <2>4. /\ lease' \in [Sandboxes -> Leases \union {None}]
        /\ \A t \in Sandboxes : lease'[t] = IF t = s THEN x ELSE lease[t]
    <3>1. lease' = [lease EXCEPT ![s] = x]
      BY <1>5, <2>2
    <3> QED
      BY <1>4, <2>1, <2>3, <3>1
  <2>5. TypeInv'
    BY <1>1, <1>2, <1>5, <2>4 DEF TypeInv, JobsOK, locks
  <2>6. StageInv' /\ ShutdownBarrier'
    BY <1>1, <1>2, <1>3, <1>5, <2>4 DEF StageInv, ShutdownBarrier
  <2>7. ASSUME NEW t \in Sandboxes PROVE SandboxInv(t)'
    <3>1. SandboxInv(t)
      BY DEF Inv
    <3>2. lease'[t] = lease[t] \/ (t = s /\ lease'[t] = x)
      BY <2>4
    <3>3. Usable(t) => Usable(t)'
      BY <1>1 DEF Usable, Marking, S
    <3>4. Isolated /\ "sync" \notin Faults /\ disk'[t].metadata # None =>
            lease'[t] # None /\ lease'[t].owner = disk'[t].metadata.owner
      BY <1>1, <2>3, <3>1, <3>2 DEF SandboxInv
    <3> QED
      BY <1>1, <3>1, <3>3, <3>4 DEF SandboxInv, Empty
  <2>8. Deleting(Boot)'
    BY <1>1, <1>3, Rests DEF Unbusy
  <2> QED
    BY <1>1, <1>3, <2>5, <2>6, <2>7, <2>8, StartStep
<1>6. ASSUME lease' = lease, stage' \in {"failed", "deleting"},
             stage' = "deleting" => todo' \subseteq Sandboxes /\ \A s \in todo' : Closed(s)
      PROVE  Inv'
  <2>1. TypeInv'
    BY <1>1, <1>2, <1>6 DEF TypeInv, JobsOK, locks, Starting
  <2>2. StageInv' /\ ShutdownBarrier'
    BY <1>1, <1>3, <1>6 DEF StageInv, ShutdownBarrier, Closed
  <2>3. ProcessKept
    BY <1>1, <1>2, SameProcesses
  <2> QED
    BY <1>1, <1>2, <1>6, <2>1, <2>2, <2>3, SameRuntime, ManagerStep
<1>7. CASE stage' = "deleting" /\ todo' = Unfinished /\ lease' = lease
  <2>1. Unfinished \subseteq Sandboxes /\ \A s \in Unfinished : Closed(s)
    BY DEF Unfinished, Closed
  <2> QED
    BY <1>6, <1>7, <2>1
<1>8. CASE stage' = "failed" /\ lease' = lease
  BY <1>6, <1>8
<1> QED
  BY <1>5, <1>7, <1>8 DEF ReconcileLease

LEMMA ReconcileDeletingInv ==
  ASSUME Inv, reconcile_deleting
  PROVE  Inv'
<1>1. /\ disk' = disk /\ lease' = lease /\ ledger' = ledger /\ process' = process /\ UNCHANGED locks
      /\ stage = "deleting" /\ job[Boot].pc = "idle"
  BY DEF reconcile_deleting, At
<1>2. TypeInv /\ StageInv /\ todo \subseteq Sandboxes /\ lease \in [Sandboxes -> Leases \union {None}]
  BY <1>1 DEF Inv, TypeInv
<1>3. /\ \A w \in Workers : job[w].pc = "idle" /\ ledger.runtime[w] = None /\ process[w] = None
      /\ \A s \in todo : Closed(s)
  BY <1>1, <1>2 DEF StageInv, Starting
<1>4. ASSUME job' = job, stage' \in {"deleting", "ready"}, todo' \subseteq todo
      PROVE  Inv'
  <2>1. TypeInv'
    BY <1>1, <1>2, <1>4 DEF TypeInv, JobsOK, locks, Starting
  <2>2. StageInv' /\ ShutdownBarrier'
    BY <1>1, <1>3, <1>4 DEF StageInv, ShutdownBarrier, Closed, Starting
  <2>3. ProcessKept
    BY <1>1, <1>2, SameProcesses
  <2> QED
    BY <1>1, <1>2, <1>4, <2>1, <2>2, <2>3, SameRuntime, ManagerStep
<1>5. ASSUME NEW s \in todo, ~(Isolated /\ lease[s] = None), todo' = todo \ {s}, stage' = stage,
             job' = [job EXCEPT ![Boot] = [pc |-> "begin_release", sandbox |-> s,
                        lease |-> IF Isolated THEN lease[s].state ELSE None]]
      PROVE  Inv'
  <2>1. s \in Sandboxes /\ Closed(s)
    BY <1>2, <1>3
  <2>2. PICK x : x = [pc |-> "begin_release", sandbox |-> s, lease |-> IF Isolated THEN lease[s].state ELSE None]
    OBVIOUS
  <2>3. Isolated => lease[s] \in Leases
    BY <1>2, <1>5, <2>1
  <2>4. Isolated => lease[s].state \in LeaseStates
    BY SMTT(30), <2>3 DEF Leases
  <2>5. x \in BootJobs /\ x.pc = "begin_release" /\ x.sandbox = s /\ (x.lease # None => Isolated)
    BY SMTT(30), <2>1, <2>2, <2>4 DEF BootJobs
  <2>6. Boot \in Threads /\ Boot \notin Workers /\ job' = [job EXCEPT ![Boot] = x]
    BY <1>5, <2>2, ManagerAssumption DEF Threads
  <2>7. JobsOK' /\ Others(Boot) /\ job'[Boot] = x
    BY <1>2, <2>5, <2>6, OneJob
  <2>8. \A w \in Workers : job'[w] = job[w]
    BY <2>6, <2>7 DEF Others, Threads
  <2>9. TypeInv'
    BY <1>1, <1>2, <1>5, <2>7 DEF TypeInv, locks
  <2>10. StageInv' /\ ShutdownBarrier'
    BY <1>1, <1>3, <1>5, <2>8 DEF StageInv, ShutdownBarrier, Closed
  <2>11. Deleting(Boot)'
    <3>1. S(Boot)' = s /\ job'[Boot].pc = "begin_release" /\ (job'[Boot].lease # None => lease'[s] # None)
      BY <1>1, <1>5, <2>5, <2>7 DEF S
    <3>2. Closed(s)'
      BY <1>1, <2>1 DEF Closed
    <3> QED
      BY <3>1, <3>2 DEF Deleting, MarkLabels, DestroyLabels, RemoveLabels
  <2>12. ASSUME NEW t \in Sandboxes PROVE SandboxInv(t)'
    <3>1. SandboxInv(t)
      BY DEF Inv
    <3>2. Usable(t) => Usable(t)'
      BY <1>1, <2>8 DEF Usable, Marking, S
    <3> QED
      BY <1>1, <3>1, <3>2 DEF SandboxInv, Empty
  <2> QED
    BY <1>1, <1>3, <2>8, <2>9, <2>10, <2>11, <2>12, StartStep
<1>6. CASE \E s \in todo :
            /\ todo' = todo \ {s}
            /\ IF Isolated /\ lease[s] = None THEN UNCHANGED job
               ELSE job' = [job EXCEPT ![Boot] = [pc |-> "begin_release", sandbox |-> s,
                        lease |-> IF Isolated THEN lease[s].state ELSE None]]
            /\ UNCHANGED stage
  <2>1. PICK s \in todo :
            /\ todo' = todo \ {s}
            /\ IF Isolated /\ lease[s] = None THEN UNCHANGED job
               ELSE job' = [job EXCEPT ![Boot] = [pc |-> "begin_release", sandbox |-> s,
                        lease |-> IF Isolated THEN lease[s].state ELSE None]]
            /\ UNCHANGED stage
    BY <1>6
  <2>2. CASE Isolated /\ lease[s] = None
    BY <1>1, <1>4, <2>1, <2>2
  <2>3. CASE ~(Isolated /\ lease[s] = None)
    BY <1>5, <2>1, <2>3
  <2> QED
    BY <2>2, <2>3
<1>7. CASE todo = {} /\ stage' = "ready" /\ UNCHANGED <<job, todo>>
  BY <1>4, <1>7
<1> QED
  BY <1>6, <1>7 DEF reconcile_deleting

-----------------------------------------------------------------------------
(* The steps that count or choose.                                         *)

(* A claim takes the lowest free pair, or fails.                           *)
LEMMA ReserveIdentityInv ==
  ASSUME SetFacts, Inv, NEW w \in Workers, ReserveIdentity(w)
  PROVE  Inv'
<1>1. job[w].pc = "reserve" /\ job[w].pc \in HeldLabels /\ job[w].pc \in CreateLabels
  BY DEF ReserveIdentity, At, HeldLabels, CreateLabels
<1>2. PICK s \in Sandboxes : s = S(w)
  BY <1>1, AtWork
<1>3. /\ TypeInv /\ job[w].pc # "idle" /\ w \in Threads /\ w # Boot /\ job[w].who \in Principals
      /\ Creating(w)
  BY <1>1, AtWork, WorkerAt
<1>4. disk' = disk /\ process' = process /\ UNCHANGED <<locks, stage, todo>>
  BY DEF ReserveIdentity, stages
<1>5. ~disk[s].dir /\ NoToken(s) /\ NoProcess(s) /\ disk[s].metadata = None /\ ledger.records[s] = None
  <2>1. ~disk[s].dir /\ ledger.records[s] = None
    BY <1>1, <1>2, <1>3 DEF Creating
  <2> QED
    BY <2>1, AbsentIsFree
<1>6. PICK x : x = [pair |-> CHOOSE p \in FreePairs : \A q \in FreePairs : p <= q,
                    state |-> "Active", owner |-> job[w].who]
  OBVIOUS
<1>7. FreePairs # {} => x \in Leases /\ x # None /\ x.owner = job[w].who
  <2> SUFFICES ASSUME FreePairs # {} PROVE x \in Leases /\ x # None /\ x.owner = job[w].who
    OBVIOUS
  <2>1. FreePairs \subseteq Nat /\ FreePairs \subseteq Pairs
    BY ManagerAssumption DEF FreePairs
  <2>2. \E p \in FreePairs : \A q \in FreePairs : p <= q
    BY <2>1 DEF SetFacts
  <2>3. PICK p \in Pairs : p = CHOOSE r \in FreePairs : \A q \in FreePairs : r <= q
    BY <2>1, <2>2
  <2>4. x = [pair |-> p, state |-> "Active", owner |-> job[w].who]
    BY <1>6, <2>3
  <2>5. x \in Leases /\ x.owner = job[w].who
    BY SMTT(30), <1>3, <2>4 DEF Leases, LeaseStates
  <2> QED
    BY <2>5, ManagerAssumption
<1>8. ASSUME \/ lease' = lease
             \/ lease' = [lease EXCEPT ![s] = x] /\ FreePairs # {}
      PROVE  LeaseKept(s)
  <2>1. CASE lease' = lease
    BY <1>3, <2>1, SameLease
  <2>2. CASE lease' = [lease EXCEPT ![s] = x] /\ FreePairs # {}
    <3>1. x \in Leases \union {None}
      BY <1>7, <2>2
    <3> QED
      BY <1>3, <1>5, <2>2, <3>1, SetsLease DEF LeaseKept
  <2> QED
    BY <1>8, <2>1, <2>2
<1>9. ProcessKept
  BY <1>3, <1>4, SameProcesses
<1>10. CASE /\ Go(w, "mkdir") /\ ledger' = ledger
            /\ \/ ~Isolated /\ lease' = lease
               \/ lease' = [lease EXCEPT ![s] = x] /\ FreePairs # {}
  <2>1. JobKept(w) /\ job'[w].pc = "mkdir" /\ S(w)' = s /\ job'[w].who = job[w].who
    BY <1>2, <1>3, <1>10, GoesKept DEF Went, HeldLabels, CreateLabels
  <2>2. Isolated => lease'[s] # None /\ lease'[s].owner = job'[w].who
    <3> SUFFICES ASSUME Isolated PROVE lease'[s] # None /\ lease'[s].owner = job'[w].who
      OBVIOUS
    <3>1. x \in Leases \union {None} /\ x # None /\ x.owner = job[w].who
      BY <1>7, <1>10
    <3>2. lease'[s] = x
      BY <1>3, <1>10, <3>1, SetsLease
    <3> QED
      BY <2>1, <3>1, <3>2
  <2>3. NoToken(s)' /\ NoProcess(s)'
    BY <1>4, <1>5, <1>10 DEF NoToken, NoProcess
  <2>4. Creating(w)' /\ Deleting(w)'
    BY <1>4, <1>5, <1>10, <2>1, <2>2, <2>3, CreatesNow DEF CreateLabels
  <2>5. LeaseKept(s) /\ LedgerKept(s)
    BY <1>3, <1>8, <1>10, SameLedger
  <2> QED
    BY <1>1, <1>2, <1>3, <1>4, <1>9, <2>1, <2>4, <2>5, KeptStep
<1>11. CASE /\ ledger' = release_sandbox(job[w].who) /\ Leave(w, "idle")
            /\ \/ lease' = lease
               \/ lease' = [lease EXCEPT ![s] = x] /\ FreePairs # {}
  <2>1. JobKept(w) /\ Creating(w)' /\ Deleting(w)'
    BY <1>3, <1>11, LeavesKept
  <2>2. LedgerKept(s) /\ LeaseKept(s)
    BY <1>3, <1>8, <1>11, Reserves, SameRecords
  <2> QED
    BY <1>1, <1>2, <1>3, <1>4, <1>9, <2>1, <2>2, KeptStep
<1> QED
  BY <1>2, <1>6, <1>10, <1>11 DEF ReserveIdentity

(* An entry of the lock map is never the last reference.                   *)
LEMMA UnlockInv ==
  ASSUME SetFacts, Inv, NEW w \in Workers, Unlock(w)
  PROVE  Inv'
<1>1. /\ job[w].pc = "unlock" /\ job[w].pc \in HeldLabels
      /\ lifecycle' = [lifecycle EXCEPT ![S(w)] = None]
      /\ disk' = disk /\ lease' = lease /\ ledger' = ledger /\ process' = process
      /\ stage' = stage /\ todo' = todo
  BY DEF Unlock, At, stages, HeldLabels
<1>2. PICK s \in Sandboxes : s = S(w)
  BY <1>1, AtWork
<1>3. TypeInv /\ job[w].pc # "idle" /\ w \in Threads /\ w # Boot /\ job[w] \in WorkerJobs
  BY <1>1, AtWork
<1>4. LockInv /\ LockEntryOutlivesUsers /\ LaunchInv(w)
  BY DEF Inv
<1>5. lock_entries' = lock_entries
  <2>1. "unlock" \notin {"idle"} \union LaunchLabels
    BY DEF LaunchLabels
  <2>2. s \in lock_entries
    BY <1>1, <1>2, <1>4, <2>1 DEF LockEntryOutlivesUsers
  <2>3. PICK C : C = {v \in Workers : job[v].pc \notin {"idle"} \union LaunchLabels /\ S(v) = s}
    OBVIOUS
  <2>4. IsFiniteSet(Workers) /\ C \subseteq Workers /\ w \in C
    BY <1>1, <1>2, <2>1, <2>3, ManagerAssumption
  <2>5. IsFiniteSet(C)
    BY <2>4 DEF SetFacts
  <2>6. Cardinality(C) \in Nat /\ Cardinality(C) # 0
    <3>1. Cardinality(C) \in Nat /\ IsFiniteSet(C \ {w}) /\ Cardinality(C \ {w}) = Cardinality(C) - 1
      BY <2>4, <2>5 DEF SetFacts
    <3>2. Cardinality(C \ {w}) \in Nat
      BY <3>1 DEF SetFacts
    <3> QED
      BY SMTT(30), <3>1, <3>2
  <2>7. StrongCount(s) = Cardinality(C) + 1
    BY <2>2, <2>3 DEF StrongCount, Clones
  <2>8. StrongCount(s) # 1
    BY SMTT(30), <2>6, <2>7
  <2> QED
    BY <1>2, <2>8 DEF Unlock
<1>6. ASSUME JobsOK', Others(w), job'[w].pc \in {"idle", "begin_launch"},
             job'[w].pc = "begin_launch" => job'[w].handle # None
      PROVE  Inv'
  <2>1. \A v \in Workers \ {w} : job'[v] = job[v] /\ S(v)' = S(v)
    BY <1>6 DEF Others, Threads, S
  <2>2. /\ {"idle", "begin_launch"} \cap HeldLabels = {}
        /\ job'[w].pc \in {"idle"} \union LaunchLabels /\ job'[w].pc \in Unbusy
    <3>1. {"idle", "begin_launch"} \cap HeldLabels = {}
      BY SMTT(30) DEF HeldLabels, CreateLabels, MarkLabels, WaitLabels, DestroyLabels, RemoveLabels
    <3> QED
      BY <1>6, <3>1 DEF LaunchLabels, Unbusy
  <2>3. DOMAIN lifecycle = Sandboxes
    BY <1>3 DEF TypeInv
  <2>4. DOMAIN lifecycle' = Sandboxes /\ \A t \in Sandboxes : t # s => lifecycle'[t] = lifecycle[t]
    BY <1>1, <1>2, <2>3
  <2>5. LockInv'
    <3> SUFFICES ASSUME NEW v \in Workers, Held(v)' PROVE (lifecycle[S(v)] = v)'
      BY DEF LockInv
    <3>1. v # w
      BY <1>6, <2>2 DEF Held
    <3>2. job[v].pc \in HeldLabels /\ v \in Threads
      BY <2>1, <3>1 DEF Held, Threads
    <3>3. lifecycle[S(v)] = v /\ S(v) \in Sandboxes /\ S(v) # s
      BY <1>1, <1>2, <1>3, <1>4, <3>1, <3>2, AtWork, Exclusive DEF LockInv, Held
    <3> QED
      BY <2>1, <2>4, <3>1, <3>3
  <2>6. LockEntryOutlivesUsers'
    BY <1>4, <1>5, <2>1, <2>2 DEF LockEntryOutlivesUsers
  <2>7. lock_entries' \subseteq Sandboxes /\ stage \notin Starting
    BY <1>3, <1>5, Served DEF TypeInv
  <2>8. job'[w].pc \notin {"spawn", "finish_launch", "unlock"} /\ job[w].pc # "mark_rename"
    BY <1>1, <1>6
  <2> QED
    BY <1>1, <1>6, <2>2, <2>4, <2>5, <2>6, <2>7, <2>8, RequestStep
<1>7. CASE job[w].next = "idle"
  <2>1. job' = [job EXCEPT ![w] = Idle]
    BY <1>7 DEF Unlock
  <2>2. JobsOK' /\ Others(w) /\ job'[w].pc = "idle"
    BY <1>3, <2>1, Stops
  <2>3. "idle" # "begin_launch"
    OBVIOUS
  <2> QED
    BY <1>6, <2>2, <2>3
<1>8. CASE job[w].next # "idle"
  <2>1. job[w].next = "begin_launch"
    BY SMTT(30), <1>3, <1>8 DEF WorkerJobs
  <2>2. Go(w, "begin_launch")
    BY <1>8, <2>1 DEF Unlock, Go
  <2>3. JobsOK' /\ Others(w) /\ Went(w, "begin_launch")
    BY <1>3, <2>2, Goes DEF WorkerLabels, LaunchLabels
  <2>4. job[w].handle # None
    BY <1>1, <1>4, <2>1 DEF LaunchInv
  <2> QED
    BY <1>3, <1>6, <2>3, <2>4 DEF Went
<1> QED
  BY <1>7, <1>8

(* The scan of a starting manager rebuilds the ledger from the disk.       *)
LEMMA ScanInv ==
  ASSUME SetFacts, Inv, Scan
  PROVE  Inv'
<1> DEFINE valid == {s \in Sandboxes : inspect(s) \in {"Active", "Deleting"}}
           recs == [s \in Sandboxes |-> IF s \in valid THEN disk[s].metadata ELSE None]
           counts == [o \in Principals |-> Cardinality({s \in valid : disk[s].metadata.owner = o})]
           bad == {s \in Sandboxes : inspect(s) = "Corrupt"}
<1>1. /\ disk' = disk /\ lease' = lease /\ process' = process /\ UNCHANGED locks /\ job' = job
      /\ todo' = todo /\ stage = "scan" /\ stage' = "sweep"
      /\ ledger' = [NewLedger EXCEPT !.records = recs, !.owner_counts = counts, !.blocked = bad]
  BY DEF Scan
<1>2. TypeInv /\ StageInv
  BY DEF Inv
<1>3. recs \in [Sandboxes -> Metadata \union {None}]
  BY <1>2, Inspected
<1>4. counts \in [Principals -> Int]
  <2>1. ASSUME NEW o \in Principals PROVE Cardinality({s \in valid : disk[s].metadata.owner = o}) \in Int
    <3>1. {s \in valid : disk[s].metadata.owner = o} \subseteq Sandboxes
      OBVIOUS
    <3>2. IsFiniteSet({s \in valid : disk[s].metadata.owner = o})
      BY <3>1, ManagerAssumption DEF SetFacts
    <3>3. Cardinality({s \in valid : disk[s].metadata.owner = o}) \in Nat
      BY <3>2 DEF SetFacts
    <3> QED
      BY SMTT(30), <3>3
  <2> QED
    BY <2>1
<1>5. bad \subseteq Sandboxes
  OBVIOUS
<1> HIDE DEF recs, counts, bad
<1>6. ledger' \in Ledgers /\ ledger'.records = recs /\ \A w \in Workers : ledger'.runtime[w] = None
  BY <1>1, <1>3, <1>4, <1>5, NewLedgerOK DEF Ledgers
<1>7. JobsOK' /\ TypeInv'
  BY <1>1, <1>2, <1>6 DEF TypeInv, JobsOK, locks, Starting
<1>8. (\A w \in Workers : job'[w].pc = "idle") /\ job'[Boot].pc = "idle"
  BY <1>1, <1>2 DEF StageInv, Starting
<1>9. StageInv' /\ ShutdownBarrier'
  BY <1>1, <1>6, <1>8 DEF StageInv, ShutdownBarrier
<1>10. Deleting(Boot)'
  BY <1>8, Rests DEF Unbusy
<1>11. ASSUME NEW s \in Sandboxes PROVE SandboxInv(s)'
  <2>1. SandboxInv(s)
    BY DEF Inv
  <2>2. ledger'.records[s] = IF inspect(s) \in {"Active", "Deleting"} THEN disk[s].metadata ELSE None
    BY <1>6 DEF recs
  <2>3. /\ inspect(s) \in {"Active", "Deleting"} => disk[s].dir /\ ~disk[s].temp /\ disk[s].metadata # None
        /\ inspect(s) = "Active" => disk[s].workspace
        /\ inspect(s) = "Deleting" => disk[s].metadata.state = "Deleting"
    BY <1>2, Inspected
  <2>4. (ledger.records[s] # None /\ ledger.records[s].state = "Active" => Usable(s))'
    BY <1>1, <2>2, <2>3 DEF Usable
  <2>5. (ledger.records[s] # None /\ disk[s].metadata # None => ledger.records[s].owner = disk[s].metadata.owner)'
    BY <1>1, <2>2
  <2> QED
    BY <1>1, <2>1, <2>4, <2>5 DEF SandboxInv, Empty
<1>12. \A v \in Workers : process'[v] # None => disk'[process'[v].sandbox].dir /\ disk'[process'[v].sandbox].workspace
  BY <1>1 DEF Inv, LaunchInv
<1> QED
  BY <1>6, <1>7, <1>8, <1>9, <1>10, <1>11, <1>12, StartStep

-----------------------------------------------------------------------------
(* The invariant of the lifecycle.                                         *)

LEMMA InitInv ==
  ASSUME Init
  PROVE  Inv
<1>1. /\ disk = [s \in Sandboxes |-> Empty] /\ lease = [s \in Sandboxes |-> None] /\ ledger = NewLedger
      /\ process = [w \in Workers |-> None] /\ lifecycle = [s \in Sandboxes |-> None]
      /\ lock_entries = {} /\ job = [w \in Threads |-> Idle] /\ stage = "ready" /\ todo = {}
  BY DEF Init
<1>2. Idle.pc = "idle" /\ Empty \in Directories /\ Empty.metadata = None
  BY SMT DEF Idle, Empty, Directories
<1>3. /\ ledger \in Ledgers
      /\ \A s \in Sandboxes : ledger.records[s] = None
      /\ \A w \in Workers : ledger.runtime[w] = None
  BY <1>1, NewLedgerOK
<1>4. /\ \A s \in Sandboxes : disk[s] = Empty
      /\ \A w \in Workers : process[w] = None
      /\ disk \in [Sandboxes -> Directories] /\ lease \in [Sandboxes -> Leases \union {None}]
      /\ process \in [Workers -> Processes \union {None}] /\ DOMAIN lifecycle = Sandboxes
  BY <1>1, <1>2
<1>5. DOMAIN job = Threads /\ (\A w \in Threads : job[w] = Idle /\ job[w].pc = "idle") /\ Boot \in Threads
  BY <1>1, <1>2 DEF Threads
<1>6. JobsOK
  BY <1>5 DEF JobsOK, Threads
<1>7. TypeInv
  BY <1>1, <1>3, <1>4, <1>6 DEF TypeInv, Starting
<1>8. \A w \in Workers : w \in Threads
  BY DEF Threads
<1>9. StageInv /\ ShutdownBarrier
  BY <1>1, <1>5 DEF StageInv, ShutdownBarrier, Starting
<1>10. \A w \in Threads : Creating(w) /\ Deleting(w)
  BY <1>5, Unheld DEF HeldLabels, CreateLabels, MarkLabels, WaitLabels, DestroyLabels, RemoveLabels
<1>11. LockInv /\ LockEntryOutlivesUsers
  BY <1>5, <1>8 DEF LockInv, Held, LockEntryOutlivesUsers, HeldLabels, CreateLabels, MarkLabels,
                           WaitLabels, DestroyLabels, RemoveLabels
<1>12. \A w \in Workers : LaunchInv(w)
  BY <1>3, <1>4, <1>5, <1>8 DEF LaunchInv
<1>13. \A s \in Sandboxes : SandboxInv(s)
  BY <1>2, <1>3, <1>4 DEF SandboxInv
<1> QED
  BY <1>7, <1>8, <1>9, <1>10, <1>11, <1>12, <1>13 DEF Inv

LEMMA DeletesInv ==
  ASSUME Inv, NEW w \in Threads, Deletes(w)
  PROVE  Inv'
BY BeginReleaseInv, ResourcesInv, RemoveStepInv, RootSyncInv, FinishReleaseInv, ForgetInv DEF Deletes

LEMMA StepInv ==
  ASSUME SetFacts, Inv, NEW w \in Workers, Step(w)
  PROVE  Inv'
<1>1. w \in Threads
  BY DEF Threads
<1>2. CASE Lock(w) \/ Unlock(w)
  BY <1>2, LockTaken, UnlockInv
<1>3. CASE ClaimExisting(w) \/ Refuse(w) \/ ClaimAbsent(w) \/ ReserveIdentity(w)
  BY <1>3, ClaimExistingInv, RefuseInv, ClaimAbsentInv, ReserveIdentityInv
<1>4. CASE CreateStep(w) \/ CreateSync(w) \/ Publish(w) \/ Abort(w) \/ AbortFree(w) \/ Unreserve(w)
  BY <1>4, CreateStepInv, CreateSyncInv, PublishInv, AbortInv, AbortFreeInv, UnreserveInv
<1>5. CASE DeleteAbsent(w) \/ DeletePresent(w) \/ MarkTemp(w) \/ MarkRename(w) \/ MarkSync(w)
  BY <1>5, DeleteAbsentInv, DeletePresentInv, MarkTempInv, MarkRenameInv, MarkSyncInv
<1>6. CASE Cancel(w) \/ Wait(w) \/ Deletes(w)
  BY <1>1, <1>6, CancelInv, WaitInv, DeletesInv
<1>7. CASE begin_launch(w) \/ Spawn(w) \/ finish_launch(w) \/ Terminate(w)
  BY <1>7, BeginLaunchInv, SpawnInv, FinishLaunchInv, LaunchOverInv
<1> QED
  BY <1>2, <1>3, <1>4, <1>5, <1>6, <1>7 DEF Step

LEMMA NextInv ==
  ASSUME SetFacts, Inv, [Next]_vars
  PROVE  Inv'
<1>1. ASSUME NEW w \in Workers, Begin(w) \/ Step(w) \/ Unpublished(w) \/ EndChannel(w) \/ Exit(w)
      PROVE  Inv'
  BY <1>1, BeginInv, StepInv, LaunchOverInv, ExitInv
<1>2. CASE Startup
  BY <1>2, ScanInv, SweepInv, ReconcileLeaseInv, ReconcileDeletingInv, DeletesInv DEF Startup, Threads
<1>3. CASE Crash \/ Freeze \/ Snapshot \/ Stop \/ ForceShutdown
  BY <1>3, CrashInv, FreezeInv, SnapshotInv, StopInv
<1>4. CASE UNCHANGED vars
  <2>1. /\ disk' = disk /\ lease' = lease /\ ledger' = ledger /\ process' = process /\ job' = job
        /\ UNCHANGED locks /\ stage' = stage /\ todo' = todo
    BY <1>4 DEF vars, locks
  <2>2. TypeInv /\ StageInv /\ ShutdownBarrier
    BY DEF Inv
  <2>3. TypeInv' /\ StageInv' /\ ShutdownBarrier'
    BY <2>1, <2>2 DEF TypeInv, JobsOK, locks, StageInv, Closed, ShutdownBarrier
  <2>4. ProcessKept
    BY <2>1, <2>2, SameProcesses
  <2> QED
    BY <2>1, <2>2, <2>3, <2>4, SameRuntime, ManagerStep
<1> QED
  BY <1>1, <1>2, <1>3, <1>4 DEF Next

-----------------------------------------------------------------------------
(* What frees a lease.                                                     *)

LEMMA StateKeepsLease ==
  ASSUME TypeInv, NEW s, NEW state \in LeaseStates, MaySetLease(s, state),
         NEW t \in Sandboxes, lease[t] # None
  PROVE  lease'[t] # None
<1>1. CASE lease' = lease
  BY <1>1
<1>2. CASE SetLease(s, state) /\ t = s
  BY <1>2, MovesLease
<1>3. CASE SetLease(s, state) /\ t # s
  <2>1. DOMAIN lease = Sandboxes
    BY DEF TypeInv
  <2>2. PICK x : x = [lease[s] EXCEPT !.state = state]
    OBVIOUS
  <2>3. lease' = [lease EXCEPT ![s] = x]
    BY <1>3, <2>2 DEF SetLease
  <2> QED
    BY <1>3, <2>1, <2>3
<1> QED
  BY <1>1, <1>2, <1>3 DEF MaySetLease

(* A step that writes one record frees no other.                           *)
LEMMA OneLease ==
  ASSUME TypeInv, NEW s, NEW x, lease' = [lease EXCEPT ![s] = x],
         NEW t \in Sandboxes, lease[t] # None, lease'[t] = None
  PROVE  t = s
<1>1. DOMAIN lease = Sandboxes
  BY DEF TypeInv
<1> QED
  BY <1>1

LEMMA IssueKeepsLease ==
  ASSUME Inv, NEW w \in Workers, ReserveIdentity(w), NEW t \in Sandboxes, lease[t] # None
  PROVE  lease'[t] # None
<1>1. CASE lease' = lease
  BY <1>1
<1>2. CASE lease' # lease
  <2>1. PICK x : lease' = [lease EXCEPT ![S(w)] = x] /\ lease[S(w)] = None
    <3>1. PICK y : y = [pair |-> CHOOSE p \in FreePairs : \A q \in FreePairs : p <= q,
                        state |-> "Active", owner |-> job[w].who]
      OBVIOUS
    <3>2. lease' = [lease EXCEPT ![S(w)] = y] /\ lease[S(w)] = None
      BY <1>2, <3>1 DEF ReserveIdentity
    <3> QED
      BY <3>2
  <2> QED
    BY <2>1, OneLease DEF Inv
<1> QED
  BY <1>1, <1>2

LEMMA StepFrees ==
  ASSUME Inv, NEW w \in Workers, Step(w), NEW s \in Sandboxes, lease[s] # None, lease'[s] = None
  PROVE  NoProcess(s)
<1>1. TypeInv /\ w \in Threads /\ \A state \in LeaseStates : \A t : ~MaySetLease(t, state)
  BY StateKeepsLease DEF Inv, Threads
<1>2. lease' # lease /\ ~ReserveIdentity(w)
  BY IssueKeepsLease
<1>3. {"Active", "Releasing", "Quarantined"} \subseteq LeaseStates
  BY DEF LeaseStates
<1>4. ~Publish(w) /\ ~Abort(w) /\ ~BeginRelease(w)
  BY <1>1, <1>2, <1>3 DEF Publish, Abort, BeginRelease, MaySetLease
<1>5. CASE AbortFree(w)
  <2>1. lease' = [lease EXCEPT ![S(w)] = None] /\ job[w].pc = "abort_free"
    BY <1>1, <1>3, <1>5 DEF AbortFree, At
  <2>2. s = S(w)
    BY <1>1, <2>1, OneLease
  <2> QED
    BY <2>1, <2>2 DEF Inv, Creating, CreateLabels
<1>6. CASE FinishRelease(w)
  <2>1. lease' = [lease EXCEPT ![S(w)] = None] /\ job[w].pc = "finish_release"
    BY <1>2, <1>6 DEF FinishRelease, At
  <2>2. s = S(w)
    BY <1>1, <2>1, OneLease
  <2> QED
    BY <1>1, <2>1, <2>2 DEF Inv, Deleting, RemoveLabels
<1>7. CASE Lock(w) \/ Unlock(w) \/ ClaimExisting(w) \/ Refuse(w) \/ ClaimAbsent(w)
  BY <1>2, <1>7 DEF Lock, Unlock, ClaimExisting, Refuse, ClaimAbsent
<1>8. CASE CreateStep(w) \/ CreateSync(w) \/ Unreserve(w) \/ DeleteAbsent(w) \/ DeletePresent(w)
  BY <1>2, <1>8 DEF CreateStep, CreateSync, Unreserve, DeleteAbsent, DeletePresent
<1>9. CASE MarkTemp(w) \/ MarkRename(w) \/ MarkSync(w) \/ Cancel(w) \/ Wait(w)
  BY <1>2, <1>9 DEF MarkTemp, MarkRename, MarkSync, Cancel, Wait
<1>10. CASE Resources(w) \/ RemoveStep(w) \/ RootSync(w) \/ Forget(w)
  BY <1>2, <1>10 DEF Resources, RemoveStep, RootSync, Forget
<1>11. CASE begin_launch(w) \/ Spawn(w) \/ finish_launch(w) \/ Terminate(w)
  BY <1>2, <1>11 DEF begin_launch, Spawn, finish_launch, Terminate
<1> QED
  BY <1>2, <1>4, <1>5, <1>6, <1>7, <1>8, <1>9, <1>10, <1>11 DEF Step, Deletes

LEMMA NextFrees ==
  ASSUME Inv, [Next]_vars, NEW s \in Sandboxes, lease[s] # None, lease'[s] = None
  PROVE  NoProcess(s)
<1>1. TypeInv /\ lease' # lease
  BY DEF Inv
<1>2. ASSUME NEW w \in Workers, Begin(w) \/ Step(w) \/ Unpublished(w) \/ EndChannel(w) \/ Exit(w)
      PROVE  NoProcess(s)
  BY <1>1, <1>2, StepFrees DEF Begin, Unpublished, EndChannel, Exit
<1>3. CASE ReconcileLease \/ Deletes(Boot)
  <2>1. stage \in {"leases", "deleting"}
    <3>1. CASE ReconcileLease
      BY <3>1 DEF ReconcileLease
    <3>2. CASE Deletes(Boot)
      <4>1. job[Boot].pc # "idle"
        BY SMTT(30), <3>2 DEF Deletes, BeginRelease, Resources, RemoveStep, RootSync, FinishRelease, Forget, At, AfterRemove
      <4> QED
        BY <4>1 DEF Inv, StageInv
    <3> QED
      BY <1>3, <3>1, <3>2
  <2> QED
    BY <2>1 DEF Inv, StageInv, NoProcess
<1>4. CASE Scan \/ Sweep \/ reconcile_deleting \/ Crash
  BY <1>1, <1>4 DEF Scan, Sweep, reconcile_deleting, Crash
<1>5. CASE Freeze \/ Snapshot \/ Stop \/ ForceShutdown
  BY <1>1, <1>5 DEF Freeze, Snapshot, Stop, ForceShutdown
<1>6. CASE UNCHANGED vars
  BY <1>1, <1>6 DEF vars
<1> QED
  BY <1>2, <1>3, <1>4, <1>5, <1>6 DEF Next, Startup

-----------------------------------------------------------------------------
(* Admission: the caps, and what a crash leaves and a restart finds.       *)

LEMMA Covered ==
  ASSUME SetFacts, NEW P, NEW A, IsFiniteSet(A), NEW B, B \subseteq Workers,
         P \subseteq A \union {S(w) : w \in B}
  PROVE  Cardinality(P) <= Cardinality(A) + Cardinality(B)
<1>1. PICK f : f = [w \in B |-> S(w)]
  OBVIOUS
<1>2. {S(w) : w \in B} = {f[w] : w \in B}
  BY SMTT(30), <1>1
<1>3. IsFiniteSet(B) /\ P \subseteq A \union {f[w] : w \in B}
  BY <1>2, ManagerAssumption DEF SetFacts
<1> QED
  BY <1>3 DEF SetFacts

LEMMA CapsFit ==
  ASSUME SetFacts, Inv, AdmitInv
  PROVE  PublishedFits
<1>1. CASE stage = "scan"
  BY <1>1 DEF AdmitInv
<1>2. CASE stage # "scan"
  <2>1. TypeInv /\ CountInv /\ RoomInv
    BY DEF Inv, AdmitInv
  <2>2. ASSUME NEW s \in Published, ledger.records[s] = None
        PROVE  \E u \in Claiming : s = S(u) /\ disk[s].metadata.owner = job[u].who
    <3>1. s \in Sandboxes
      BY DEF Published
    <3>2. Landing(s)
      BY <1>2, <2>2, <3>1 DEF AdmitInv, SafeAt
    <3>3. PICK u \in Workers : job[u].pc \in LandingLabels /\ S(u) = s
      BY <3>2 DEF Landing
    <3>4. disk[s].metadata = Meta("Active", job[u].who)
      BY <3>3 DEF Inv, Creating, LandingLabels
    <3>5. disk[s].metadata.owner = job[u].who
      BY SMTT(30), <3>4 DEF Meta
    <3> QED
      BY <3>3, <3>5, AdmitLabels DEF Claiming
  <2>3. Cardinality(Published) <= Cardinality(Recorded) + Cardinality(Claiming)
    <3>1. Published \subseteq Recorded \union {S(w) : w \in Claiming}
      BY <2>2 DEF Recorded, Published
    <3>2. Claiming \subseteq Workers
      BY DEF Claiming
    <3> QED
      BY <3>1, <3>2, Countable, Covered
  <2>4. Cardinality(Published) <= MaxSandboxes
    <3>1. Cardinality(Recorded) + Cardinality(Claiming) <= MaxSandboxes
      BY <2>1 DEF CountInv, RoomInv
    <3> QED
      BY SMTT(30), <2>3, <3>1, Countable, ManagerAssumption
  <2>5. ASSUME NEW o \in Principals
        PROVE  Cardinality({s \in Published : disk[s].metadata.owner = o}) <= MaxPerOwner
    <3>1. PICK P : P = {s \in Published : disk[s].metadata.owner = o}
      OBVIOUS
    <3>2. P \subseteq OwnedBy(o) \union {S(w) : w \in InFlight(o)}
      <4> SUFFICES ASSUME NEW s \in P PROVE s \in OwnedBy(o) \union {S(w) : w \in InFlight(o)}
        OBVIOUS
      <4>1. s \in Published /\ s \in Sandboxes /\ disk[s].metadata.owner = o
        BY <3>1 DEF Published
      <4>2. CASE ledger.records[s] = None
        BY <2>2, <4>1, <4>2 DEF InFlight
      <4>3. CASE ledger.records[s] # None
        <5>1. SandboxInv(s) /\ disk[s].metadata # None
          BY <2>1, <4>1, Inspected DEF Inv, Published
        <5>2. ledger.records[s].owner = o
          BY <4>1, <4>3, <5>1 DEF SandboxInv
        <5> QED
          BY <4>1, <4>3, <5>2 DEF OwnedBy
      <4> QED
        BY <4>2, <4>3
    <3>3. InFlight(o) \subseteq Workers
      BY DEF InFlight, Claiming
    <3>4. Cardinality(P) <= Cardinality(OwnedBy(o)) + Cardinality(InFlight(o))
      BY <3>2, <3>3, Countable, Covered
    <3>5. Cardinality(OwnedBy(o)) + Cardinality(InFlight(o)) <= MaxPerOwner
      BY <2>1 DEF CountInv, RoomInv
    <3>6. Cardinality(P) \in Nat
      <4>1. P \in SUBSET Published
        BY <3>1
      <4> QED
        BY <4>1, Countable DEF SetFacts
    <3>7. Cardinality(P) <= MaxPerOwner
      BY SMTT(30), <3>4, <3>5, <3>6, Countable, ManagerAssumption
    <3> QED
      BY <3>1, <3>7
  <2> QED
    BY <2>4, <2>5 DEF PublishedFits
<1> QED
  BY <1>1, <1>2

(* Nobody claims: what is left to count are the records.                   *)
LEMMA NoClaims ==
  ASSUME \A w \in Workers : job[w].pc = "idle"
  PROVE  Claiming = {} /\ \A o : InFlight(o) = {}
<1>1. "idle" \notin CreateLabels
  BY DEF CreateLabels
<1> QED
  BY <1>1 DEF Claiming, InFlight

LEMMA NewCounts ==
  ASSUME SetFacts, ledger = NewLedger, \A w \in Workers : job[w].pc = "idle"
  PROVE  CountInv /\ RoomInv
<1>1. /\ ledger.reserved = 0 /\ \A s \in Sandboxes : ledger.records[s] = None
      /\ \A o \in Principals : ledger.owner_counts[o] = 0
  BY SMT DEF NewLedger
<1>2. Recorded = {} /\ \A o : OwnedBy(o) = {}
  BY <1>1 DEF Recorded, OwnedBy
<1>3. Claiming = {} /\ \A o : InFlight(o) = {}
  BY NoClaims
<1>4. Cardinality({}) = 0
  BY DEF SetFacts
<1>5. 0 = 0 + 0 /\ 0 + 0 <= MaxSandboxes /\ 0 <= MaxPerOwner
  BY SMTT(30), ManagerAssumption
<1> QED
  BY <1>1, <1>2, <1>3, <1>4, <1>5 DEF CountInv, RoomInv

LEMMA InitAdmit ==
  ASSUME SetFacts, Init
  PROVE  AdmitInv
<1>1. \A w \in Threads : job[w].pc = "idle"
  BY SMTT(30) DEF Init, Idle
<1>2. CountInv /\ RoomInv
  BY <1>1, NewCounts DEF Init, Threads
<1>3. \A w \in Threads : SafeJob(w)
  BY <1>1, AdmitLabels DEF SafeJob
<1>4. ASSUME NEW s \in Sandboxes PROVE SafeAt(s)
  <2>1. ledger.records[s] = None /\ s \notin ledger.blocked
    BY SMTT(30) DEF Init, NewLedger
  <2>2. ~disk[s].dir
    BY SMT DEF Init, Empty
  <2>3. inspect(s) = "Absent" /\ "Absent" \notin {"Active", "Deleting"}
    BY <2>2 DEF inspect
  <2> QED
    BY <2>1, <2>3 DEF SafeAt, Published
<1>5. stage # "scan" /\ stage # "deleting"
  BY DEF Init
<1> QED
  BY <1>2, <1>3, <1>4, <1>5 DEF AdmitInv

LEMMA CrashAdmit ==
  ASSUME SetFacts, Inv, AdmitInv, Crash
  PROVE  AdmitInv'
<1>1. \A w \in Threads : job'[w].pc = "idle"
  BY SMT DEF Crash, Idle
<1>2. (CountInv /\ RoomInv)'
  <2>1. (ledger = NewLedger)' /\ (\A w \in Workers : job[w].pc = "idle")'
    BY <1>1 DEF Crash, Threads, NewLedger
  <2> QED
    BY <2>1, NewCounts, PTL
<1>3. \A w \in Threads : SafeJob(w)'
  BY <1>1, AdmitLabels DEF SafeJob
<1>4. PublishedFits'
  <2>1. disk' = disk
    BY DEF Crash
  <2>2. Published' = Published
    BY <2>1 DEF Published, inspect
  <2> QED
    BY <2>1, <2>2, CapsFit DEF PublishedFits
<1>5. stage' = "scan" /\ stage' # "deleting"
  BY DEF Crash
<1> QED
  BY <1>2, <1>3, <1>4, <1>5 DEF AdmitInv

LEMMA ScanAdmit ==
  ASSUME SetFacts, Inv, AdmitInv, Scan
  PROVE  AdmitInv'
<1>1. /\ stage = "scan" /\ stage' = "sweep" /\ stage' # "scan" /\ stage' # "deleting"
      /\ disk' = disk /\ job' = job
  BY DEF Scan
<1>2. \A w \in Threads : job[w].pc = "idle"
  <2>1. StageInv /\ stage # "deleting" /\ stage \in Starting
    BY <1>1 DEF Inv, Starting
  <2> QED
    BY <2>1 DEF StageInv, Threads
<1>3. /\ ledger'.records = [s \in Sandboxes |-> IF s \in Published THEN disk[s].metadata ELSE None]
      /\ ledger'.owner_counts = [o \in Principals |-> Cardinality({s \in Published : disk[s].metadata.owner = o})]
      /\ ledger'.blocked = {s \in Sandboxes : inspect(s) = "Corrupt"} /\ ledger'.reserved = 0
  BY SMT DEF Scan, NewLedger, Published
<1>4. \A s \in Published : s \in Sandboxes /\ disk[s].metadata # None /\ inspect(s) # "Corrupt"
  <2>1. TypeInv
    BY DEF Inv
  <2>2. "Corrupt" \notin {"Active", "Deleting"}
    OBVIOUS
  <2> QED
    BY <2>1, <2>2, Inspected DEF Published
<1>5. Recorded' = Published
  BY SMTT(30), <1>3, <1>4 DEF Recorded
<1>6. ASSUME NEW o PROVE OwnedBy(o)' = {s \in Published : disk[s].metadata.owner = o}
  BY SMTT(30), <1>3, <1>4 DEF OwnedBy
<1>7. Claiming' = {} /\ \A o : InFlight(o)' = {}
  <2>1. Claiming' = Claiming /\ \A o : InFlight(o)' = InFlight(o)
    BY <1>1, ClaimsSame
  <2> QED
    BY <1>2, <2>1, NoClaims DEF Threads
<1>8. PublishedFits
  BY <1>1 DEF AdmitInv
<1>9. Cardinality({}) = 0
  BY DEF SetFacts
<1>10. CountInv'
  <2>1. ASSUME NEW o \in Principals
        PROVE  ledger'.owner_counts[o] = Cardinality(OwnedBy(o)') + Cardinality(InFlight(o)')
    <3>1. PICK P : P = {s \in Published : disk[s].metadata.owner = o}
      OBVIOUS
    <3>2. ledger'.owner_counts[o] = Cardinality(P)
      BY <1>3, <3>1
    <3>3. Cardinality(P) \in Nat
      <4>1. P \in SUBSET Published
        BY <3>1
      <4> QED
        BY <4>1, Countable DEF SetFacts
    <3>4. Cardinality(P) = Cardinality(P) + 0
      BY SMTT(30), <3>3
    <3> QED
      BY <1>6, <1>7, <1>9, <3>1, <3>2, <3>4
  <2> QED
    BY <1>3, <1>7, <1>9, <2>1 DEF CountInv
<1>11. RoomInv'
  <2>1. Cardinality(Published) + 0 <= MaxSandboxes
    BY SMTT(30), <1>8, Countable, ManagerAssumption DEF PublishedFits
  <2>2. \A o \in Principals : ledger'.owner_counts[o] <= MaxPerOwner
    BY <1>3, <1>8 DEF PublishedFits
  <2> QED
    BY <1>3, <1>5, <2>1, <2>2 DEF RoomInv
<1>12. ASSUME NEW s \in Sandboxes PROVE SafeAt(s)'
  <2>1. inspect(s)' = inspect(s) /\ (s \in Published' <=> s \in Published)
    BY <1>1 DEF inspect, Published
  <2>2. ledger'.records[s] = IF s \in Published THEN disk[s].metadata ELSE None
    BY <1>3
  <2>3. s \in ledger'.blocked => inspect(s) = "Corrupt"
    BY <1>3
  <2> QED
    BY <1>1, <1>4, <2>1, <2>2, <2>3 DEF SafeAt
<1>13. \A w \in Threads : SafeJob(w)'
  BY <1>1, <1>2, AdmitLabels DEF SafeJob
<1> QED
  BY <1>1, <1>10, <1>11, <1>12, <1>13 DEF AdmitInv

LEMMA NextAdmit ==
  ASSUME SetFacts, "sync" \notin Faults, Inv, Inv', AdmitInv, [Next]_vars
  PROVE  AdmitInv'
<1>1. CASE Scan \/ Crash
  BY <1>1, ScanAdmit, CrashAdmit
<1>2. CASE ~Scan /\ ~Crash
  BY <1>2, RunAdmit
<1> QED
  BY <1>1, <1>2

-----------------------------------------------------------------------------
(* The facts about sets.                                                   *)

INSTANCE FiniteSetTheorems
INSTANCE WellFoundedInduction

LEMMA LowestExists ==
  ASSUME NEW T, T \subseteq Nat, T # {}
  PROVE  \E p \in T : \A q \in T : p <= q
<1>1. PICK R : R = {ss \in Nat \X Nat : ss[1] < ss[2]}
  OBVIOUS
<1>2. IsWellFoundedOn(R, Nat)
  BY <1>1, NatLessThanWellFounded DEF OpToRel
<1>3. \A x, y \in Nat : x < y => <<x, y>> \in R
  BY SMTT(30), <1>1
<1>4. PICK x \in T : \A y \in T : ~(<<y, x>> \in R)
  BY <1>2, WFMin
<1> QED
  <2>1. \A y \in T : ~(y < x)
    BY <1>3, <1>4
  <2> QED
    BY SMTT(30), <2>1

LEMMA ImageBound ==
  ASSUME NEW f, NEW B, IsFiniteSet(B)
  PROVE  IsFiniteSet({f[b] : b \in B}) /\ Cardinality({f[b] : b \in B}) <= Cardinality(B)
<1>1. PICK T : T = {f[b] : b \in B}
  OBVIOUS
<1>2. PICK g : g = [b \in B |-> f[b]]
  OBVIOUS
<1>3. g \in Surjection(B, T)
  <2>1. g \in [B -> T]
    BY SMTT(30), <1>1, <1>2
  <2>2. \A t \in T : \E b \in B : g[b] = t
    BY SMTT(30), <1>1, <1>2
  <2> QED
    BY <2>1, <2>2 DEF Surjection
<1> QED
  BY <1>1, <1>3, FS_Surjection

LEMMA CoverBound ==
  ASSUME NEW P, NEW A, IsFiniteSet(A), NEW B, IsFiniteSet(B), NEW f, P \subseteq A \union {f[b] : b \in B}
  PROVE  Cardinality(P) <= Cardinality(A) + Cardinality(B)
<1>1. PICK T : T = {f[b] : b \in B}
  OBVIOUS
<1>2. IsFiniteSet(T) /\ Cardinality(T) <= Cardinality(B)
  BY <1>1, ImageBound
<1>3. IsFiniteSet(A \union T) /\ Cardinality(A \union T) = Cardinality(A) + Cardinality(T) - Cardinality(A \cap T)
  BY <1>2, FS_Union
<1>4. P \in SUBSET (A \union T) /\ A \cap T \in SUBSET A
  BY <1>1
<1>5. Cardinality(P) <= Cardinality(A \union T) /\ IsFiniteSet(P) /\ IsFiniteSet(A \cap T)
  BY <1>3, <1>4, FS_Subset
<1>6. /\ Cardinality(P) \in Nat /\ Cardinality(A) \in Nat /\ Cardinality(T) \in Nat
      /\ Cardinality(A \cap T) \in Nat /\ Cardinality(A \union T) \in Nat /\ Cardinality(B) \in Nat
  BY <1>2, <1>3, <1>5, FS_CardinalityType
<1> QED
  BY SMTT(30), <1>2, <1>3, <1>5, <1>6

LEMMA Sets == SetFacts
<1>1. \A A, B : A \subseteq B /\ IsFiniteSet(B) => IsFiniteSet(A)
  BY FS_Subset
<1>2. \A A : IsFiniteSet(A) => Cardinality(A) \in Nat
  BY FS_CardinalityType
<1>3. \A A, x : IsFiniteSet(A) /\ x \notin A => Cardinality(A \union {x}) = Cardinality(A) + 1
  BY FS_AddElement
<1>4. \A A, x : IsFiniteSet(A) /\ x \in A => Cardinality(A \ {x}) = Cardinality(A) - 1
  BY FS_RemoveElement
<1>5. Cardinality({}) = 0
  BY FS_EmptySet
<1>6. \A P, A, B, f : IsFiniteSet(A) /\ IsFiniteSet(B) /\ P \subseteq A \union {f[b] : b \in B} =>
         Cardinality(P) <= Cardinality(A) + Cardinality(B)
  BY CoverBound
<1>7. \A T \in SUBSET Nat : T # {} => \E p \in T : \A q \in T : p <= q
  BY LowestExists
<1> QED
  BY <1>1, <1>2, <1>3, <1>4, <1>5, <1>6, <1>7 DEF SetFacts

-----------------------------------------------------------------------------
(* The invariants hold, and what they show.                                *)

(* The invariant the results below rest on holds in every reachable state: *)
(* who holds a lifecycle lock is alone with its sandbox's files, record    *)
(* and lease, and how far a claim, a delete or a launch has come says what *)
(* is on disk and what can still run there (claim, delete, begin_launch,   *)
(* finish_launch, reconcile_startup).                                      *)
THEOREM InvHolds == Spec => []Inv
<1>1. Init => Inv
  BY InitInv
<1>2. Inv /\ [Next]_vars => Inv'
  BY Sets, NextInv
<1> QED
  BY <1>1, <1>2, PTL DEF Spec

(* A sandbox process, descendants included, never loses its workspace,     *)
(* for any number of requests, sandboxes, crashes and faults: delete and   *)
(* reconcile_startup end the processes before remove_tree.                 *)
THEOREM WorkspaceKept == Spec => []WorkspaceOutlivesProcesses
<1>1. Inv => WorkspaceOutlivesProcesses
  BY DEF Inv, LaunchInv, WorkspaceOutlivesProcesses
<1> QED
  BY <1>1, InvHolds, PTL

(* After the snapshot of shutdown_runtime, or force_shutdown_runtime, no   *)
(* launch can be handed out, and once shutdown reports success no process  *)
(* is left, whatever begin_launch and finish_launch were doing.            *)
THEOREM ShutdownBarrierHolds == Spec => []ShutdownBarrier
<1>1. Inv => ShutdownBarrier
  BY DEF Inv
<1> QED
  BY <1>1, InvHolds, PTL

(* Where no directory sync fails, a published isolated sandbox has a lease *)
(* of its owner at every instant, also over a crash and the recovery after *)
(* it: claim writes the lease before the sandbox, and delete removes it    *)
(* after the sandbox.                                                      *)
THEOREM LeaseSpans ==
  ASSUME "sync" \notin Faults
  PROVE  Spec => []LeaseSpansSandbox
<1>1. Inv => LeaseSpansSandbox
  <2> SUFFICES ASSUME Inv, Isolated, NEW s \in Sandboxes, inspect(s) \in {"Active", "Deleting"}
               PROVE  lease[s] # None /\ lease[s].owner = disk[s].metadata.owner
    BY DEF LeaseSpansSandbox
  <2>1. TypeInv /\ SandboxInv(s)
    BY DEF Inv
  <2>2. disk[s].metadata # None
    BY <2>1, Inspected
  <2> QED
    BY <2>1, <2>2 DEF SandboxInv
<1> QED
  BY <1>1, InvHolds, PTL

(* A lease record only goes in a step in which no process of its sandbox   *)
(* is left, so a uid and gid pair never becomes reusable under a running   *)
(* one: finish_release after release_sandbox_resources, the cleanup of a   *)
(* failed claim, and reconcile_subid_leases after the startup sweep.       *)
THEOREM LeaseFreedLast == Spec => LeaseOutlivesProcesses
<1>1. Inv /\ [Next]_vars =>
        [\A s \in Sandboxes : lease[s] # None /\ lease'[s] = None =>
           \A w \in Workers : process[w] # None => process[w].sandbox # s]_vars
  BY NextFrees DEF NoProcess
<1> QED
  BY <1>1, InvHolds, PTL DEF Spec, LeaseOutlivesProcesses

LEMMA AdmitHolds ==
  ASSUME "sync" \notin Faults
  PROVE  Spec => [](Inv /\ AdmitInv)
<1>1. Init => AdmitInv
  BY Sets, InitAdmit
<1>2. Inv /\ Inv' /\ AdmitInv /\ [Next]_vars => AdmitInv'
  BY Sets, NextAdmit
<1>3. Spec => []Inv
  BY InvHolds
<1> QED
  BY <1>1, <1>2, <1>3, PTL DEF Spec

(* Where no directory sync fails, the daemon never publishes more          *)
(* sandboxes than its caps allow, in all or of one owner, and its          *)
(* admission counters equal what they count at every instant, over every   *)
(* interleaving, error path and restart (reserve_sandbox, release_sandbox, *)
(* insert_reserved, remove_record_from_ledger, load_registry).             *)
THEOREM CapsKept ==
  ASSUME "sync" \notin Faults
  PROVE  Spec => []CapsHold
<1>1. Inv /\ AdmitInv => CapsHold
  <2> SUFFICES ASSUME Inv, AdmitInv PROVE CapsHold
    OBVIOUS
  <2>1. PublishedFits /\ CountInv
    BY Sets, CapsFit DEF AdmitInv
  <2>2. DOMAIN AfterCreate \union {"reserve", "sync", "publish", "abort", "abort_free", "unreserve"} = CreateLabels
    BY SMTT(30) DEF AfterCreate, CreateLabels
  <2>3. Reservations = Claiming
    BY <2>2 DEF Reservations, Claiming
  <2> QED
    BY <2>1, <2>3 DEF CapsHold, PublishedFits, CountInv, InFlight
<1> QED
  BY <1>1, AdmitHolds, PTL

(* Where no directory sync, metadata rewrite, tree removal or lease        *)
(* operation fails, the ledger's view of a sandbox nobody works on is what *)
(* a restart would find on disk, so reserve_sandbox and begin_launch       *)
(* decide on durable facts.                                                *)
THEOREM LedgerAgrees ==
  ASSUME {"sync", "mark", "tree", "lease"} \cap Faults = {}
  PROVE  Spec => []LedgerMatchesDisk
<1>1. "sync" \notin Faults /\ Steady
  BY DEF Steady
<1>2. Inv /\ AdmitInv => LedgerMatchesDisk
  <2> SUFFICES ASSUME Inv, AdmitInv, NEW s \in Sandboxes,
                      stage \in Serving, lifecycle[s] = None, s \notin ledger.blocked
               PROVE  ledger.records[s] = IF s \in Published THEN disk[s].metadata ELSE None
    BY DEF LedgerMatchesDisk
  <2>1. stage # "scan" /\ stage # "deleting"
    BY DEF Serving
  <2>2. ~Moving(s)
    <3> SUFFICES ASSUME NEW u \in Threads, job[u].pc \in MovingLabels, S(u) = s PROVE FALSE
      BY DEF Moving
    <3>1. job[u].pc \in HeldLabels /\ job[u].pc # "idle"
      BY AdmitLabels
    <3>2. u \in Workers
      BY <2>1, <3>1 DEF Threads, Inv, StageInv
    <3> QED
      BY <3>1, <3>2, ManagerAssumption DEF Inv, LockInv, Held
  <2> QED
    BY <1>1, <2>1, <2>2 DEF AdmitInv, SafeAt
<1> QED
  BY <1>1, <1>2, AdmitHolds, PTL

=============================================================================
