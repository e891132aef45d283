--------------------------- MODULE IdentityProofs ---------------------------
(***************************************************************************)
(* The identities of sandboxes, first the ledger that leases them, then    *)
(* the broker that shows files under them.                                 *)
(*                                                                         *)
(* SubidLedger, for any number of threads, sandboxes, ids and crashes:     *)
(* under either deployment the locking is sound for (Exclusive), no UID,   *)
(* GID or sandbox is ever leased twice, the sweep spares live temp files,  *)
(* and the ledger implements LeaseTable.                                   *)
(*                                                                         *)
(* IdmapBroker, for any number of launches, permits, broker exits and      *)
(* changed directories: a launch is shown its own directories under its    *)
(* own leased IDs, and no permit is lost.                                  *)
(***************************************************************************)
EXTENDS SubidLedger, IdmapBroker, FiniteSetTheorems, TLAPS

USE SMTT(30), ZenonT(40)

(* The steps between taking the mutex and dropping it, and those between     *)
(* taking the flock and dropping it.                                         *)
Inside == {"sweep", "scan", "verify", "write", "rename", "unlink", "sync", "unselect"}
Held == Inside \union {"select", "unlock"}

(* Who holds the mutex and, with one thread per process, who holds the flock. *)
LocksHeld ==
    /\ \A w \in Workers : pc[w] \in Inside => selection[ProcessOf[w]] = w
    /\ (\A v, w \in Workers : ProcessOf[v] = ProcessOf[w] => v = w) =>
         \A w \in Workers : pc[w] \in Held => flock = ProcessOf[w]

(* A lease id names one record, and was drawn.                               *)
UniqueIds ==
    /\ \A r, q \in records : r.lease_id = q.lease_id => r = q
    /\ \A r \in records : r.lease_id \in issued

(* What a writer established by its scan or read is still true when it       *)
(* writes.                                                                   *)
FreshClaim(w) ==
    /\ record[w].lease_id \in issued
    /\ record[w].state = "Active"
    /\ \A q \in records : ~Clash(record[w], q) /\ record[w].lease_id # q.lease_id

NextState(w) ==
    /\ call[w].op \in LeaseOps /\ ~Unlinks(call[w].op)
    /\ \E q \in records :
         /\ q.state \in Accepted(call[w].op)
         /\ record[w] = [q EXCEPT !.state = Published(call[w].op)]

PreparedBy(w) ==
    /\ pc[w] \in {"write", "rename"} /\ call[w].op = "claim" => FreshClaim(w)
    /\ pc[w] \in {"write", "rename"} /\ call[w].op # "claim" => NextState(w)
    /\ pc[w] = "unlink" => /\ Unlinks(call[w].op)
                           /\ record[w] \in records
                           /\ record[w].state \in Accepted(call[w].op)

Prepared == \A w \in Workers : PreparedBy(w)

IInv == TypeOK /\ LocksHeld /\ UniqueIds /\ UniqueLeases /\ Prepared /\ SweepSparesLiveTemps

-----------------------------------------------------------------------------
(* At most one thread of all processes is inside the mutex (the guard order  *)
(* flock, then selection).                                                   *)
LEMMA OneInside ==
    ASSUME Exclusive, TypeOK, LocksHeld,
           NEW v \in Workers, NEW w \in Workers, pc[v] \in Inside, pc[w] \in Inside
    PROVE  v = w
BY DEF Exclusive, TypeOK, LocksHeld, Inside, Held

(* The initial ledger satisfies the invariant. *)
LEMMA InitInv == Init => IInv
<1> SUFFICES ASSUME Init PROVE IInv
  OBVIOUS
<1> USE LedgerAssumption DEF Init, LedgerAssumption
<1>1. TypeOK
  BY DEF TypeOK, Labels, LeaseRecord
<1>2. LocksHeld
  BY DEF LocksHeld, Inside, Held
<1>3. UniqueIds /\ UniqueLeases
  BY DEF UniqueIds, UniqueLeases
<1>4. Prepared /\ SweepSparesLiveTemps
  BY DEF Prepared, PreparedBy, SweepSparesLiveTemps, At
<1> QED
  BY <1>1, <1>2, <1>3, <1>4 DEF IInv

(* Every step preserves the type invariant. *)
LEMMA TypeStep == TypeOK /\ [Next]_vars => TypeOK'
<1> SUFFICES ASSUME TypeOK, [Next]_vars PROVE TypeOK'
  OBVIOUS
<1> USE LedgerAssumption DEF LedgerAssumption, TypeOK, Labels, At, Go, locks, unchangedCall
<1>1. ASSUME NEW w \in Workers, Begin(w) PROVE TypeOK'
  BY <1>1 DEF Begin
<1>2. ASSUME NEW w \in Workers, Flock(w) PROVE TypeOK'
  BY <1>2 DEF Flock
<1>3. ASSUME NEW w \in Workers, Select(w) PROVE TypeOK'
  BY <1>3 DEF Select, Calls
<1>4. ASSUME NEW w \in Workers, Sweep(w) PROVE TypeOK'
  BY <1>4 DEF Sweep
<1>5. ASSUME NEW w \in Workers, Scan(w) PROVE TypeOK'
  <2>1. call[w].sandbox \in Sandboxes
    BY <1>5 DEF Scan, Calls, LeaseOps
  <2>2. CASE UNCHANGED <<issued, record>> /\ Go(w, "unselect")
    BY <1>5, <2>2 DEF Scan
  <2>3. ASSUME NEW uid \in AvailableUids, NEW gid \in AvailableGids, NEW id \in LeaseIds \ issued,
               issued' = issued \union {id}, Go(w, "write"),
               Keep(w, [lease_id |-> id, sandbox |-> call[w].sandbox, uid |-> uid, gid |-> gid,
                        state |-> "Active"])
        PROVE  TypeOK'
    <3>1. [lease_id |-> id, sandbox |-> call[w].sandbox, uid |-> uid, gid |-> gid,
           state |-> "Active"] \in LeaseRecord
      BY <2>1 DEF AvailableUids, AvailableGids, LeaseRecord, LeaseStates
    <3> QED
      BY <1>5, <2>3, <3>1 DEF Scan, Keep
  <2> QED
    BY Zenon, <1>5, <2>2, <2>3 DEF Scan
<1>6. ASSUME NEW w \in Workers, Verify(w) PROVE TypeOK'
  BY <1>6 DEF Verify, Keep, Published, LeaseRecord, LeaseStates
<1>7. ASSUME NEW w \in Workers, WriteTemp(w) PROVE TypeOK'
  BY <1>7 DEF WriteTemp
<1>8. ASSUME NEW w \in Workers, Rename(w) PROVE TypeOK'
  BY <1>8 DEF Rename
<1>9. ASSUME NEW w \in Workers, Unlink(w) PROVE TypeOK'
  BY <1>9 DEF Unlink
<1>10. ASSUME NEW w \in Workers, Sync(w) PROVE TypeOK'
  BY <1>10 DEF Sync, LeaseRecord
<1>11. ASSUME NEW w \in Workers, Unselect(w) PROVE TypeOK'
  BY <1>11 DEF Unselect, Keep
<1>12. ASSUME NEW w \in Workers, Unlock(w) PROVE TypeOK'
  BY <1>12 DEF Unlock, Released
<1>13. ASSUME NEW p \in Processes, Crash(p) PROVE TypeOK'
  BY <1>13 DEF Crash
<1>14. CASE UNCHANGED vars
  BY <1>14 DEF vars
<1> QED
  BY Zenon, <1>1, <1>2, <1>3, <1>4, <1>5, <1>6, <1>7, <1>8, <1>9, <1>10, <1>11, <1>12, <1>13, <1>14 DEF Next, Step

(* Every step keeps the locks with their holders: the mutex, and the flock   *)
(* when each process has one allocator thread.                               *)
LEMMA LocksStep == TypeOK /\ LocksHeld /\ [Next]_vars => LocksHeld'
<1> SUFFICES ASSUME TypeOK, LocksHeld, [Next]_vars PROVE LocksHeld'
  OBVIOUS
<1> USE LedgerAssumption DEF LedgerAssumption, TypeOK, LocksHeld, Inside, Held, At, Go, locks, unchangedCall
<1>1. ASSUME NEW w \in Workers, Begin(w) PROVE LocksHeld'
  BY <1>1 DEF Begin
<1>2. ASSUME NEW w \in Workers, Flock(w) PROVE LocksHeld'
  BY <1>2 DEF Flock, Lockable
<1>3. ASSUME NEW w \in Workers, Select(w) PROVE LocksHeld'
  BY <1>3 DEF Select, Selectable
<1>4. ASSUME NEW w \in Workers, Sweep(w) PROVE LocksHeld'
  BY <1>4 DEF Sweep
<1>5. ASSUME NEW w \in Workers, Scan(w) PROVE LocksHeld'
  BY <1>5 DEF Scan
<1>6. ASSUME NEW w \in Workers, Verify(w) PROVE LocksHeld'
  BY <1>6 DEF Verify
<1>7. ASSUME NEW w \in Workers, WriteTemp(w) PROVE LocksHeld'
  BY <1>7 DEF WriteTemp
<1>8. ASSUME NEW w \in Workers, Rename(w) PROVE LocksHeld'
  BY <1>8 DEF Rename
<1>9. ASSUME NEW w \in Workers, Unlink(w) PROVE LocksHeld'
  BY <1>9 DEF Unlink
<1>10. ASSUME NEW w \in Workers, Sync(w) PROVE LocksHeld'
  BY <1>10 DEF Sync
<1>11. ASSUME NEW w \in Workers, Unselect(w) PROVE LocksHeld'
  BY <1>11 DEF Unselect
<1>12. ASSUME NEW w \in Workers, Unlock(w) PROVE LocksHeld'
  BY <1>12 DEF Unlock, Released
<1>13. ASSUME NEW p \in Processes, Crash(p) PROVE LocksHeld'
  BY <1>13 DEF Crash
<1>14. CASE UNCHANGED vars
  BY <1>14 DEF vars
<1> QED
  BY Zenon, <1>1, <1>2, <1>3, <1>4, <1>5, <1>6, <1>7, <1>8, <1>9, <1>10, <1>11, <1>12, <1>13, <1>14 DEF Next, Step

(* What a worker prepared survives a step that leaves the records alone and  *)
(* does not bring that worker to a write.                                    *)
LEMMA PreparedFrame ==
    ASSUME NEW v \in Workers, PreparedBy(v), records' = records, issued \subseteq issued',
           pc'[v] \in {"write", "rename", "unlink"} =>
             /\ pc[v] = pc'[v] \/ (pc[v] = "write" /\ pc'[v] = "rename")
             /\ call'[v] = call[v] /\ record'[v] = record[v]
    PROVE  PreparedBy(v)'
<1>1. CASE pc'[v] \notin {"write", "rename", "unlink"}
  BY <1>1 DEF PreparedBy
<1>2. CASE pc'[v] \in {"write", "rename", "unlink"}
  <2>1. FreshClaim(v) => FreshClaim(v)'
    BY <1>2 DEF FreshClaim
  <2>2. NextState(v) => NextState(v)'
    BY Zenon, <1>2 DEF NextState
  <2> QED
    BY <1>2, <2>1, <2>2 DEF PreparedBy
<1> QED
  BY <1>1, <1>2

(* A claim's record, as its scan leaves it, clashes with no record on disk   *)
(* and carries a lease id nobody else has drawn.                             *)
LEMMA ScanPrepares ==
    ASSUME TypeOK, UniqueIds, Prepared, NEW w \in Workers, Scan(w)
    PROVE  Prepared'
<1> USE LedgerAssumption DEF LedgerAssumption, TypeOK, At, Go, locks, unchangedCall
<1>1. CASE UNCHANGED <<issued, record>> /\ Go(w, "unselect")
  BY <1>1, PreparedFrame DEF Scan, Prepared
<1>2. CASE ~(UNCHANGED <<issued, record>> /\ Go(w, "unselect"))
  <2>1. PICK uid \in AvailableUids, gid \in AvailableGids, id \in LeaseIds \ issued :
          /\ issued' = issued \union {id}
          /\ Keep(w, [lease_id |-> id, sandbox |-> call[w].sandbox, uid |-> uid, gid |-> gid,
                      state |-> "Active"])
    BY <1>2 DEF Scan
  <2>2. Go(w, "write") /\ \A r \in records : r.sandbox # call[w].sandbox
    BY <1>2 DEF Scan
  <2>3. call[w].op = "claim" /\ call' = call /\ records' = records
    BY DEF Scan
  <2>4. record'[w] = [lease_id |-> id, sandbox |-> call[w].sandbox, uid |-> uid, gid |-> gid,
                      state |-> "Active"]
    BY <2>1 DEF Keep
  <2>5. FreshClaim(w)'
    BY <2>1, <2>2, <2>3, <2>4 DEF FreshClaim, UniqueIds, AvailableUids, AvailableGids, Clash
  <2>6. \A v \in Workers \ {w} : pc'[v] = pc[v] /\ record'[v] = record[v]
    BY <2>1, <2>2 DEF Keep
  <2>7. PreparedBy(w)'
    BY <2>2, <2>3, <2>5 DEF PreparedBy
  <2>8. \A v \in Workers \ {w} : PreparedBy(v)'
    BY <2>1, <2>3, <2>6, PreparedFrame DEF Prepared
  <2> QED
    BY <2>7, <2>8 DEF Prepared
<1> QED
  BY <1>1, <1>2

(* An operation's record, as its read leaves it, is the one on disk under    *)
(* the presented lease id, in a state the operation accepts.                 *)
LEMMA VerifyPrepares ==
    ASSUME TypeOK, Prepared, NEW w \in Workers, Verify(w)
    PROVE  Prepared'
<1> USE LedgerAssumption DEF LedgerAssumption, TypeOK, At, Go, locks, unchangedCall
<1>1. records' = records /\ issued' = issued /\ call' = call /\ call[w].op \in LeaseOps
  BY DEF Verify
<1>2. CASE UNCHANGED record /\ Go(w, "unselect")
  BY <1>1, <1>2, PreparedFrame DEF Prepared
<1>3. CASE ~(UNCHANGED record /\ Go(w, "unselect"))
  <2>1. PICK r \in records :
          /\ r.state \in Accepted(call[w].op)
          /\ Keep(w, IF Unlinks(call[w].op) THEN r ELSE [r EXCEPT !.state = Published(call[w].op)])
    BY Zenon, <1>3 DEF Verify
  <2>2. Go(w, IF Unlinks(call[w].op) THEN "unlink" ELSE "write")
    BY <1>3 DEF Verify
  <2>3. \A v \in Workers \ {w} : pc'[v] = pc[v] /\ record'[v] = record[v]
    BY <2>1, <2>2 DEF Keep
  <2>4. ASSUME Unlinks(call[w].op) PROVE PreparedBy(w)'
    BY <1>1, <2>1, <2>2, <2>4 DEF Keep, PreparedBy
  <2>5. ASSUME ~Unlinks(call[w].op) PROVE PreparedBy(w)'
    <3>1. record'[w] = [r EXCEPT !.state = Published(call[w].op)] /\ pc'[w] = "write"
      BY <2>1, <2>2, <2>5 DEF Keep
    <3>2. NextState(w)' /\ call'[w].op # "claim"
      BY Zenon, <1>1, <2>1, <2>5, <3>1 DEF NextState, LeaseOps
    <3> QED
      BY <3>1, <3>2 DEF PreparedBy
  <2>6. PreparedBy(w)'
    BY <2>4, <2>5
  <2>7. \A v \in Workers \ {w} : PreparedBy(v)'
    BY <1>1, <2>3, PreparedFrame DEF Prepared
  <2> QED
    BY <2>6, <2>7 DEF Prepared
<1> QED
  BY <1>2, <1>3

(* A step of the abstract table keeps every lease id, UID, GID and sandbox   *)
(* unique to one record.                                                     *)
LEMMA TableKeepsUnique ==
    ASSUME records \subseteq LeaseRecord, UniqueIds, UniqueLeases, [Table!Next]_Table!vars
    PROVE  UniqueIds' /\ UniqueLeases'
<1> USE DEF UniqueIds, UniqueLeases, Clash
<1>1. CASE Table!Draw
  BY <1>1 DEF Table!Draw
<1>2. ASSUME NEW r \in Table!LeaseRecord, Table!Issue(r) PROVE UniqueIds' /\ UniqueLeases'
  BY <1>2 DEF Table!Issue, Table!Clash
<1>3. ASSUME NEW r \in records, Table!Free(r) PROVE UniqueIds' /\ UniqueLeases'
  BY <1>3 DEF Table!Free
<1>4. ASSUME NEW r \in records, NEW state \in Table!LeaseStates, Table!Advance(r, state)
      PROVE  UniqueIds' /\ UniqueLeases'
  BY <1>4 DEF Table!Advance, LeaseRecord
<1>5. CASE UNCHANGED Table!vars
  BY <1>5 DEF Table!vars
<1> QED
  BY <1>1, <1>2, <1>3, <1>4, <1>5 DEF Table!Next

(* Publishing a record issues a lease, moves one forward, or changes nothing. *)
LEMMA RenameRefines ==
    ASSUME IInv, NEW w \in Workers, Rename(w)
    PROVE  [Table!Next]_Table!vars
<1> DEFINE r == record[w]
<1> USE DEF IInv, Rename, At
<1>1. issued' = issued /\ r \in LeaseRecord /\ PreparedBy(w) /\ pc[w] = "rename"
  BY DEF TypeOK, Prepared
<1>2. CASE UNCHANGED records
  BY <1>1, <1>2 DEF Table!vars
<1>3. CASE /\ records' = {q \in records : q.lease_id # r.lease_id} \union {r}
           /\ call[w].op = "claim"
  <2>1. Table!Issue(r)
    BY <1>1, <1>3 DEF PreparedBy, FreshClaim, Clash, Table!Issue, Table!Clash
  <2> QED
    BY <1>1, <2>1 DEF Table!Next, Table!LeaseRecord, LeaseRecord, Table!LeaseStates, LeaseStates
<1>4. CASE /\ records' = {q \in records : q.lease_id # r.lease_id} \union {r}
           /\ call[w].op # "claim"
  <2>1. NextState(w)
    BY <1>1, <1>4 DEF PreparedBy
  <2> DEFINE op == call[w].op
  <2>2. PICK q \in records : q.state \in Accepted(op) /\ r = [q EXCEPT !.state = Published(op)]
    BY <2>1 DEF NextState
  <2>3. q \in LeaseRecord /\ r.lease_id = q.lease_id
    BY <2>2 DEF TypeOK, LeaseRecord
  <2>4. records' = (records \ {q}) \union {r}
    BY <1>4, <2>3 DEF UniqueIds
  <2>5. op \in LeaseOps /\ ~Unlinks(op)
    BY <2>1 DEF NextState
  <2>6. <<q.state, Published(op)>> \in Table!Forward /\ Published(op) \in Table!LeaseStates
    BY <2>2, <2>3, <2>5 DEF LeaseOps, Unlinks, Accepted, Published, LeaseRecord, LeaseStates,
                            Table!Forward, Table!LeaseStates
  <2>7. Table!Advance(q, Published(op))
    BY <1>1, <2>2, <2>4, <2>6 DEF Table!Advance
  <2> QED
    BY <2>6, <2>7 DEF Table!Next
<1> QED
  BY <1>2, <1>3, <1>4

(* Unlinking a record frees a Releasing or Reserved lease, or changes nothing. *)
LEMMA UnlinkRefines ==
    ASSUME IInv, NEW w \in Workers, Unlink(w)
    PROVE  [Table!Next]_Table!vars
<1> USE DEF IInv, Unlink, At
<1>1. issued' = issued /\ PreparedBy(w) /\ pc[w] = "unlink"
  BY DEF Prepared
<1>2. CASE UNCHANGED records
  BY <1>1, <1>2 DEF Table!vars
<1>3. CASE records' = {q \in records : q.lease_id # record[w].lease_id}
  <2>1. record[w] \in records /\ record[w].state \in {"Releasing", "Reserved"}
    BY <1>1 DEF PreparedBy, Unlinks, Accepted
  <2>2. records' = records \ {record[w]}
    BY <1>3, <2>1 DEF UniqueIds
  <2> QED
    BY <1>1, <2>1, <2>2 DEF Table!Next, Table!Free
<1> QED
  BY <1>2, <1>3

(* Every step of the ledger is a step of the abstract table or a stutter.    *)
LEMMA StepRefines == IInv /\ [Next]_vars => [Table!Next]_Table!vars
<1> SUFFICES ASSUME IInv, [Next]_vars PROVE [Table!Next]_Table!vars
  OBVIOUS
<1>1. ASSUME NEW w \in Workers, Begin(w) \/ Flock(w) \/ Select(w) \/ Sweep(w) \/ Verify(w)
             \/ WriteTemp(w) \/ Sync(w) \/ Unselect(w) \/ Unlock(w)
      PROVE  UNCHANGED Table!vars
  BY <1>1 DEF Begin, Flock, Select, Sweep, Verify, WriteTemp, Sync, Unselect, Unlock, Table!vars
<1>2. ASSUME NEW w \in Workers, Scan(w) PROVE [Table!Next]_Table!vars
  BY Zenon, <1>2 DEF Scan, Table!vars, Table!Next, Table!Draw
<1>3. ASSUME NEW p \in Processes, Crash(p) PROVE UNCHANGED Table!vars
  BY <1>3 DEF Crash, Table!vars
<1>4. CASE UNCHANGED vars
  BY <1>4 DEF vars, Table!vars
<1> QED
  BY <1>1, <1>2, <1>3, <1>4, RenameRefines, UnlinkRefines DEF Next, Step

(* What the writers prepared stays true: only the one thread inside the      *)
(* mutex changes the records.                                                *)
LEMMA PreparedStep ==
    ASSUME Exclusive, IInv, [Next]_vars
    PROVE  Prepared'
<1> USE DEF IInv
<1>1. ASSUME NEW w \in Workers, Begin(w) \/ Flock(w) \/ Select(w) \/ Sweep(w)
             \/ WriteTemp(w) \/ Sync(w) \/ Unselect(w) \/ Unlock(w)
      PROVE  Prepared'
  <2> SUFFICES ASSUME NEW v \in Workers PROVE PreparedBy(v)'
    BY DEF Prepared
  <2>1. records' = records /\ issued' = issued /\ PreparedBy(v)
    BY Zenon, <1>1 DEF Prepared, Begin, Flock, Select, Sweep, WriteTemp, Sync, Unselect, Unlock
  <2>2. pc'[v] \in {"write", "rename", "unlink"} =>
          /\ pc[v] = pc'[v] \/ (pc[v] = "write" /\ pc'[v] = "rename")
          /\ call'[v] = call[v] /\ record'[v] = record[v]
    BY Zenon, <1>1 DEF TypeOK, Begin, Flock, Select, Sweep, WriteTemp, Sync, Unselect, Unlock, Keep,
                At, Go, unchangedCall
  <2> QED
    BY <2>1, <2>2, PreparedFrame
<1>2. ASSUME NEW w \in Workers, Rename(w) \/ Unlink(w) PROVE Prepared'
  <2>1. pc[w] \in Inside /\ pc'[w] \notin {"write", "rename", "unlink"}
    BY <1>2 DEF TypeOK, Rename, Unlink, At, Go, Inside
  <2>2. ASSUME NEW v \in Workers \ {w} PROVE pc'[v] = pc[v] /\ pc[v] \notin Inside
    BY <1>2, <2>1, OneInside DEF TypeOK, Rename, Unlink, Go
  <2> QED
    BY Zenon, <2>1, <2>2 DEF Prepared, PreparedBy, Inside
<1>3. ASSUME NEW p \in Processes, Crash(p) PROVE Prepared'
  <2> SUFFICES ASSUME NEW v \in Workers PROVE PreparedBy(v)'
    BY DEF Prepared
  <2> QED
    BY Zenon, <1>3, PreparedFrame DEF Prepared, Crash
<1>4. CASE UNCHANGED vars
  BY Zenon, <1>4, PreparedFrame DEF vars, Prepared
<1> QED
  BY <1>1, <1>2, <1>3, <1>4, ScanPrepares, VerifyPrepares DEF Next, Step

(* A sweep runs alone, so the only temp files it finds are abandoned ones.   *)
LEMMA SweepStep ==
    ASSUME Exclusive, IInv, [Next]_vars
    PROVE  SweepSparesLiveTemps'
<1> USE DEF IInv, SweepSparesLiveTemps, At
<1>1. ASSUME NEW w \in Workers, Sweep(w) PROVE SweepSparesLiveTemps'
  <2>1. pc[w] \in Inside
    BY <1>1 DEF Sweep, Inside
  <2>2. \A v \in Workers : pc[v] = "rename" => v = w
    BY <2>1, OneInside DEF Inside
  <2> QED
    BY <1>1, <2>2 DEF Sweep, Go, TypeOK
<1>2. ASSUME NEW w \in Workers, Begin(w) \/ Flock(w) \/ Select(w) \/ Scan(w) \/ Verify(w)
             \/ Unlink(w) \/ Sync(w) \/ Unselect(w) \/ Unlock(w)
      PROVE  temps' = temps /\ pc'[w] # "rename" /\ \A v \in Workers \ {w} : pc'[v] = pc[v]
  BY <1>2 DEF Begin, Flock, Select, Scan, Verify, Unlink, Sync, Unselect, Unlock, Go, TypeOK
<1>3. ASSUME NEW w \in Workers, WriteTemp(w) \/ Rename(w) PROVE SweepSparesLiveTemps'
  BY <1>3 DEF WriteTemp, Rename, Go, TypeOK
<1>4. ASSUME NEW p \in Processes, Crash(p) PROVE SweepSparesLiveTemps'
  BY <1>4 DEF Crash, TypeOK
<1>5. CASE UNCHANGED vars
  BY <1>5 DEF vars
<1> QED
  BY Zenon, <1>1, <1>2, <1>3, <1>4, <1>5 DEF Next, Step

(* The invariant is inductive under either sound deployment. *)
LEMMA Inductive == Exclusive /\ IInv /\ [Next]_vars => IInv'
<1> SUFFICES ASSUME Exclusive, IInv, [Next]_vars PROVE IInv'
  OBVIOUS
<1>1. TypeOK' /\ LocksHeld'
  BY TypeStep, LocksStep DEF IInv
<1>2. UniqueIds' /\ UniqueLeases'
  BY StepRefines, TableKeepsUnique DEF IInv, TypeOK
<1>3. Prepared' /\ SweepSparesLiveTemps'
  BY PreparedStep, SweepStep
<1> QED
  BY <1>1, <1>2, <1>3 DEF IInv

-----------------------------------------------------------------------------
(* The allocator's state keeps its type, whatever threads, processes and     *)
(* crashes do.                                                               *)
THEOREM TypeCorrect == Spec => []TypeOK
<1>1. Init => TypeOK
  BY InitInv DEF IInv
<1> QED
  BY <1>1, TypeStep, PTL DEF Spec

(* With all threads in one daemon, or one thread per daemon, no UID, GID or  *)
(* sandbox is ever leased twice (claim, under the flock and the mutex).      *)
THEOREM LeasesUnique == ASSUME Exclusive PROVE Spec => []UniqueLeases
<1>1. IInv /\ [Next]_vars => IInv'
  BY Inductive
<1>2. IInv => UniqueLeases
  BY DEF IInv
<1> QED
  BY <1>1, <1>2, InitInv, PTL DEF Spec

(* Under the same deployments no claim's sweep deletes a live temp file      *)
(* (remove_stale_temps).                                                     *)
THEOREM SweepSafe == ASSUME Exclusive PROVE Spec => []SweepSparesLiveTemps
<1>1. IInv /\ [Next]_vars => IInv'
  BY Inductive
<1>2. IInv => SweepSparesLiveTemps
  BY DEF IInv
<1> QED
  BY <1>1, <1>2, InitInv, PTL DEF Spec

(* Under the same deployments the file ledger implements the abstract lease  *)
(* table: leases only move forward, and only a verified release frees one.   *)
THEOREM LedgerImplementsTable == ASSUME Exclusive PROVE Spec => ImplementsTable
<1>1. Init => Table!Init
  BY DEF Init, Table!Init
<1>2. IInv /\ [Next]_vars => IInv'
  BY Inductive
<1> QED
  BY <1>1, <1>2, InitInv, StepRefines, PTL DEF Spec, ImplementsTable, Table!Spec

-----------------------------------------------------------------------------
(* The broker.                                                             *)

(* Mounts of both of a launch's directories, shown under its leased IDs.   *)
Sound(c, mounts) ==
    /\ {<<v.of, v.dir>> : v \in mounts} = {c} \X Dirs
    /\ \A v \in mounts : Shows(v.ids, Lease[c]) /\ Foreign(v.ids)

(* What makes ViewsMatchLease inductive: a handler that reached its mounts *)
(* accepted the lease, and an OK in flight carries sound mounts only.      *)
ViewInv ==
    /\ launch \in [Clients -> {"connect", "send", "receive"} \cup Returned]
    /\ DOMAIN views = Clients
    /\ DOMAIN reply = Clients
    /\ DOMAIN hand = Clients
    /\ \A c \in Clients : hand[c] = "mount" => Foreign(Lease[c])
    /\ \A c \in Clients : reply[c].status = "OK" => Sound(c, reply[c].mounts)
    /\ \A c \in Clients : launch[c] = "ok" => Sound(c, views[c])

(* The launches that have a handler thread.                                *)
Handled == {c \in Clients : hand[c] # Nil}

(* The main loop holds a permit between acquire and the thread's start.    *)
Holding == IF main.at = "spawn" THEN 1 ELSE 0

(* What makes PermitsExact inductive: a connection has at most one owner.  *)
(* A client never has a second handler, and the one the main loop holds    *)
(* has none yet, because each owner's connection is accepted and no        *)
(* accepted connection returns to the backlog.                             *)
PermitInv ==
    /\ conn \in [Clients -> {Nil, "backlog", "accepted", "closed"}]
    /\ DOMAIN launch = Clients
    /\ DOMAIN reply = Clients
    /\ hand \in [Clients -> {Nil, "receive", "check", "mount"}]
    /\ main = [at |-> main.at, client |-> main.client]
    /\ \A c \in Clients : launch[c] = "connect" => conn[c] = Nil
    /\ \A c \in Clients : reply[c] # NoReply => conn[c] = "closed"
    /\ \A c \in Handled : conn[c] = "accepted"
    /\ main.at \in {"acquire", "spawn"} =>
          main.client \in Clients \ Handled /\ conn[main.client] = "accepted"
    /\ PermitsExact

-----------------------------------------------------------------------------
(* The views a launch is handed                                            *)

\* create_mounts answers OK only when the root of both detached mounts shows
\* the leased IDs, so the mounts it sends are sound.
LEMMA MadeSound ==
  ASSUME NEW c \in Clients, MappedRoot(c), Foreign(Lease[c])
  PROVE  Sound(c, {View(c, d) : d \in Dirs})
<1> DEFINE M == {View(c, d) : d \in Dirs}
<1>1. \A v \in M : v.of = c /\ v.dir \in Dirs /\ Shows(v.ids, Lease[c]) /\ Foreign(v.ids)
  BY DEF View, MappedRoot, Shows, Foreign
<1>2. \A d \in Dirs : \E v \in M : v.of = c /\ v.dir = d
  <2> TAKE d \in Dirs
  <2>1. View(c, d) \in M
    OBVIOUS
  <2>2. View(c, d).of = c /\ View(c, d).dir = d
    BY DEF View
  <2> QED
    BY <2>1, <2>2
<1>3. {<<v.of, v.dir>> : v \in M} = {c} \X Dirs
  BY <1>1, <1>2
<1> QED
  BY <1>1, <1>3 DEF Sound

\* A handler that ends leaves an OK in the connection only with sound mounts.
LEMMA EndsSound ==
  ASSUME ViewInv, NEW c \in Clients, NEW r, Ends(c, r), UNCHANGED <<launch, views, userns>>,
         r.status = "OK" => Sound(c, r.mounts)
  PROVE  ViewInv'
<1>1. NoReply.status # "OK"
  BY DEF NoReply, Nil
<1>2. /\ DOMAIN reply' = Clients /\ DOMAIN hand' = Clients
      /\ \A b \in Clients : hand'[b] = "mount" => hand[b] = "mount"
      /\ \A b \in Clients : reply'[b].status = "OK" =>
            reply'[b] = reply[b] \/ (b = c /\ reply'[b] = r)
  BY <1>1 DEF Ends, ViewInv, Nil
<1>3. \A b \in Clients : reply'[b].status = "OK" => Sound(b, reply'[b].mounts)
  BY <1>2 DEF ViewInv
<1> QED
  BY <1>2, <1>3 DEF ViewInv, Sound

\* Every step keeps the mounts in flight and the mounts handed out sound.
LEMMA ViewInductive == (BrokerInit => ViewInv) /\ (ViewInv /\ [BrokerNext]_broker_vars => ViewInv')
<1>1. BrokerInit => ViewInv
  BY DEF BrokerInit, ViewInv, NoReply, Nil, Returned
<1>2. ASSUME ViewInv, UNCHANGED <<launch, views, reply, hand>> PROVE ViewInv'
  BY Zenon, <1>2 DEF ViewInv, Sound
<1>3. ASSUME ViewInv, NEW c \in Clients, Connect(c) \/ Send(c) PROVE ViewInv'
  BY <1>3 DEF ViewInv, Sound, Connect, Send, broker, Returned
<1>4. ASSUME ViewInv, NEW c \in Clients, Receive(c) PROVE ViewInv'
  <2>1. /\ launch' \in [Clients -> {"connect", "send", "receive"} \cup Returned]
        /\ DOMAIN views' = Clients /\ DOMAIN reply' = Clients /\ hand' = hand
    BY <1>4 DEF ViewInv, Receive, broker, Returned
  <2>2. \A b \in Clients : reply'[b].status = "OK" => reply'[b] = reply[b]
    BY <1>4 DEF ViewInv, Receive, NoReply, Nil
  <2>3. \A b \in Clients : launch'[b] = "ok" =>
           \/ launch[b] = "ok" /\ views'[b] = views[b]
           \/ reply[b].status = "OK" /\ views'[b] = reply[b].mounts
    BY <1>4 DEF ViewInv, Receive, AcceptedReply
  <2> QED
    BY ZenonT(40), <1>4, <2>1, <2>2, <2>3 DEF ViewInv, Sound
<1>5. ASSUME ViewInv, DaemonDies PROVE ViewInv'
  BY <1>5 DEF ViewInv, Sound, DaemonDies, broker, Returned
<1>6. ASSUME ViewInv, NEW c \in Clients, ReceiveRequest(c) PROVE ViewInv'
  <2>1. CASE hand' = [hand EXCEPT ![c] = "check"] /\ reply' = reply
    BY <1>6, <2>1 DEF ViewInv, Sound, ReceiveRequest, launches
  <2>2. CASE Ends(c, NoReply)
    BY <1>6, <2>2, EndsSound DEF ReceiveRequest, launches, world, NoReply, Nil
  <2> QED
    BY <1>6, <2>1, <2>2 DEF ReceiveRequest
<1>7. ASSUME ViewInv, NEW c \in Clients, Check(c) PROVE ViewInv'
  <2>1. CASE Verdict(c) = "OK"
    <3>1. Foreign(Lease[c])
      BY <2>1 DEF Verdict
    <3> QED
      BY <1>7, <2>1, <3>1 DEF ViewInv, Sound, Check, launches
  <2>2. CASE Verdict(c) # "OK"
    BY <1>7, <2>2, EndsSound DEF Check, Reply, launches, world
  <2> QED
    BY <2>1, <2>2
<1>8. ASSUME ViewInv, NEW c \in Clients, CreateMounts(c) PROVE ViewInv'
  <2>1. CASE MappedRoot(c) /\ Ends(c, Reply("OK", {View(c, d) : d \in Dirs}))
    <3>1. Sound(c, {View(c, d) : d \in Dirs})
      BY <1>8, <2>1, MadeSound DEF ViewInv, CreateMounts
    <3> QED
      BY <1>8, <2>1, <3>1, EndsSound DEF CreateMounts, Reply, launches, world
  <2>2. CASE Ends(c, Reply("MOUNT_UNSUPPORTED", {}))
    BY <1>8, <2>2, EndsSound DEF CreateMounts, Reply, launches, world
  <2> QED
    BY <1>8, <2>1, <2>2 DEF CreateMounts
<1>9. ASSUME ViewInv, SpawnHandler \/ Exit PROVE ViewInv'
  BY <1>9 DEF ViewInv, Sound, SpawnHandler, Exit, launches, Nil
<1>10. run_from_systemd \/ Accept \/ Acquire \/ Disturb => UNCHANGED <<launch, views, reply, hand>>
  BY DEF run_from_systemd, Accept, Acquire, Disturb, launches, broker
<1> QED
  BY <1>1, <1>2, <1>3, <1>4, <1>5, <1>6, <1>7, <1>8, <1>9, <1>10
     DEF BrokerNext, Launch, Handler, Serve, broker_vars

\* Whatever user namespace a launch brings, and however launches, broker
\* exits and changed directories interleave, the mounts create_idmapped_mounts
\* returns are of the launch's own directories under its leased IDs.
THEOREM Views == BrokerSpec => []ViewsMatchLease
<1>1. ViewInv => ViewsMatchLease
  BY DEF ViewInv, ViewsMatchLease, Sound
<1> QED
  BY <1>1, ViewInductive, PTL DEF BrokerSpec

-----------------------------------------------------------------------------
(* The permits                                                             *)

\* The handler threads are finitely many, so their count is a number.
LEMMA HandledFinite ==
  ASSUME PermitInv
  PROVE  /\ IsFiniteSet(Handled) /\ Cardinality(Handled) \in Nat
         /\ active = Cardinality(Handled) + Holding
         /\ active \in Nat /\ active <= MAX_HANDLER_THREADS
<1>1. IsFiniteSet(Handled)
  BY BrokerAssumption, FS_Subset DEF BrokerAssumption, Handled
<1>2. Cardinality(Handled) \in Nat
  BY <1>1, FS_CardinalityType
<1>3. active = Cardinality(Handled) + Holding /\ active <= MAX_HANDLER_THREADS
  BY DEF PermitInv, PermitsExact, Handled, Holding
<1> QED
  BY <1>1, <1>2, <1>3 DEF Holding

\* A step that keeps the handler threads and the main loop's hold keeps the
\* permits exact.
LEMMA PermitsKept ==
  ASSUME PermitInv, Handled' = Handled, Holding' = Holding, active' = active
  PROVE  PermitsExact'
<1>1. active' = Cardinality(Handled') + Holding' /\ active' <= MAX_HANDLER_THREADS
  BY HandledFinite
<1> QED
  BY <1>1 DEF PermitsExact, Handled, Holding

\* A handler that ends gives back its permit, and only its own.
LEMMA EndsExact ==
  ASSUME PermitInv, NEW c \in Clients, NEW r, hand[c] # Nil, Ends(c, r),
         UNCHANGED <<launch, main>>
  PROVE  PermitInv'
<1>1. c \in Handled /\ Handled' = Handled \ {c} /\ Holding' = Holding
  BY DEF PermitInv, Ends, Handled, Holding
<1>2. Cardinality(Handled \ {c}) = Cardinality(Handled) - 1
  BY ZenonT(40), <1>1, HandledFinite, FS_RemoveElement
<1>3. active' = Cardinality(Handled') + Holding' /\ active' <= MAX_HANDLER_THREADS
  BY <1>1, <1>2, HandledFinite, BrokerAssumption DEF Ends, PermitDropped, Holding, BrokerAssumption
<1>4. PermitsExact'
  BY <1>3 DEF PermitsExact, Handled, Holding
<1>5. /\ conn' \in [Clients -> {Nil, "backlog", "accepted", "closed"}]
      /\ hand' \in [Clients -> {Nil, "receive", "check", "mount"}]
      /\ DOMAIN reply' = Clients
      /\ conn'[c] = "closed" /\ \A b \in Clients \ {c} : conn'[b] = conn[b] /\ reply'[b] = reply[b]
  BY DEF PermitInv, Ends, Nil
<1>6. launch[c] # "connect" /\ (main.at \in {"acquire", "spawn"} => main.client # c)
  BY <1>1 DEF PermitInv, Nil
<1>7. Handled \subseteq Clients
  BY DEF Handled
<1> QED
  BY <1>1, <1>4, <1>5, <1>6, <1>7 DEF PermitInv

\* The main loop and the handlers hand the permits on without losing one.
LEMMA PermitInductive == (BrokerInit => PermitInv) /\ (PermitInv /\ [BrokerNext]_broker_vars => PermitInv')
<1> USE DEF Nil
<1>1. BrokerInit => PermitInv
  <2> SUFFICES ASSUME BrokerInit PROVE PermitInv
    OBVIOUS
  <2>1. Handled = {} /\ Holding = 0
    BY DEF BrokerInit, Handled, Holding
  <2>2. active = Cardinality(Handled) + Holding /\ active <= MAX_HANDLER_THREADS
    BY <2>1, FS_EmptySet, BrokerAssumption DEF BrokerInit, BrokerAssumption
  <2>3. PermitsExact
    BY <2>2 DEF PermitsExact, Handled, Holding
  <2> QED
    BY <2>1, <2>3 DEF BrokerInit, PermitInv
<1>2. ASSUME PermitInv, NEW c \in Clients, Connect(c) \/ Send(c) \/ Receive(c) PROVE PermitInv'
  <2>1. UNCHANGED <<hand, main, active>>
    BY <1>2 DEF Connect, Send, Receive, broker
  <2>2. Handled' = Handled /\ Holding' = Holding
    BY <2>1 DEF Handled, Holding
  <2>3. PermitsExact'
    BY <1>2, <2>1, <2>2, PermitsKept
  <2>4. /\ conn' \in [Clients -> {Nil, "backlog", "accepted", "closed"}]
        /\ DOMAIN launch' = Clients /\ DOMAIN reply' = Clients
    BY <1>2 DEF PermitInv, Connect, Send, Receive
  <2>5. \A b \in Clients : conn'[b] = conn[b] \/ (conn[b] # "accepted" /\ conn'[b] # Nil)
    BY <1>2 DEF PermitInv, Connect, Send, Receive
  <2>6. \A b \in Clients : launch'[b] = "connect" => launch[b] = "connect" /\ conn'[b] = conn[b]
    BY <1>2 DEF PermitInv, Connect, Send, Receive
  <2>7. \A b \in Clients : reply'[b] # NoReply => conn'[b] = "closed"
    BY <1>2 DEF PermitInv, Connect, Send, Receive
  <2>8. Handled \subseteq Clients
    BY DEF Handled
  <2> QED
    BY <1>2, <2>1, <2>2, <2>3, <2>4, <2>5, <2>6, <2>7, <2>8 DEF PermitInv
<1>3. ASSUME PermitInv, DaemonDies PROVE PermitInv'
  <2>1. UNCHANGED <<conn, reply, hand, main, active>>
    BY <1>3 DEF DaemonDies, broker
  <2>2. Handled' = Handled /\ Holding' = Holding
    BY <2>1 DEF Handled, Holding
  <2>3. DOMAIN launch' = Clients /\ \A b \in Clients : launch'[b] = "connect" => launch[b] = "connect"
    BY <1>3 DEF DaemonDies
  <2> QED
    BY <1>3, <2>1, <2>2, <2>3, PermitsKept DEF PermitInv
<1>4. ASSUME PermitInv, run_from_systemd PROVE PermitInv'
  <2>1. /\ UNCHANGED <<launch, conn, reply, hand, active>> /\ main.at = "down"
        /\ main' = main \/ main' = [main EXCEPT !.at = "accept"]
    BY <1>4 DEF run_from_systemd, PinsRoots, launches
  <2>2. Handled' = Handled /\ Holding' = Holding /\ main'.at \in {"down", "accept"}
        /\ main' = [at |-> main'.at, client |-> main'.client]
    BY <1>4, <2>1 DEF Handled, Holding, PermitInv
  <2> QED
    BY <1>4, <2>1, <2>2, PermitsKept DEF PermitInv
<1>5. ASSUME PermitInv, Accept PROVE PermitInv'
  <2>1. PICK c \in Clients : /\ conn[c] = "backlog"
                             /\ conn' = [conn EXCEPT ![c] = "accepted"]
                             /\ main' = [at |-> "acquire", client |-> c]
    BY Zenon, <1>5 DEF Accept
  <2>2. UNCHANGED <<launch, reply, hand, active>> /\ main.at = "accept"
    BY <1>5 DEF Accept, launches
  <2>3. Handled' = Handled /\ Holding' = Holding
    BY <2>1, <2>2 DEF Handled, Holding
  <2> QED
    BY <1>5, <2>1, <2>2, <2>3, PermitsKept DEF PermitInv
<1>6. ASSUME PermitInv, Acquire PROVE PermitInv'
  <2>1. /\ UNCHANGED <<launch, conn, reply, hand>> /\ main.at = "acquire"
        /\ main' = [main EXCEPT !.at = "spawn"]
        /\ active' = active + 1 /\ active < MAX_HANDLER_THREADS
    BY <1>6 DEF Acquire, HasPermit, launches
  <2>2. /\ Handled' = Handled /\ Holding = 0 /\ Holding' = 1
        /\ main' = [at |-> "spawn", client |-> main.client]
    BY <1>6, <2>1 DEF Handled, Holding, PermitInv
  <2>3. active' = Cardinality(Handled') + Holding' /\ active' <= MAX_HANDLER_THREADS
    BY <1>6, <2>1, <2>2, HandledFinite, BrokerAssumption DEF BrokerAssumption
  <2>4. PermitsExact'
    BY <2>3 DEF PermitsExact, Handled, Holding
  <2> QED
    BY <1>6, <2>1, <2>2, <2>4 DEF PermitInv
<1>7. ASSUME PermitInv, SpawnHandler PROVE PermitInv'
  <2> DEFINE c == main.client
  <2>1. /\ main.at = "spawn" /\ c \in Clients \ Handled /\ conn[c] = "accepted"
        /\ UNCHANGED <<launch, reply>> /\ main' = [at |-> "accept", client |-> Nil]
        /\ Holding = 1 /\ Holding' = 0
    BY <1>7 DEF SpawnHandler, PermitInv, Holding, launches
  <2>2. CASE hand' = [hand EXCEPT ![c] = "receive"] /\ UNCHANGED <<active, conn>>
    <3>1. Handled' = Handled \cup {c}
      BY <1>7, <2>1, <2>2 DEF PermitInv, Handled
    <3>2. Cardinality(Handled \cup {c}) = Cardinality(Handled) + 1
      BY Zenon, <1>7, <2>1, HandledFinite, FS_AddElement
    <3>3. active' = Cardinality(Handled') + Holding' /\ active' <= MAX_HANDLER_THREADS
      <4>1. /\ Cardinality(Handled) \in Nat /\ active = Cardinality(Handled) + Holding
            /\ active <= MAX_HANDLER_THREADS
        BY Zenon, <1>7, HandledFinite
      <4>2. Holding = 1 /\ Holding' = 0 /\ active' = active
        BY Zenon, <2>1, <2>2
      <4>3. Cardinality(Handled') = Cardinality(Handled) + 1
        BY Zenon, <3>1, <3>2
      <4> QED
        BY <4>1, <4>2, <4>3
    <3>4. PermitsExact'
      BY <3>3 DEF PermitsExact, Handled, Holding
    <3> QED
      BY <1>7, <2>1, <2>2, <3>1, <3>4 DEF PermitInv
  <2>3. CASE /\ active' = PermitDropped /\ conn' = [conn EXCEPT ![c] = "closed"]
             /\ UNCHANGED hand
    <3>1. Handled' = Handled
      BY <2>3 DEF Handled
    <3>2. active' = Cardinality(Handled') + Holding' /\ active' <= MAX_HANDLER_THREADS
      <4>1. /\ Cardinality(Handled) \in Nat /\ active = Cardinality(Handled) + Holding
            /\ active <= MAX_HANDLER_THREADS
        BY Zenon, <1>7, HandledFinite
      <4>2. Holding = 1 /\ Holding' = 0 /\ active' = active - 1
        BY Zenon, <2>1, <2>3 DEF PermitDropped
      <4>3. Cardinality(Handled') = Cardinality(Handled) /\ MAX_HANDLER_THREADS \in Nat
        BY Zenon, <3>1, BrokerAssumption
      <4> QED
        BY <4>1, <4>2, <4>3
    <3>3. PermitsExact'
      BY <3>2 DEF PermitsExact, Handled, Holding
    <3>4. launch[c] # "connect"
      BY <1>7, <2>1 DEF PermitInv
    <3> QED
      BY <1>7, <2>1, <2>3, <3>1, <3>3, <3>4 DEF PermitInv
  <2> QED
    BY <1>7, <2>2, <2>3 DEF SpawnHandler
<1>8. ASSUME PermitInv, NEW c \in Clients, hand[c] # Nil, hand' = [hand EXCEPT ![c] = "check"] \/
             hand' = [hand EXCEPT ![c] = "mount"],
             UNCHANGED <<launch, conn, reply, main, active>>
      PROVE  PermitInv'
  <2>1. Handled' = Handled /\ Holding' = Holding
        /\ hand' \in [Clients -> {Nil, "receive", "check", "mount"}]
    BY <1>8 DEF PermitInv, Handled, Holding
  <2> QED
    BY <1>8, <2>1, PermitsKept DEF PermitInv
<1>9. ASSUME PermitInv, NEW c \in Clients, ReceiveRequest(c) \/ Check(c) \/ CreateMounts(c)
      PROVE  PermitInv'
  <2>1. hand[c] # Nil /\ UNCHANGED <<launch, main>>
    BY <1>9 DEF ReceiveRequest, Check, CreateMounts, launches
  <2>2. \/ \E r \in {NoReply, Reply(Verdict(c), {}), Reply("MOUNT_UNSUPPORTED", {}),
                     Reply("OK", {View(c, d) : d \in Dirs})} : Ends(c, r)
        \/ /\ hand' = [hand EXCEPT ![c] = "check"] \/ hand' = [hand EXCEPT ![c] = "mount"]
           /\ UNCHANGED <<conn, reply, active>>
    BY Zenon, <1>9 DEF ReceiveRequest, Check, CreateMounts
  <2> QED
    BY <1>8, <1>9, <2>1, <2>2, EndsExact
<1>10. ASSUME PermitInv, Disturb PROVE PermitInv'
  <2>1. UNCHANGED <<launch, conn, reply, hand, main, active>>
    BY <1>10 DEF Disturb, launches, broker
  <2>2. Handled' = Handled /\ Holding' = Holding
    BY <2>1 DEF Handled, Holding
  <2> QED
    BY <1>10, <2>1, <2>2, PermitsKept DEF PermitInv
<1>11. ASSUME PermitInv, Exit PROVE PermitInv'
  <2>1. /\ UNCHANGED <<launch, reply>> /\ active' = 0
        /\ main' = [at |-> "down", client |-> Nil]
        /\ hand' = [c \in Clients |-> Nil]
        /\ conn' = [c \in Clients |-> IF conn[c] = "accepted" THEN "closed" ELSE conn[c]]
    BY <1>11 DEF Exit, launches
  <2>2. Handled' = {} /\ Holding' = 0
    BY <2>1 DEF Handled, Holding
  <2>3. active' = Cardinality(Handled') + Holding' /\ active' <= MAX_HANDLER_THREADS
    BY <2>1, <2>2, FS_EmptySet, BrokerAssumption DEF BrokerAssumption
  <2>4. PermitsExact'
    BY <2>3 DEF PermitsExact, Handled, Holding
  <2> QED
    BY <1>11, <2>1, <2>2, <2>4 DEF PermitInv
<1>12. ASSUME PermitInv, UNCHANGED broker_vars PROVE PermitInv'
  <2>1. UNCHANGED <<launch, conn, reply, hand, main, active>>
    BY <1>12 DEF broker_vars
  <2>2. Handled' = Handled /\ Holding' = Holding
    BY <2>1 DEF Handled, Holding
  <2> QED
    BY <1>12, <2>1, <2>2, PermitsKept DEF PermitInv
<1> QED
  BY <1>1, <1>2, <1>3, <1>4, <1>5, <1>6, <1>7, <1>9, <1>10, <1>11, <1>12
     DEF BrokerNext, Launch, Handler, Serve

\* HandlerSemaphore is exact for any bound and any number of launches: no
\* order of accepted clients, failed thread starts, timeouts, refusals and
\* broker exits loses a permit or grants one too many.
THEOREM Permits == BrokerSpec => []PermitsExact
<1>1. PermitInv => PermitsExact
  BY DEF PermitInv
<1> QED
  BY <1>1, PermitInductive, PTL DEF BrokerSpec
=============================================================================
