-------------------------- MODULE DelegationProofs --------------------------
(***************************************************************************)
(* What a user's delegation of subordinate ids gives.                      *)
(*                                                                         *)
(* Its cache, for any number of threads and edits, as long as no edit      *)
(* brings an older version back: what is cached under a generation is what *)
(* that generation delegates, and a query answers with one moment of its   *)
(* files.  The versions of a file only grow, so a value read twice was     *)
(* there all the time between; two equal generations therefore enclose a   *)
(* moment at which all three files had the versions read, and the helper's *)
(* answers in between are those versions.                                  *)
(*                                                                         *)
(* Its ranges, for every id width and every delegation whose ranges do not *)
(* wrap the wide sum: the merged intervals are exactly the delegated ids   *)
(* not yet removed, and the first one starts with the least of them.       *)
(***************************************************************************)
EXTENDS AvailableIds, DelegationCache, TLAPS

USE SMTT(30), ZenonT(40)

-----------------------------------------------------------------------------
(* The cache.                                                              *)

Moments == [FileNames -> Nat]
Answers == [uid : Nat \X Nat, gid : Nat \X Nat]
Order   == [f \in FileNames |-> IF f = "subuid" THEN 1 ELSE IF f = "subgid" THEN 2 ELSE 3]
First   == {"compare", "uid", "gid", "after", "publish"}
Retry   == {"retry_uid", "retry_gid", "final", "republish"}
Labels  == {"idle", "generation", "returned", "failed"} \cup First \cup Retry

Leq(a, b)  == \A f \in FileNames : a[f] <= b[f]
Active(t)  == pc[t] \notin {"idle", "returned"}
Base(t)    == IF pc[t] \in Retry THEN after[t] ELSE generation[t]
Seen(t, f) == Order[f] < reading[t].next

TypeInv ==
    /\ version \in Moments /\ edits \in Nat
    /\ \A f \in FileNames : version[f] <= edits
    /\ pc \in [Threads -> Labels]
    /\ reading \in [Threads -> [next : 1 .. 4, seen : Moments]]
    /\ generation \in [Threads -> Moments]
    /\ after \in [Threads -> Moments]
    /\ result \in [Threads -> Answers]
    /\ during \in [Threads -> SUBSET Moments]
    /\ cached # None => /\ cached.generation \in Moments
                        /\ cached.delegation = Delegated(cached.generation)
                        /\ Leq(cached.generation, version)

(* A thread between two reads of a generation has not begun the next one.  *)
Rested(t) == pc[t] \notin Reads => reading[t].next = 1

(* What was read so far of a generation is not newer than the files.       *)
SeenPast(t) ==
    pc[t] \in Reads => \A f \in FileNames : Seen(t, f) => reading[t].seen[f] <= version[f]

(* The ghost holds the present, and nothing newer.                         *)
Present(t) ==
    Active(t) => version \in during[t] /\ \A d \in during[t] : Leq(d, version)

(* The first generation is not older than the beginning of the query.      *)
Begun(t) ==
    /\ pc[t] = "generation" =>
          \E d \in during[t] : \A f \in FileNames : Seen(t, f) => d[f] <= reading[t].seen[f]
    /\ pc[t] = "compare" => \E d \in during[t] : Leq(d, generation[t])

(* A moment of the query lies between the two generations it compares.     *)
Between(t) ==
    pc[t] \in First \cup Retry =>
        \E d \in during[t] :
            /\ Leq(Base(t), d)
            /\ pc[t] \in {"after", "final"} =>
                  \A f \in FileNames : Seen(t, f) => d[f] <= reading[t].seen[f]

(* x is what a helper run read of f: from the first to the second one.     *)
Within(t, f, x) ==
    /\ Base(t)[f] <= x /\ x <= version[f]
    /\ pc[t] \in Reads /\ Seen(t, f) => x <= reading[t].seen[f]

Helped(t) ==
    /\ pc[t] \in {"gid", "retry_gid", "after", "final"} =>
          Within(t, "nsswitch", result[t].uid[1]) /\ Within(t, "subuid", result[t].uid[2])
    /\ pc[t] \in {"after", "final"} =>
          Within(t, "nsswitch", result[t].gid[1]) /\ Within(t, "subgid", result[t].gid[2])

(* What is about to be published.                                          *)
Ready(t) ==
    pc[t] \in {"publish", "republish"} =>
        Base(t) \in during[t] /\ result[t] = Delegated(Base(t))

Answered(t) ==
    pc[t] = "returned" => \E v \in during[t] : result[t] = Delegated(v)

ThreadInv(t) ==
    /\ Rested(t) /\ SeenPast(t) /\ Present(t) /\ Begun(t) /\ Between(t)
    /\ Helped(t) /\ Ready(t) /\ Answered(t)

(* A moment is one of the query, or from before it.                        *)
Placed(m, t) == m \in during[t] \/ \A d \in during[t] : Leq(m, d)

CrossInv ==
    /\ \A t, u \in Threads : Active(t) /\ Active(u) => \A m \in during[u] : Placed(m, t)
    /\ cached # None => \A t \in Threads : Active(t) => Placed(cached.generation, t)

Inv == TypeInv /\ (\A t \in Threads : ThreadInv(t)) /\ CrossInv

-----------------------------------------------------------------------------
(* The order in which a generation reads the three files.                  *)
LEMMA FilesOrder ==
    ASSUME NEW n \in 1 .. 3
    PROVE  Files[n] \in FileNames /\ Order[Files[n]] = n /\ Len(Files) = 3
BY DEF Files, FileNames, Order

(* Nothing is cached and no query has begun.                               *)
LEMMA Initially == ~Restores /\ Init => Inv
<1> SUFFICES ASSUME Init PROVE Inv
  OBVIOUS
<1>1. NoGeneration \in Moments /\ NoResult \in Answers
  BY Zenon DEF NoGeneration, NoResult, Moments, Answers, Delegated, FileNames
<1>2. TypeInv
  BY <1>1 DEF Init, TypeInv, StartReading, NoGeneration, Labels, Moments, FileNames
<1>3. \A t \in Threads : ThreadInv(t)
  BY Zenon DEF Init, ThreadInv, Rested, SeenPast, Present, Active, Begun, Between, Helped, Ready,
         Answered, StartReading, Reads, First, Retry
<1>4. CrossInv
  BY Zenon DEF Init, CrossInv, Active
<1> QED
  BY Zenon, <1>2, <1>3, <1>4 DEF Inv

-----------------------------------------------------------------------------
(* A step of one thread changes nothing that the others' invariant reads.  *)
LEMMA Frame ==
    ASSUME NEW u \in Threads, ThreadInv(u), version' = version, pc'[u] = pc[u],
           reading'[u] = reading[u], generation'[u] = generation[u], after'[u] = after[u],
           result'[u] = result[u], during'[u] = during[u]
    PROVE  ThreadInv(u)'
BY DEF ThreadInv, Rested, SeenPast, Present, Active, Begun, Between, Helped, Within, Ready,
       Answered, Base, Seen, Leq

(* A step that begins no query and publishes nothing.                      *)
LEMMA CrossFrame ==
    ASSUME CrossInv, cached' = cached,
           \A u \in Threads : Active(u)' => Active(u) /\ during'[u] = during[u]
    PROVE  CrossInv'
BY Zenon DEF CrossInv, Placed, Leq

(* An edit makes one file newer than every version before.                 *)
LEMMA EditGrows ==
    ASSUME TypeInv, ~Restores, NEW f \in FileNames, Edit(f)
    PROVE  /\ version' \in Moments /\ edits' \in Nat
           /\ \A g \in FileNames : version'[g] <= edits'
           /\ Leq(version, version')
           /\ \A m \in Moments : Leq(m, version) => Leq(m, version')
<1>1. version' = [version EXCEPT ![f] = edits + 1] /\ edits' = edits + 1
  BY Zenon DEF Edit
<1>2. edits \in Nat /\ version \in Moments /\ \A g \in FileNames : version[g] <= edits
  BY Zenon DEF TypeInv
<1>3. \A g \in FileNames : version'[g] \in Nat /\ version[g] \in Nat
                            /\ version[g] <= version'[g] /\ version'[g] <= edits'
  BY <1>1, <1>2 DEF Moments
<1>4. version' \in Moments
  BY <1>1, <1>2 DEF Moments
<1>5. \A m \in Moments : Leq(m, version) => Leq(m, version')
  <2> SUFFICES ASSUME NEW m \in Moments, Leq(m, version), NEW g \in FileNames
              PROVE  m[g] <= version'[g]
    BY Zenon DEF Leq
  <2>1. m[g] \in Nat /\ m[g] <= version[g]
    BY Zenon DEF Leq, Moments
  <2> QED
    BY <2>1, <1>3
<1> QED
  BY <1>1, <1>2, <1>3, <1>4, <1>5 DEF Leq

(* An edit by the administrator, between any two steps of the queries.     *)
LEMMA EditInv ==
    ASSUME Inv, ~Restores, NEW f \in FileNames, Edit(f)
    PROVE  Inv'
<1> USE DEF Inv
<1>1. /\ version' \in Moments /\ edits' \in Nat
      /\ \A g \in FileNames : version'[g] <= edits'
      /\ Leq(version, version')
      /\ \A m \in Moments : Leq(m, version) => Leq(m, version')
  BY Zenon, EditGrows
<1>2. /\ cached' = cached /\ pc' = pc /\ reading' = reading /\ generation' = generation
      /\ after' = after /\ result' = result
      /\ \A t \in Threads : during'[t] = IF Active(t) THEN during[t] \cup {version'} ELSE during[t]
      /\ during' = [t \in Threads |-> IF Active(t) THEN during[t] \cup {version'} ELSE during[t]]
  BY Zenon DEF Edit, locals, Active
<1>3. TypeInv'
  <2>1. during' \in [Threads -> SUBSET Moments]
    BY Zenon, <1>1, <1>2 DEF TypeInv
  <2>2. cached' # None => /\ cached'.generation \in Moments
                          /\ cached'.delegation = Delegated(cached'.generation)
                          /\ Leq(cached'.generation, version')
    BY Zenon, <1>1, <1>2 DEF TypeInv
  <2> QED
    BY Zenon, <1>1, <1>2, <2>1, <2>2 DEF TypeInv, Leq
<1>4. ASSUME NEW t \in Threads PROVE ThreadInv(t)'
  <2>1. /\ ThreadInv(t) /\ during[t] \subseteq Moments /\ during[t] \subseteq during'[t]
        /\ version \in Moments /\ reading[t] \in [next : 1 .. 4, seen : Moments]
        /\ result[t] \in Answers
    BY Zenon, <1>2 DEF TypeInv
  <2>2. Rested(t)'
    BY Zenon, <1>2, <2>1 DEF ThreadInv, Rested
  <2>3. SeenPast(t)'
    <3> SUFFICES ASSUME pc[t] \in Reads, NEW g \in FileNames, Seen(t, g)
                PROVE  reading[t].seen[g] <= version'[g]
      BY Zenon, <1>2 DEF SeenPast, Seen
    <3>1. reading[t].seen[g] \in Nat /\ version[g] \in Nat /\ version'[g] \in Nat
      BY Zenon, <1>1, <2>1 DEF Moments
    <3>2. reading[t].seen[g] <= version[g] /\ version[g] <= version'[g]
      BY Zenon, <1>1, <2>1 DEF ThreadInv, SeenPast, Leq
    <3> QED
      BY <3>1, <3>2
  <2>4. Present(t)'
    <3> SUFFICES ASSUME Active(t) PROVE version' \in during'[t] /\ \A d \in during'[t] : Leq(d, version')
      BY Zenon, <1>2 DEF Present, Active, Leq
    <3>1. during'[t] = during[t] \cup {version'}
      BY Zenon, <1>2
    <3>2. \A d \in during[t] : Leq(d, version')
      BY Zenon, <1>1, <2>1 DEF ThreadInv, Present
    <3>3. Leq(version', version')
      BY <1>1 DEF Leq, Moments
    <3> QED
      BY Zenon, <3>1, <3>2, <3>3
  <2>5. Begun(t)'
    BY Zenon, <1>2, <2>1 DEF ThreadInv, Begun, Seen, Leq
  <2>6. Between(t)'
    BY Zenon, <1>2, <2>1 DEF ThreadInv, Between, Seen, Leq, Base
  <2>7. ASSUME NEW g \in FileNames, NEW x \in Nat, Within(t, g, x)
        PROVE  Within(t, g, x)'
    <3>1. version[g] \in Nat /\ version'[g] \in Nat /\ version[g] <= version'[g] /\ x <= version[g]
      BY Zenon, <1>1, <2>1, <2>7 DEF Moments, Leq, Within
    <3>2. x <= version'[g]
      BY <3>1
    <3> QED
      BY Zenon, <1>2, <2>7, <3>2 DEF Within, Seen, Base
  <2>8. Helped(t)'
    <3>1. /\ result[t].uid[1] \in Nat /\ result[t].uid[2] \in Nat
          /\ result[t].gid[1] \in Nat /\ result[t].gid[2] \in Nat
      BY Zenon, <2>1 DEF Answers
    <3>2. Helped(t)
      BY Zenon, <2>1 DEF ThreadInv
    <3>3. {"nsswitch", "subuid", "subgid"} \subseteq FileNames
      BY Zenon DEF FileNames
    <3> HIDE DEF Inv
    <3> QED
      BY Zenon, <1>2, <2>7, <3>1, <3>2, <3>3 DEF Helped
  <2>9. Ready(t)'
    BY Zenon, <1>2, <2>1 DEF ThreadInv, Ready, Base
  <2>10. Answered(t)'
    BY Zenon, <1>2, <2>1 DEF ThreadInv, Answered
  <2> QED
    BY Zenon, <2>2, <2>3, <2>4, <2>5, <2>6, <2>8, <2>9, <2>10 DEF ThreadInv
<1>5. ASSUME NEW t \in Threads, Active(t), NEW m \in Moments, Placed(m, t), Leq(m, version)
      PROVE  Placed(m, t)'
  BY Zenon, <1>1, <1>2, <1>5 DEF Placed, Leq
<1>6. CrossInv'
  <2>1. ASSUME NEW t \in Threads, NEW u \in Threads, Active(t), Active(u), NEW m \in during'[u]
        PROVE  Placed(m, t)'
    <3>1. CASE m = version'
      BY Zenon, <1>2, <2>1, <3>1 DEF Placed
    <3>2. CASE m \in during[u]
      <4>1. m \in Moments /\ Leq(m, version) /\ Placed(m, t)
        BY Zenon, <2>1, <3>2 DEF TypeInv, ThreadInv, Present, CrossInv
      <4> QED
        BY Zenon, <1>5, <2>1, <4>1
    <3> QED
      BY Zenon, <1>2, <2>1, <3>1, <3>2
  <2>2. ASSUME cached # None, NEW t \in Threads, Active(t)
        PROVE  Placed(cached.generation, t)'
    <3>1. cached.generation \in Moments /\ Leq(cached.generation, version)
             /\ Placed(cached.generation, t)
      BY Zenon, <2>2 DEF TypeInv, CrossInv
    <3>2. \A m \in Moments : Placed(m, t) /\ Leq(m, version) => Placed(m, t)'
      BY Zenon, <1>5, <2>2
    <3> QED
      BY Zenon, <1>2, <3>1, <3>2 DEF Placed, Leq
  <2> QED
    BY Zenon, <1>2, <2>1, <2>2 DEF CrossInv, Active, Placed, Leq
<1> QED
  BY Zenon, <1>3, <1>4, <1>6

-----------------------------------------------------------------------------
(* What is left to show of a step that changes one thread only.            *)
Others(t) ==
    \A u \in Threads \ {t} :
        /\ pc'[u] = pc[u] /\ reading'[u] = reading[u] /\ generation'[u] = generation[u]
        /\ after'[u] = after[u] /\ result'[u] = result[u] /\ during'[u] = during[u]

(* Such a step keeps the invariant when it keeps it for its own thread.    *)
LEMMA Local ==
    ASSUME Inv, NEW t \in Threads, TypeInv', ThreadInv(t)', Others(t), version' = version,
           cached' = cached, Active(t)' => Active(t) /\ during'[t] = during[t]
    PROVE  Inv'
<1>1. ASSUME NEW u \in Threads \ {t} PROVE ThreadInv(u)'
  <2>1. ThreadInv(u) /\ u \in Threads
    BY Zenon DEF Inv
  <2> QED
    BY Zenon, <2>1, Frame DEF Others
<1>2. CrossInv'
  <2>1. \A u \in Threads : Active(u)' => Active(u) /\ during'[u] = during[u]
    BY Zenon DEF Others, Active
  <2> QED
    BY Zenon, <2>1, CrossFrame DEF Inv
<1> QED
  BY Zenon, <1>1, <1>2 DEF Inv

(* A query begins: what is cached is from before it.                       *)
LEMMA BeginInv ==
    ASSUME Inv, NEW t \in Threads, Begin(t)
    PROVE  Inv'
<1>1. /\ pc[t] = "idle" /\ pc' = [pc EXCEPT ![t] = "generation"]
      /\ during' = [during EXCEPT ![t] = {version}]
      /\ version' = version /\ edits' = edits /\ cached' = cached /\ reading' = reading
      /\ generation' = generation /\ after' = after /\ result' = result
  BY Zenon DEF Begin, Goto, locals
<1>2. TypeInv /\ ThreadInv(t) /\ CrossInv
  BY Zenon DEF Inv
<1>3. TypeInv'
  BY Zenon, <1>1, <1>2 DEF TypeInv, Labels, Leq
<1>4. pc'[t] = "generation" /\ during'[t] = {version} /\ reading'[t].next = 1
  BY Zenon, <1>1, <1>2 DEF TypeInv, ThreadInv, Rested, Reads
<1>5. \A f \in FileNames : ~Seen(t, f)'
  BY <1>4 DEF Seen, Order
<1>6. \A m \in Moments : Leq(m, m)
  BY DEF Leq, Moments
<1>7. version \in Moments
  BY Zenon, <1>2 DEF TypeInv
<1>8. ThreadInv(t)'
  <2>1. Present(t)'
    BY Zenon, <1>1, <1>4, <1>6, <1>7 DEF Present, Leq
  <2> QED
    BY Zenon, <1>1, <1>4, <1>5, <2>1 DEF ThreadInv, Rested, SeenPast, Begun, Between, Helped, Ready,
       Answered, Reads, First, Retry
<1>9. ASSUME NEW u \in Threads, u # t PROVE ThreadInv(u)'
  <2>1. ThreadInv(u)
    BY Zenon DEF Inv
  <2> QED
    BY Zenon, <1>1, <1>2, <1>9, <2>1, Frame DEF TypeInv
<1>10. CrossInv'
  <2>1. ASSUME NEW m \in Moments, Leq(m, version) PROVE Placed(m, t)'
    BY Zenon, <1>4, <2>1 DEF Placed, Leq
  <2>2. ASSUME NEW u \in Threads, Active(u) PROVE Placed(version, u)'
    <3>1. version \in during[u] /\ u # t
      BY Zenon, <1>1, <2>2 DEF Inv, ThreadInv, Present, Active
    <3> QED
      BY Zenon, <1>1, <1>2, <3>1 DEF Placed, TypeInv
  <2>3. ASSUME NEW u \in Threads, NEW w \in Threads, Active(u)', Active(w)', NEW m \in during'[w]
        PROVE  Placed(m, u)'
    <3>1. CASE w = t
      <4>1. m = version
        BY Zenon, <1>4, <3>1, <2>3
      <4>2. CASE u = t
        BY Zenon, <1>4, <4>1, <4>2 DEF Placed
      <4>3. CASE u # t
        BY Zenon, <1>1, <1>2, <2>2, <2>3, <4>1, <4>3 DEF Active, TypeInv
      <4> QED
        BY Zenon, <4>2, <4>3
    <3>2. CASE w # t
      <4>1. Active(w) /\ m \in during[w] /\ m \in Moments
        BY Zenon, <1>1, <1>2, <2>3, <3>2 DEF Active, TypeInv
      <4>2. CASE u = t
        <5>1. Leq(m, version)
          BY Zenon, <4>1 DEF Inv, ThreadInv, Present
        <5> QED
          BY Zenon, <2>1, <4>1, <4>2, <5>1
      <4>3. CASE u # t
        <5>1. Active(u) /\ Placed(m, u) /\ during'[u] = during[u]
          BY Zenon, <1>1, <1>2, <2>3, <4>1, <4>3 DEF Active, TypeInv, CrossInv
        <5> QED
          BY Zenon, <5>1 DEF Placed, Leq
      <4> QED
        BY Zenon, <4>2, <4>3
    <3> QED
      BY Zenon, <3>1, <3>2
  <2>4. ASSUME cached # None, NEW u \in Threads, Active(u)'
        PROVE  Placed(cached.generation, u)'
    <3>1. cached.generation \in Moments /\ Leq(cached.generation, version)
      BY Zenon, <1>2, <2>4 DEF TypeInv
    <3>2. CASE u = t
      <4>1. \A d \in during'[u] : Leq(cached.generation, d)
        BY Zenon, <1>4, <3>1, <3>2
      <4> QED
        BY Zenon, <1>1, <4>1 DEF Placed, Leq
    <3>3. CASE u # t
      <4>1. Active(u) /\ Placed(cached.generation, u) /\ during'[u] = during[u]
        BY Zenon, <1>1, <1>2, <2>4, <3>3 DEF Active, TypeInv, CrossInv
      <4> QED
        BY Zenon, <1>1, <4>1 DEF Placed, Leq
    <3> QED
      BY Zenon, <3>2, <3>3
  <2> QED
    BY Zenon, <1>1, <2>3, <2>4 DEF CrossInv, Placed, Leq
<1> QED
  BY Zenon, <1>3, <1>8, <1>9, <1>10 DEF Inv
-----------------------------------------------------------------------------
(* DelegationGeneration::current looks at one more file.                   *)
LEMMA StatNextInv ==
    ASSUME Inv, NEW t \in Threads, StatNext(t)
    PROVE  Inv'
<1> DEFINE n == reading[t].next
           f == Files[n]
<1>1. TypeInv /\ ThreadInv(t)
  BY Zenon DEF Inv
<1>2. Len(Files) = 3
  BY Zenon DEF Files
<1>3. n \in 1 .. 3 /\ pc[t] \in Reads
  BY <1>1, <1>2 DEF StatNext, TypeInv
<1>4. f \in FileNames /\ Order[f] = n
  BY Zenon, <1>3, FilesOrder
<1>5. /\ reading' = [reading EXCEPT ![t].next = @ + 1, ![t].seen[f] = version[f]]
      /\ version' = version /\ edits' = edits /\ cached' = cached /\ pc' = pc
      /\ generation' = generation /\ after' = after /\ result' = result /\ during' = during
  BY Zenon DEF StatNext
<1>6. reading[t] \in [next : 1 .. 4, seen : Moments] /\ version \in Moments
  BY Zenon, <1>1 DEF TypeInv
<1>7. /\ reading'[t].next = n + 1
      /\ reading'[t].seen = [reading[t].seen EXCEPT ![f] = version[f]]
      /\ \A u \in Threads \ {t} : reading'[u] = reading[u]
  BY Zenon, <1>1, <1>5, <1>6 DEF TypeInv
<1> HIDE DEF f
<1>9. reading'[t].seen \in Moments
  BY Zenon, <1>4, <1>6, <1>7 DEF Moments
<1>10. TypeInv'
  <2>1. reading'[t] \in [next : 1 .. 4, seen : Moments]
    <3>1. reading'[t] = [reading[t] EXCEPT !.next = n + 1, !.seen = [reading[t].seen EXCEPT ![f] = version[f]]]
      BY Zenon, <1>1, <1>5, <1>6 DEF TypeInv
    <3>2. [reading[t].seen EXCEPT ![f] = version[f]] \in Moments
      BY Zenon, <1>7, <1>9
    <3>3. n + 1 \in 1 .. 4
      BY <1>3
    <3> HIDE DEF n
    <3> DEFINE new == [reading[t].seen EXCEPT ![f] = version[f]]
               k   == n + 1
    <3>4. reading'[t] = [reading[t] EXCEPT !.next = k, !.seen = new]
      BY Zenon, <3>1
    <3>5. new \in Moments /\ k \in 1 .. 4
      BY Zenon, <3>2, <3>3
    <3> HIDE DEF new, k
    <3> QED
      BY Zenon, <1>6, <3>4, <3>5
  <2>2. reading' \in [Threads -> [next : 1 .. 4, seen : Moments]]
    <3>1. DOMAIN reading' = Threads /\ reading' = [u \in Threads |-> reading'[u]]
      BY Zenon, <1>1, <1>5 DEF TypeInv
    <3>2. \A u \in Threads : reading'[u] \in [next : 1 .. 4, seen : Moments]
      BY Zenon, <1>1, <1>7, <2>1 DEF TypeInv
    <3> QED
      BY Zenon, <3>1, <3>2
  <2> QED
    BY Zenon, <1>1, <1>5, <2>2 DEF TypeInv, Leq
(* What is seen now was seen before, or is the present version of f.       *)
<1>11. ASSUME NEW g \in FileNames, Seen(t, g)'
       PROVE  \/ Seen(t, g) /\ reading'[t].seen[g] = reading[t].seen[g]
              \/ reading'[t].seen[g] = version[g]
  <2>1. Order[g] \in 1 .. 3 /\ (Order[g] = Order[f] => g = f)
    BY <1>4 DEF Order, FileNames
  <2>2. Order[g] < n + 1
    BY Zenon, <1>7, <1>11 DEF Seen
  <2>3. CASE g = f
    BY Zenon, <1>4, <1>6, <1>7, <2>3 DEF Moments
  <2>4. CASE g # f
    <3>1. Order[g] < n
      BY <1>3, <1>4, <2>1, <2>2, <2>4
    <3>2. reading'[t].seen[g] = reading[t].seen[g]
      BY Zenon, <1>6, <1>7, <2>4 DEF Moments
    <3> QED
      BY Zenon, <3>1, <3>2 DEF Seen
  <2> QED
    BY Zenon, <2>3, <2>4
<1>12. \A d \in during[t] : d \in Moments
  BY Zenon, <1>1 DEF TypeInv
<1>13. Active(t) /\ \A d \in during[t] : Leq(d, version)
  BY Zenon, <1>1, <1>3 DEF ThreadInv, Present, Active, Reads
<1>14. ThreadInv(t)'
  <2>1. Rested(t)'
    BY Zenon, <1>3, <1>5 DEF Rested
  <2>2. SeenPast(t)'
    <3> SUFFICES ASSUME NEW g \in FileNames, Seen(t, g)'
                PROVE  reading'[t].seen[g] <= version'[g]
      BY Zenon DEF SeenPast
    <3>1. version[g] <= version[g]
      BY <1>6 DEF Moments
    <3> QED
      BY Zenon, <1>1, <1>3, <1>5, <1>11, <3>1 DEF ThreadInv, SeenPast
  <2>3. Present(t)'
    BY Zenon, <1>1, <1>5 DEF ThreadInv, Present, Active, Leq
  <2>4. ASSUME NEW d \in during[t],
               \A g \in FileNames : Seen(t, g) => d[g] <= reading[t].seen[g]
        PROVE  \A g \in FileNames : Seen(t, g)' => d[g] <= reading'[t].seen[g]
    BY Zenon, <1>11, <1>13, <2>4 DEF Leq
  <2>5. Begun(t)'
    <3>1. Begun(t)
      BY Zenon, <1>1 DEF ThreadInv
    <3> QED
      BY Zenon, <1>3, <1>5, <2>4, <3>1 DEF Begun, Reads
  <2>6. Between(t)'
    <3>1. Between(t) /\ Base(t)' = Base(t)
      BY Zenon, <1>1, <1>5 DEF ThreadInv, Base
    <3> QED
      BY Zenon, <1>3, <1>5, <2>4, <3>1 DEF Between, Leq
  <2>7. ASSUME NEW g \in FileNames, NEW x, Within(t, g, x) PROVE Within(t, g, x)'
    BY Zenon, <1>3, <1>5, <1>11, <2>7 DEF Within, Base
  <2>8. Helped(t)'
    <3>1. {"nsswitch", "subuid", "subgid"} \subseteq FileNames /\ Helped(t)
      BY Zenon, <1>1 DEF FileNames, ThreadInv
    <3> QED
      BY Zenon, <1>5, <2>7, <3>1 DEF Helped
  <2>9. Ready(t)' /\ Answered(t)'
    BY Zenon, <1>3, <1>5 DEF Ready, Answered, Reads
  <2> QED
    BY Zenon, <2>1, <2>2, <2>3, <2>5, <2>6, <2>8, <2>9 DEF ThreadInv
<1> QED
  BY Zenon, <1>5, <1>7, <1>10, <1>13, <1>14, Local DEF Others

(* The last file is read: a thread t leaves the read w for x.              *)
WholeRead(t, w, x) ==
    /\ \A f \in FileNames : Seen(t, f)
    /\ reading[t].seen \in Moments /\ Leq(reading[t].seen, version)
    /\ version \in during[t] /\ pc[t] = w /\ pc' = [pc EXCEPT ![t] = x]
    /\ pc' \in [Threads -> Labels]
    /\ reading' \in [Threads -> [next : 1 .. 4, seen : Moments]]
    /\ reading'[t].next = 1 /\ \A f \in FileNames : ~Seen(t, f)'
    /\ \A u \in Threads \ {t} : reading'[u] = reading[u] /\ pc'[u] = pc[u]
    /\ pc'[t] = x /\ Active(t)

(* When all three files are read.                                          *)
LEMMA AllSeen ==
    ASSUME Inv, NEW t \in Threads, NEW w \in Reads, NEW x \in Labels, ReadDone(t, w, x)
    PROVE  WholeRead(t, w, x)
<1>1. TypeInv /\ ThreadInv(t)
  BY Zenon DEF Inv
<1>2. /\ pc[t] = w /\ reading[t].next > 3 /\ pc' = [pc EXCEPT ![t] = x]
      /\ reading' = [reading EXCEPT ![t] = StartReading]
  BY Zenon DEF ReadDone, Goto, Files
<1>3. reading[t].next \in 1 .. 4 /\ reading[t].seen \in Moments
  BY Zenon, <1>1 DEF TypeInv
<1>4. \A f \in FileNames : Seen(t, f)
  BY <1>2, <1>3 DEF Seen, Order
<1>5. Active(t)
  BY Zenon, <1>2 DEF Active, Reads
<1>6. StartReading \in [next : 1 .. 4, seen : Moments]
  BY DEF StartReading, Moments, NoGeneration
<1>7. reading' \in [Threads -> [next : 1 .. 4, seen : Moments]]
  BY Zenon, <1>1, <1>2, <1>6 DEF TypeInv
<1>8. reading'[t].next = 1
  BY Zenon, <1>1, <1>2 DEF TypeInv, StartReading
<1>9. \A f \in FileNames : ~Seen(t, f)'
  BY <1>8 DEF Seen, Order
<1>10. Leq(reading[t].seen, version) /\ version \in during[t]
  BY Zenon, <1>1, <1>2, <1>4, <1>5 DEF ThreadInv, SeenPast, Present, Leq
<1> QED
  BY Zenon, <1>1, <1>2, <1>3, <1>4, <1>5, <1>7, <1>8, <1>9, <1>10 DEF TypeInv, WholeRead



(* The generation a query starts from is complete.                         *)
LEMMA FirstGenerationInv ==
    ASSUME Inv, NEW t \in Threads, FirstGeneration(t)
    PROVE  Inv'
<1>1. /\ ReadDone(t, "generation", "compare")
      /\ generation' = [generation EXCEPT ![t] = reading[t].seen]
      /\ version' = version /\ edits' = edits /\ cached' = cached
      /\ after' = after /\ result' = result /\ during' = during
  BY Zenon DEF FirstGeneration
<1>2. TypeInv /\ ThreadInv(t)
  BY Zenon DEF Inv
<1>3. "generation" \in Reads /\ "compare" \in Labels
  BY Zenon DEF Reads, Labels, First
<1>4. /\ \A f \in FileNames : Seen(t, f)
      /\ reading[t].seen \in Moments /\ Leq(reading[t].seen, version)
      /\ version \in during[t] /\ pc[t] = "generation"
      /\ pc' \in [Threads -> Labels]
      /\ reading' \in [Threads -> [next : 1 .. 4, seen : Moments]]
      /\ reading'[t].next = 1
      /\ \A u \in Threads \ {t} : reading'[u] = reading[u] /\ pc'[u] = pc[u]
      /\ pc'[t] = "compare" /\ Active(t)
  <2>1. WholeRead(t, "generation", "compare")
    BY Zenon, <1>1, <1>3, AllSeen
  <2> QED
    BY Zenon, <2>1 DEF WholeRead
<1>5. TypeInv'
  <2>1. generation' \in [Threads -> Moments]
    BY Zenon, <1>1, <1>2, <1>4 DEF TypeInv
  <2> QED
    BY <1>1, <1>2, <1>4, <2>1, SMTT(30) DEF TypeInv, Leq
<1>6. generation'[t] = reading[t].seen
  BY Zenon, <1>1, <1>2 DEF TypeInv
<1>7. ThreadInv(t)'
  <2>1. Begun(t)'
    BY Zenon, <1>1, <1>2, <1>4, <1>6 DEF ThreadInv, Begun, Leq
  <2>2. Between(t)'
    <3>1. Base(t)' = reading[t].seen
      BY Zenon, <1>4, <1>6 DEF Base, Retry
    <3> QED
      BY Zenon, <1>1, <1>4, <3>1 DEF Between, Leq
  <2>3. Present(t)'
    BY Zenon, <1>1, <1>2, <1>4 DEF ThreadInv, Present, Leq
  <2> QED
    BY Zenon, <1>4, <2>1, <2>2, <2>3 DEF ThreadInv, Rested, SeenPast, Helped, Ready, Answered, Reads
<1> QED
  BY Zenon, <1>1, <1>2, <1>4, <1>5, <1>7, Local DEF Others, TypeInv

(* The warm path answers with a generation of the query.                   *)
LEMMA CompareInv ==
    ASSUME Inv, NEW t \in Threads, Compare(t)
    PROVE  Inv'
<1>1. TypeInv /\ ThreadInv(t) /\ CrossInv
  BY Zenon DEF Inv
<1>2. /\ pc[t] = "compare" /\ version' = version /\ edits' = edits /\ cached' = cached
      /\ reading' = reading /\ generation' = generation /\ after' = after /\ during' = during
  BY Zenon DEF Compare
<1>3. Active(t) /\ reading[t].next = 1
  BY Zenon, <1>1, <1>2 DEF Active, ThreadInv, Rested, Reads
<1>4. CASE cached # None /\ cached.generation = generation[t]
  <2>1. result' = [result EXCEPT ![t] = cached.delegation] /\ pc' = [pc EXCEPT ![t] = "returned"]
    BY Zenon, <1>4 DEF Compare, Goto
  <2> DEFINE g == generation[t]
  <2>2. g \in Moments /\ cached.delegation = Delegated(g)
    BY Zenon, <1>1, <1>4 DEF TypeInv
  <2>3. Delegated(g) \in Answers
    BY Zenon, <2>2 DEF Delegated, Answers, Moments, FileNames
  <2>4. TypeInv'
    BY Zenon, <1>1, <1>2, <2>1, <2>2, <2>3 DEF TypeInv, Labels, Leq
  (* The generation is of the query: it is not older than its beginning.   *)
  <2>5. g \in during[t]
    <3>1. PICK d \in during[t] : Leq(d, g)
      BY Zenon, <1>1, <1>2 DEF ThreadInv, Begun
    <3>2. Placed(g, t)
      BY Zenon, <1>1, <1>3, <1>4 DEF CrossInv
    <3>3. CASE \A m \in during[t] : Leq(g, m)
      <4>1. d \in Moments /\ Leq(g, d)
        BY Zenon, <1>1, <3>3 DEF TypeInv
      <4>2. \A f \in FileNames : d[f] = g[f]
        BY <2>2, <3>1, <4>1 DEF Leq, Moments
      <4> QED
        BY <2>2, <4>1, <4>2 DEF Moments
    <3> QED
      BY Zenon, <3>2, <3>3 DEF Placed
  <2>6. pc'[t] = "returned" /\ result'[t] = Delegated(g)
    BY Zenon, <1>1, <2>1, <2>2 DEF TypeInv
  <2>7. ThreadInv(t)'
    BY Zenon, <1>2, <1>3, <2>5, <2>6 DEF ThreadInv, Rested, SeenPast, Present, Active, Begun, Between, Helped,
       Ready, Answered, Reads, First, Retry
  <2> QED
    BY Zenon, <1>1, <1>2, <2>1, <2>4, <2>6, <2>7, Local DEF Others, TypeInv, Active
<1>5. CASE ~(cached # None /\ cached.generation = generation[t])
  <2>1. result' = result /\ pc' = [pc EXCEPT ![t] = "uid"]
    BY Zenon, <1>5 DEF Compare, Goto
  <2>2. TypeInv' /\ pc'[t] = "uid"
    BY Zenon, <1>1, <1>2, <2>1 DEF TypeInv, Labels, First, Leq
  <2>3. Between(t)'
    BY Zenon, <1>1, <1>2, <2>2 DEF ThreadInv, Between, Base, First, Retry, Leq
  <2>4. Present(t)'
    BY Zenon, <1>1, <1>2, <1>3 DEF ThreadInv, Present, Leq
  <2>5. ThreadInv(t)'
    BY Zenon, <1>2, <1>3, <2>2, <2>3, <2>4 DEF ThreadInv, Rested, SeenPast, Begun, Helped, Ready, Answered, Reads
  <2> QED
    BY Zenon, <1>1, <1>2, <1>3, <2>1, <2>2, <2>5, Local DEF Others, TypeInv
<1> QED
  BY Zenon, <1>4, <1>5

(* One run of getsubids: what it read is not older than the generation.    *)
LEMMA RunInv ==
    ASSUME Inv, NEW t \in Threads,
           NEW at, NEW kind, NEW next,
           <<at, kind, next>> \in {<<"uid", "uid", "gid">>, <<"gid", "gid", "after">>,
               <<"retry_uid", "uid", "retry_gid">>, <<"retry_gid", "gid", "final">>},
           Run(t, at, kind, next)
    PROVE  Inv'
<1>1. TypeInv /\ ThreadInv(t)
  BY Zenon DEF Inv
<1>2. /\ pc[t] = at /\ version' = version /\ edits' = edits /\ cached' = cached
      /\ reading' = reading /\ generation' = generation /\ after' = after /\ during' = during
  BY Zenon DEF Run
<1>3. \/ at = "uid" /\ kind = "uid" /\ next = "gid"
      \/ at = "gid" /\ kind = "gid" /\ next = "after"
      \/ at = "retry_uid" /\ kind = "uid" /\ next = "retry_gid"
      \/ at = "retry_gid" /\ kind = "gid" /\ next = "final"
  OBVIOUS
<1>4. Active(t) /\ reading[t].next = 1 /\ \A f \in FileNames : ~Seen(t, f) /\ ~Seen(t, f)'
  <2>1. Active(t) /\ reading[t].next = 1
    BY Zenon, <1>1, <1>2, <1>3 DEF Active, ThreadInv, Rested, Reads
  <2> QED
    BY <1>2, <2>1 DEF Seen, Order
<1>5. result[t] \in Answers /\ version \in Moments
  BY Zenon, <1>1 DEF TypeInv
<1>6. CASE pc' = [pc EXCEPT ![t] = "failed"] /\ result' = result
  <2>1. TypeInv' /\ pc'[t] = "failed"
    BY Zenon, <1>1, <1>2, <1>6 DEF TypeInv, Labels, Leq
  <2>2. Present(t)'
    BY Zenon, <1>1, <1>2, <1>4 DEF ThreadInv, Present, Leq
  <2>3. ThreadInv(t)'
    BY Zenon, <1>2, <1>4, <2>1, <2>2 DEF ThreadInv, Rested, SeenPast, Begun, Between, Helped, Ready,
       Answered, Reads, First, Retry
  <2> QED
    BY Zenon, <1>1, <1>2, <1>4, <1>6, <2>1, <2>3, Local DEF Others, TypeInv
<1>7. CASE /\ result' = [result EXCEPT ![t][kind] = Delegated(version)[kind]]
           /\ pc' = [pc EXCEPT ![t] = next]
  <2>1. pc' \in [Threads -> Labels] /\ pc'[t] = next
    BY Zenon, <1>1, <1>3, <1>7 DEF TypeInv, Labels, First, Retry
  <2>2. Delegated(version) \in Answers
    BY Zenon, <1>5 DEF Delegated, Answers, Moments, FileNames
  <2>3. result'[t] = [result[t] EXCEPT ![kind] = Delegated(version)[kind]]
    BY Zenon, <1>1, <1>7 DEF TypeInv
  <2>4. result' \in [Threads -> Answers] /\ result'[t] \in Answers
    <3>1. result'[t] \in Answers
      BY Zenon, <1>3, <1>5, <2>2, <2>3 DEF Answers
    <3> QED
      BY Zenon, <1>1, <1>7, <3>1 DEF TypeInv
  <2>5. TypeInv'
    BY Zenon, <1>1, <1>2, <2>1, <2>4 DEF TypeInv, Leq
  <2>6. Base(t)' = Base(t) /\ Base(t) \in Moments
    BY Zenon, <1>1, <1>2, <1>3, <2>1 DEF Base, Retry, TypeInv
  <2>7. Present(t)' /\ Present(t)
    BY Zenon, <1>1, <1>2, <1>4 DEF ThreadInv, Present, Leq
  <2>8. PICK d \in during[t] : Leq(Base(t), d)
    BY Zenon, <1>1, <1>2, <1>3 DEF ThreadInv, Between, First, Retry
  <2>9. Between(t)'
    BY Zenon, <1>2, <1>4, <2>6, <2>8 DEF Between, Leq
  <2>10. \A f \in FileNames : Within(t, f, version[f])'
    <3>1. d \in Moments /\ Leq(d, version)
      BY Zenon, <1>1, <1>4, <2>7 DEF TypeInv, Present
    <3>2. \A f \in FileNames : Base(t)[f] <= version[f] /\ version[f] <= version[f]
      BY <1>5, <2>6, <2>8, <3>1 DEF Leq, Moments
    <3> QED
      BY Zenon, <1>2, <1>4, <2>6, <3>2 DEF Within
  <2>11. ASSUME NEW f \in FileNames, NEW x, Within(t, f, x) PROVE Within(t, f, x)'
    BY Zenon, <1>2, <1>4, <2>6, <2>11 DEF Within
  <2>12. {"nsswitch", "subuid", "subgid"} \subseteq FileNames
    BY Zenon DEF FileNames
  <2>13. Helped(t)'
    <3>1. CASE kind = "uid"
      <4>1. result'[t].uid = <<version["nsswitch"], version["subuid"]>>
        <5>1. result'[t] = [result[t] EXCEPT !["uid"] = Delegated(version)["uid"]]
          BY Zenon, <2>3, <3>1
        <5>2. result'[t].uid = Delegated(version)["uid"]
          BY Zenon, <1>5, <5>1 DEF Answers
        <5> QED
          BY Zenon, <5>2 DEF Delegated
      <4>2. pc'[t] \notin {"after", "final"}
        BY Zenon, <1>3, <2>1, <3>1
      <4> QED
        BY <1>2, <2>10, <2>12, <4>1, <4>2 DEF Helped, Within
    <3>2. CASE kind = "gid"
      <4>1. result'[t].gid = <<version["nsswitch"], version["subgid"]>> /\ result'[t].uid = result[t].uid
        <5>1. result'[t] = [result[t] EXCEPT !["gid"] = Delegated(version)["gid"]]
          BY Zenon, <2>3, <3>2
        <5>2. result'[t].gid = Delegated(version)["gid"] /\ result'[t].uid = result[t].uid
          BY Zenon, <1>5, <5>1 DEF Answers
        <5> QED
          BY Zenon, <5>2 DEF Delegated
      <4>2. Within(t, "nsswitch", result[t].uid[1]) /\ Within(t, "subuid", result[t].uid[2])
        BY Zenon, <1>1, <1>2, <1>3, <3>2 DEF ThreadInv, Helped
      <4> QED
        BY <1>2, <2>10, <2>11, <2>12, <4>1, <4>2 DEF Helped, Within
    <3> QED
      BY Zenon, <1>3, <3>1, <3>2
  <2>14. ThreadInv(t)'
    BY Zenon, <1>2, <1>3, <1>4, <2>1, <2>7, <2>9, <2>13 DEF ThreadInv, Rested, SeenPast, Begun, Ready,
       Answered
  <2>15. Others(t)
    BY Zenon, <1>1, <1>2, <1>7 DEF Others, TypeInv
  <2> QED
    BY Zenon, <1>2, <1>4, <2>5, <2>14, <2>15, Local
<1> QED
  BY Zenon, <1>6, <1>7 DEF Run, Goto

(* Two equal generations enclose one moment, and the helper read it.       *)
LEMMA Sandwich ==
    ASSUME Inv, NEW t \in Threads, pc[t] \in {"after", "final"},
           \A f \in FileNames : Seen(t, f), reading[t].seen = Base(t)
    PROVE  Base(t) \in during[t] /\ result[t] = Delegated(Base(t))
<1> DEFINE b == Base(t)
<1>1. TypeInv /\ ThreadInv(t)
  BY Zenon DEF Inv
<1>2. b \in Moments /\ result[t] \in Answers
  BY Zenon, <1>1 DEF TypeInv, Base
<1>3. b \in during[t]
  <2>1. PICK d \in during[t] : Leq(b, d) /\ \A f \in FileNames : d[f] <= b[f]
    BY Zenon, <1>1 DEF ThreadInv, Between, First, Retry
  <2>2. d \in Moments
    BY Zenon, <1>1 DEF TypeInv
  <2>3. \A f \in FileNames : d[f] = b[f]
    BY <1>2, <2>1, <2>2 DEF Leq, Moments
  <2> QED
    BY <1>2, <2>2, <2>3 DEF Moments
<1>4. ASSUME NEW f \in FileNames, NEW x \in Nat, Within(t, f, x) PROVE x = b[f]
  <2>1. b[f] <= x /\ x <= b[f] /\ b[f] \in Nat
    BY Zenon, <1>2, <1>4 DEF Within, Moments, Reads
  <2> QED
    BY <2>1
<1>5. /\ Within(t, "nsswitch", result[t].uid[1]) /\ Within(t, "subuid", result[t].uid[2])
      /\ Within(t, "nsswitch", result[t].gid[1]) /\ Within(t, "subgid", result[t].gid[2])
  BY Zenon, <1>1 DEF ThreadInv, Helped
<1>6. /\ result[t].uid[1] \in Nat /\ result[t].uid[2] \in Nat
      /\ result[t].gid[1] \in Nat /\ result[t].gid[2] \in Nat
      /\ result[t].uid = <<result[t].uid[1], result[t].uid[2]>>
      /\ result[t].gid = <<result[t].gid[1], result[t].gid[2]>>
      /\ result[t] = [uid |-> result[t].uid, gid |-> result[t].gid]
  BY <1>2 DEF Answers
<1>7. {"nsswitch", "subuid", "subgid"} \subseteq FileNames
  BY Zenon DEF FileNames
<1>8. /\ result[t].uid[1] = b["nsswitch"] /\ result[t].uid[2] = b["subuid"]
      /\ result[t].gid[1] = b["nsswitch"] /\ result[t].gid[2] = b["subgid"]
  BY Zenon, <1>4, <1>5, <1>6, <1>7
<1> HIDE DEF b
<1>9. result[t] = Delegated(b)
  BY Zenon, <1>6, <1>8 DEF Delegated
<1> QED
  BY Zenon, <1>3, <1>9 DEF b

(* The generation after the first two runs: publish, or query again.       *)
LEMMA SecondGenerationInv ==
    ASSUME Inv, NEW t \in Threads, SecondGeneration(t)
    PROVE  Inv'
<1> DEFINE to == IF reading[t].seen = generation[t] THEN "publish" ELSE "retry_uid"
<1>1. /\ ReadDone(t, "after", to)
      /\ after' = [after EXCEPT ![t] = reading[t].seen]
      /\ version' = version /\ edits' = edits /\ cached' = cached
      /\ generation' = generation /\ result' = result /\ during' = during
  BY Zenon DEF SecondGeneration
<1>2. TypeInv /\ ThreadInv(t)
  BY Zenon DEF Inv
<1>3. "after" \in Reads /\ to \in Labels
  BY Zenon DEF Reads, Labels, First, Retry
<1> HIDE DEF to
<1>4. /\ \A f \in FileNames : Seen(t, f)
      /\ reading[t].seen \in Moments /\ Leq(reading[t].seen, version)
      /\ version \in during[t] /\ pc[t] = "after"
      /\ pc' \in [Threads -> Labels]
      /\ reading' \in [Threads -> [next : 1 .. 4, seen : Moments]]
      /\ reading'[t].next = 1
      /\ \A u \in Threads \ {t} : reading'[u] = reading[u] /\ pc'[u] = pc[u]
      /\ pc'[t] = to /\ Active(t)
  <2>1. WholeRead(t, "after", to)
    BY Zenon, <1>1, <1>3, AllSeen
  <2> QED
    BY Zenon, <2>1 DEF WholeRead
<1>5. TypeInv' /\ after'[t] = reading[t].seen
  BY Zenon, <1>1, <1>2, <1>4 DEF TypeInv, Leq
<1>6. Present(t)'
  BY Zenon, <1>1, <1>2, <1>4 DEF ThreadInv, Present, Leq
<1>7. ThreadInv(t)'
  <2>1. CASE reading[t].seen = generation[t]
    <3>1. Base(t) = generation[t] /\ Base(t)' = generation[t] /\ pc'[t] = "publish"
      BY Zenon, <1>1, <1>4, <2>1 DEF Base, Retry, to
    <3>2. generation[t] \in during[t] /\ result[t] = Delegated(generation[t])
      BY Zenon, <1>4, <2>1, <3>1, Sandwich
    <3>3. Between(t)'
      <4>1. Leq(generation[t], generation[t])
        BY <1>2 DEF Leq, TypeInv, Moments
      <4> QED
        BY Zenon, <1>1, <3>1, <3>2, <4>1 DEF Between, Leq
    <3> QED
      BY Zenon, <1>1, <1>4, <1>6, <3>1, <3>2, <3>3
         DEF ThreadInv, Rested, SeenPast, Begun, Helped, Ready, Answered, Reads
  <2>2. CASE reading[t].seen # generation[t]
    <3>1. Base(t)' = reading[t].seen /\ pc'[t] = "retry_uid"
      BY Zenon, <1>4, <1>5, <2>2 DEF Base, Retry, to
    <3>2. Between(t)'
      BY Zenon, <1>1, <1>4, <3>1 DEF Between, Leq
    <3> QED
      BY Zenon, <1>4, <1>6, <3>1, <3>2
         DEF ThreadInv, Rested, SeenPast, Begun, Helped, Ready, Answered, Reads
  <2> QED
    BY Zenon, <2>1, <2>2
<1> QED
  BY Zenon, <1>1, <1>2, <1>4, <1>5, <1>7, Local DEF Others, TypeInv

(* The generation after the retry: publish, or give up.                    *)
LEMMA FinalGenerationInv ==
    ASSUME Inv, NEW t \in Threads, FinalGeneration(t)
    PROVE  Inv'
<1> DEFINE to == IF reading[t].seen = after[t] THEN "republish" ELSE "failed"
<1>1. /\ ReadDone(t, "final", to) /\ after' = after
      /\ version' = version /\ edits' = edits /\ cached' = cached
      /\ generation' = generation /\ result' = result /\ during' = during
  BY Zenon DEF FinalGeneration
<1>2. TypeInv /\ ThreadInv(t)
  BY Zenon DEF Inv
<1>3. "final" \in Reads /\ to \in Labels
  BY Zenon DEF Reads, Labels, First, Retry
<1> HIDE DEF to
<1>4. /\ \A f \in FileNames : Seen(t, f)
      /\ version \in during[t] /\ pc[t] = "final"
      /\ pc' \in [Threads -> Labels]
      /\ reading' \in [Threads -> [next : 1 .. 4, seen : Moments]]
      /\ reading'[t].next = 1
      /\ \A u \in Threads \ {t} : reading'[u] = reading[u] /\ pc'[u] = pc[u]
      /\ pc'[t] = to /\ Active(t)
  <2>1. WholeRead(t, "final", to)
    BY Zenon, <1>1, <1>3, AllSeen
  <2> QED
    BY Zenon, <2>1 DEF WholeRead
<1>5. TypeInv'
  BY Zenon, <1>1, <1>2, <1>4 DEF TypeInv, Leq
<1>6. Present(t)'
  BY Zenon, <1>1, <1>2, <1>4 DEF ThreadInv, Present, Leq
<1>7. ThreadInv(t)'
  <2>1. CASE reading[t].seen = after[t]
    <3>1. Base(t) = after[t] /\ Base(t)' = after[t] /\ pc'[t] = "republish"
      BY Zenon, <1>1, <1>4, <2>1 DEF Base, Retry, to
    <3>2. after[t] \in during[t] /\ result[t] = Delegated(after[t])
      BY Zenon, <1>4, <2>1, <3>1, Sandwich
    <3>3. Between(t)'
      <4>1. Leq(after[t], after[t])
        BY <1>2 DEF Leq, TypeInv, Moments
      <4> QED
        BY Zenon, <1>1, <3>1, <3>2, <4>1 DEF Between, Leq
    <3> QED
      BY Zenon, <1>1, <1>4, <1>6, <3>1, <3>2, <3>3
         DEF ThreadInv, Rested, SeenPast, Begun, Helped, Ready, Answered, Reads
  <2>2. CASE reading[t].seen # after[t]
    <3>1. pc'[t] = "failed"
      BY Zenon, <1>4, <2>2 DEF to
    <3> QED
      BY Zenon, <1>4, <1>6, <3>1
         DEF ThreadInv, Rested, SeenPast, Begun, Between, Helped, Ready, Answered, Reads, First, Retry
  <2> QED
    BY Zenon, <2>1, <2>2
<1> QED
  BY Zenon, <1>1, <1>2, <1>4, <1>5, <1>7, Local DEF Others, TypeInv

-----------------------------------------------------------------------------
(* publish stores a generation that every query running can place.         *)
LEMMA PublishInv ==
    ASSUME Inv, NEW t \in Threads, Publish(t)
    PROVE  Inv'
<1> DEFINE b == Base(t)
<1>1. TypeInv /\ ThreadInv(t) /\ CrossInv
  BY Zenon DEF Inv
<1>2. /\ pc[t] \in {"publish", "republish"} /\ pc' = [pc EXCEPT ![t] = "returned"]
      /\ version' = version /\ edits' = edits /\ reading' = reading
      /\ generation' = generation /\ after' = after /\ result' = result /\ during' = during
      /\ cached' = cached \/ cached' = [generation |-> b, delegation |-> result[t]]
  BY Zenon DEF Publish, Goto, locals, Base, Retry
<1>3. b \in during[t] /\ result[t] = Delegated(b) /\ b \in Moments /\ Leq(b, version)
  BY Zenon, <1>1, <1>2 DEF ThreadInv, Ready, Present, Active, TypeInv
<1> HIDE DEF b
<1>4. TypeInv'
  <2>1. cached' # None => /\ cached'.generation \in Moments
                          /\ cached'.delegation = Delegated(cached'.generation)
                          /\ Leq(cached'.generation, version)
    <3>1. CASE cached' = cached
      BY Zenon, <1>1, <3>1 DEF TypeInv
    <3>2. CASE cached' = [generation |-> b, delegation |-> result[t]]
      BY Zenon, <1>3, <3>2
    <3> QED
      BY Zenon, <1>2, <3>1, <3>2
  <2> QED
    BY Zenon, <1>1, <1>2, <2>1 DEF TypeInv, Labels, Leq
<1>5. \A u \in Threads \ {t} : pc'[u] = pc[u]
  BY Zenon, <1>1, <1>2 DEF TypeInv
<1>6. pc'[t] = "returned" /\ reading[t].next = 1
  BY Zenon, <1>1, <1>2 DEF TypeInv, ThreadInv, Rested, Reads
<1>7. ThreadInv(t)'
  BY Zenon, <1>2, <1>3, <1>6 DEF ThreadInv, Rested, SeenPast, Present, Active, Begun, Between, Helped,
     Ready, Answered, Reads, First, Retry
<1>8. ASSUME NEW u \in Threads \ {t} PROVE ThreadInv(u)'
  <2>1. ThreadInv(u)
    BY Zenon DEF Inv
  <2> QED
    BY Zenon, <1>2, <1>5, <2>1, Frame
<1>9. CrossInv'
  <2>1. \A u \in Threads : Active(u)' => Active(u)
    BY Zenon, <1>5, <1>6 DEF Active
  <2>2. ASSUME cached' # None, NEW u \in Threads, Active(u)'
        PROVE  Placed(cached'.generation, u)
    <3>1. Active(u) /\ Active(t)
      BY Zenon, <1>2, <2>1, <2>2 DEF Active
    <3>2. CASE cached' = cached
      BY Zenon, <1>1, <2>2, <3>1, <3>2 DEF CrossInv
    <3>3. CASE cached' = [generation |-> b, delegation |-> result[t]]
      <4>1. Placed(b, u)
        BY Zenon, <1>1, <1>3, <3>1 DEF CrossInv
      <4> QED
        BY Zenon, <3>3, <4>1
    <3> QED
      BY Zenon, <1>2, <3>2, <3>3
  <2> QED
    BY Zenon, <1>1, <1>2, <2>1, <2>2 DEF CrossInv, Placed, Leq
<1> QED
  BY Zenon, <1>4, <1>7, <1>8, <1>9 DEF Inv

(* The caller takes the answer or the error.                               *)
LEMMA ReturnInv ==
    ASSUME Inv, NEW t \in Threads, Return(t)
    PROVE  Inv'
<1>1. TypeInv
  BY Zenon DEF Inv
<1>2. NoGeneration \in Moments /\ NoResult \in Answers
  BY Zenon DEF NoGeneration, NoResult, Moments, Answers, Delegated, FileNames
<1>3. TypeInv'
  BY <1>1, <1>2 DEF Return, Goto, TypeInv, StartReading, Labels, Leq
<1>4. pc'[t] = "idle" /\ reading'[t].next = 1
  BY Zenon, <1>1 DEF Return, Goto, TypeInv, StartReading
<1>5. ThreadInv(t)'
  BY Zenon, <1>4 DEF ThreadInv, Rested, SeenPast, Present, Active, Begun, Between, Helped, Ready,
     Answered, Reads, First, Retry
<1> QED
  BY Zenon, <1>1, <1>3, <1>4, <1>5, Local DEF Return, Goto, Others, TypeInv, Active

(* Every step keeps the invariant.                                         *)
LEMMA Inductive == ~Restores /\ Inv /\ [Next]_vars => Inv'
<1> SUFFICES ASSUME ~Restores, Inv, [Next]_vars PROVE Inv'
  OBVIOUS
<1>1. CASE \E f \in FileNames : Edit(f)
  BY Zenon, <1>1, EditInv
<1>2. ASSUME NEW t \in Threads, query_with_generation(t) PROVE Inv'
  <2>1. CASE query_for_account(t)
    BY <2>1, RunInv DEF query_for_account
  <2> QED
    BY Zenon, <1>2, <2>1, BeginInv, StatNextInv, FirstGenerationInv, CompareInv, SecondGenerationInv,
       FinalGenerationInv, PublishInv, ReturnInv DEF query_with_generation
<1>3. CASE UNCHANGED vars
  <2>1. TypeInv'
    BY Zenon, <1>3 DEF Inv, vars, TypeInv, Leq
  <2>2. ASSUME NEW t \in Threads PROVE ThreadInv(t)'
    BY Zenon, <1>3, Frame DEF Inv, vars
  <2>3. CrossInv'
    BY Zenon, <1>3, CrossFrame DEF Inv, vars, Active
  <2> QED
    BY Zenon, <2>1, <2>2, <2>3 DEF Inv
<1> QED
  BY Zenon, <1>1, <1>2, <1>3 DEF Next

(* What delegation.rs publishes under a generation is what the three files *)
(* of that generation delegate, whatever edits race the queries.           *)
THEOREM Exact == ASSUME ~Restores PROVE Spec => []CacheExact
<1>1. Inv => CacheExact
  BY Zenon DEF Inv, TypeInv, CacheExact
<1> QED
  BY Initially, Inductive, <1>1, PTL DEF Spec

(* query_with_generation answers with the uid and gid ranges of one moment *)
(* of the query, from the cache or from the helper.                        *)
THEOREM Coherent == ASSUME ~Restores PROVE Spec => []OneMoment
<1>1. Inv => OneMoment
  BY Zenon DEF Inv, ThreadInv, Answered, OneMoment
<1> QED
  BY Initially, Inductive, <1>1, PTL DEF Spec

-----------------------------------------------------------------------------
(* The ranges.                                                             *)

(* No parsed range wraps the u64 addition in SubidRange::new.                *)
NoWrap == \A start \in Starts, count \in Counts : start + count < Wide

Overlapping(i, j) == i # j /\ i[1] <= j[2] /\ j[1] <= i[2]

(* The intervals so far and the ranges still to merge cover the delegation;  *)
(* the intervals are disjoint, and merging goes upwards from the last one.   *)
IInv ==
    /\ TypeOK
    /\ delegated \subseteq Ids
    /\ \A r \in ranges : r[1] <= r[2]
    /\ \A i, j \in intervals : ~Overlapping(i, j)
    /\ phase = "parse" => intervals = {}
    /\ phase # "select" => /\ removed = {}
                           /\ \A i \in intervals, r \in ranges : i[1] <= r[1]
                           /\ intervals # {} => \E i \in intervals : Last(i)
                           /\ delegated = Covered \union UNION {r[1] .. r[2] : r \in ranges}
    /\ phase = "select" => ranges = {} /\ Covered = delegated \ removed

-----------------------------------------------------------------------------
(* A value below the modulus is its own remainder. *)
LEMMA SmallMod == \A m \in Int, n \in Nat \ {0} : 0 <= m /\ m < n => m % n = m
  OBVIOUS

(* An accepted range ends inside the id space, where the parsed text puts it *)
(* (SubidRange::new, from_ranges).                                           *)
LEMMA AcceptedEnd ==
    ASSUME NoWrap, NEW start \in Starts, NEW count \in Counts, Accepts(start, count)
    PROVE  start \in Ids /\ EndOf(start, count) = start + count - 1
           /\ start + count - 1 \in Ids /\ start <= start + count - 1
<1> USE WidthAssumption DEF WidthAssumption
<1>1. start \in Nat /\ count \in Nat \ {0} /\ start < IdSpace
  BY DEF Accepts
<1>2. start + count <= IdSpace
  BY <1>1, SmallMod DEF NoWrap, Accepts
<1>3. start \in Ids /\ start + count - 1 \in Ids /\ start <= start + count - 1
  BY <1>1, <1>2 DEF Ids
<1>4. CASE count < IdSpace
  BY <1>1, <1>2, <1>4, <1>3, SmallMod DEF EndOf
<1>5. CASE count = IdSpace
  <2>1. start = 0 /\ count % IdSpace = 0
    BY <1>1, <1>2, <1>5
  <2>2. (0 - 1) % IdSpace = IdSpace - 1
    OBVIOUS
  <2> QED
    BY <1>3, <1>5, <2>1, <2>2 DEF EndOf
<1> QED
  BY <1>1, <1>2, <1>3, <1>4, <1>5

(* Parsing a range adds exactly its ids. *)
LEMMA ParseStep == ASSUME NoWrap, IInv, Parse PROVE IInv'
<1>1. PICK start \in Starts, count \in Counts :
        /\ Accepts(start, count)
        /\ ranges' = ranges \union {<<start, EndOf(start, count)>>}
        /\ delegated' = delegated \union (start .. start + count - 1)
  BY Zenon DEF Parse
<1>2. start \in Ids /\ EndOf(start, count) = start + count - 1
      /\ start + count - 1 \in Ids /\ start <= start + count - 1
  BY Zenon, <1>1, AcceptedEnd
<1>3. phase = "parse" /\ intervals = {} /\ Covered = {} /\ Covered' = {}
  BY DEF Parse, IInv, Covered
<1>4. UNCHANGED <<phase, intervals, removed>> /\ parsed' \in 0 .. MaxRanges
  BY WidthAssumption DEF Parse, IInv, TypeOK, WidthAssumption
<1>5. UNION {r[1] .. r[2] : r \in ranges'} =
        (UNION {r[1] .. r[2] : r \in ranges}) \union (start .. start + count - 1)
  <2>1. ASSUME NEW k, ranges' = ranges \union {k}
        PROVE  UNION {r[1] .. r[2] : r \in ranges'} =
                 (UNION {r[1] .. r[2] : r \in ranges}) \union (k[1] .. k[2])
    BY Zenon, <2>1
  <2> QED
    BY Zenon, <1>1, <1>2, <2>1
<1>6. delegated' \subseteq Ids
  BY <1>1, <1>2, WidthAssumption DEF IInv, Ids, WidthAssumption
<1>7. ranges' \subseteq Ids \X Ids /\ \A r \in ranges' : r[1] <= r[2]
  BY <1>1, <1>2 DEF IInv, TypeOK
<1> QED
  BY Zenon, <1>1, <1>3, <1>4, <1>5, <1>6, <1>7 DEF IInv, TypeOK

(* Merging a range into the last interval, or behind it, covers it exactly   *)
(* and keeps the intervals disjoint.                                         *)
LEMMA MergeStep == ASSUME IInv, MergeOne PROVE IInv'
<1> USE WidthAssumption DEF WidthAssumption, Ids
<1>1. PICK r \in ranges :
        /\ Least(r) /\ ranges' = ranges \ {r}
        /\ \/ \E i \in intervals :
                /\ Last(i) /\ Touches(r[1], i[2])
                /\ intervals' = (intervals \ {i}) \union {<<i[1], Farther(i[2], r[2])>>}
           \/ /\ \A i \in intervals : Last(i) => ~Touches(r[1], i[2])
              /\ intervals' = intervals \union {r}
  BY Zenon DEF MergeOne
<1>2. UNCHANGED <<phase, delegated, removed, parsed>> /\ phase = "merge"
  BY Zenon DEF MergeOne
<1>3. r \in Ids \X Ids /\ r[1] <= r[2] /\ \A q \in ranges : r[1] <= q[1]
  BY <1>1 DEF IInv, TypeOK, Least
<1>4. ASSUME NEW i \in intervals, Last(i), Touches(r[1], i[2]),
             intervals' = (intervals \ {i}) \union {<<i[1], Farther(i[2], r[2])>>}
      PROVE  IInv'
  <2> DEFINE k == <<i[1], Farther(i[2], r[2])>>
  <2>1. i \in Ids \X Ids /\ i[1] <= i[2] /\ i[1] <= r[1] /\ r[1] <= i[2] + 1
    BY <1>2, <1>3, <1>4 DEF IInv, TypeOK, Touches, SaturatingSucc
  <2>2. k \in Ids \X Ids /\ k[1] = i[1] /\ k[1] <= k[2] /\ k[1] .. k[2] = (i[1] .. i[2]) \union (r[1] .. r[2])
    BY <1>3, <2>1 DEF Farther
  <2>3. \A j \in intervals \ {i} : j \in Ids \X Ids /\ j[1] <= j[2] /\ j[2] < i[1]
    BY <1>4, <2>1 DEF IInv, TypeOK, Overlapping, Last
  <2>4. TypeOK'
    BY Zenon, <1>1, <1>2, <1>4, <2>2 DEF IInv, TypeOK
  <2>5. \A j, l \in intervals' : ~Overlapping(j, l)
    BY <1>4, <2>1, <2>2, <2>3 DEF IInv, Overlapping
  <2>6. Last(k)' /\ k \in intervals'
    BY Zenon, <1>4, <2>1, <2>2, <2>3 DEF Last
  <2>7. \A j \in intervals', q \in ranges' : j[1] <= q[1]
    BY Zenon, <1>1, <1>2, <1>4, <2>2 DEF IInv
  <2>8. Covered' = Covered \union (r[1] .. r[2])
    BY <1>4, <2>2 DEF Covered
  <2>9. UNION {q[1] .. q[2] : q \in ranges} = (r[1] .. r[2]) \union UNION {q[1] .. q[2] : q \in ranges'}
    BY Zenon, <1>1
  <2>10. delegated' = Covered' \union UNION {q[1] .. q[2] : q \in ranges'}
    BY Zenon, <1>2, <2>8, <2>9 DEF IInv
  <2> QED
    BY Zenon, <1>1, <1>2, <2>4, <2>5, <2>6, <2>7, <2>10 DEF IInv
<1>5. ASSUME \A i \in intervals : Last(i) => ~Touches(r[1], i[2]), intervals' = intervals \union {r}
      PROVE  IInv'
  <2>1. \A j \in intervals : j \in Ids \X Ids /\ j[1] <= j[2] /\ j[2] < r[1]
    <3>1. CASE intervals = {}
      BY Zenon, <3>1
    <3>2. CASE intervals # {}
      <4>1. PICK i \in intervals : Last(i)
        BY Zenon, <1>2, <3>2 DEF IInv
      <4>2. i \in Ids \X Ids /\ i[1] <= i[2] /\ i[2] < r[1]
        BY <1>3, <1>5, <4>1 DEF IInv, TypeOK, Touches, SaturatingSucc
      <4> QED
        BY <1>3, <4>1, <4>2 DEF IInv, TypeOK, Overlapping, Last
    <3> QED
      BY Zenon, <3>1, <3>2
  <2>2. TypeOK'
    BY Zenon, <1>1, <1>2, <1>3, <1>5 DEF IInv, TypeOK
  <2>3. \A j, l \in intervals' : ~Overlapping(j, l)
    BY <1>3, <1>5, <2>1 DEF IInv, Overlapping
  <2>4. Last(r)' /\ r \in intervals'
    BY <1>3, <1>5, <2>1 DEF Last
  <2>5. \A j \in intervals', q \in ranges' : j[1] <= q[1]
    BY Zenon, <1>1, <1>2, <1>3, <1>5 DEF IInv
  <2>6. Covered' = Covered \union (r[1] .. r[2])
    BY Zenon, <1>5 DEF Covered
  <2>7. UNION {q[1] .. q[2] : q \in ranges} = (r[1] .. r[2]) \union UNION {q[1] .. q[2] : q \in ranges'}
    BY Zenon, <1>1
  <2>8. delegated' = Covered' \union UNION {q[1] .. q[2] : q \in ranges'}
    BY Zenon, <1>2, <2>6, <2>7 DEF IInv
  <2> QED
    BY Zenon, <1>1, <1>2, <2>2, <2>3, <2>4, <2>5, <2>8 DEF IInv
<1> QED
  BY Zenon, <1>1, <1>4, <1>5

(* Removing an id takes it out of the one interval that holds it, if any.    *)
LEMMA RemoveStep == ASSUME IInv, NEW id \in Ids, Remove(id) PROVE IInv'
<1> USE WidthAssumption DEF WidthAssumption, Ids
<1>1. phase = "select" /\ UNCHANGED <<phase, ranges, delegated, parsed>> /\ removed' = removed \union {id}
  BY Zenon DEF Remove
<1>2. ASSUME NEW i \in AtOrBelow(id), id <= i[2],
             intervals' = (intervals \ {i}) \union Without(i, id)
      PROVE  IInv'
  <2>1. i \in intervals /\ i \in Ids \X Ids /\ i[1] <= id /\ id <= i[2]
    BY Zenon, <1>2 DEF AtOrBelow, IInv, TypeOK
  <2>2. \A k \in Without(i, id) : k \in Ids \X Ids /\ k[1] <= k[2] /\ i[1] <= k[1] /\ k[2] <= i[2]
                                   /\ id \notin k[1] .. k[2]
    BY <2>1 DEF Without
  <2>3. UNION {k[1] .. k[2] : k \in Without(i, id)} = (i[1] .. i[2]) \ {id}
    <3>1. ASSUME NEW n \in (i[1] .. i[2]) \ {id} PROVE \E k \in Without(i, id) : n \in k[1] .. k[2]
      <4>1. CASE n < id
        <5>1. <<i[1], id - 1>> \in Without(i, id)
          BY <2>1, <4>1 DEF Without
        <5> QED
          BY <2>1, <4>1, <5>1
      <4>2. CASE id < n
        <5>1. <<id + 1, i[2]>> \in Without(i, id)
          BY <2>1, <4>2 DEF Without
        <5> QED
          BY <2>1, <4>2, <5>1
      <4> QED
        BY <2>1, <4>1, <4>2
    <3>2. ASSUME NEW k \in Without(i, id) PROVE k[1] .. k[2] \subseteq (i[1] .. i[2]) \ {id}
      BY <2>1, <2>2
    <3> QED
      BY Zenon, <3>1, <3>2
  <2>4. \A j \in intervals \ {i} : j[2] < i[1] \/ i[2] < j[1]
    BY <2>1 DEF IInv, TypeOK, Overlapping
  <2>5. TypeOK'
    BY Zenon, <1>1, <1>2, <2>2 DEF IInv, TypeOK
  <2>6. \A j, l \in Without(i, id) : ~Overlapping(j, l)
    BY <2>1 DEF Without, Overlapping
  <2>7. ASSUME NEW j \in intervals \ {i}, NEW k \in Without(i, id)
        PROVE  ~Overlapping(j, k) /\ ~Overlapping(k, j)
    BY <2>1, <2>2, <2>4 DEF Overlapping, IInv, TypeOK
  <2>8. \A j, l \in intervals' : ~Overlapping(j, l)
    BY Zenon, <1>2, <2>6, <2>7 DEF IInv
  <2>9. id \notin UNION {j[1] .. j[2] : j \in intervals \ {i}}
    BY <2>1, <2>4 DEF IInv, TypeOK
  <2>10. Covered = (UNION {j[1] .. j[2] : j \in intervals \ {i}}) \union (i[1] .. i[2])
    BY Zenon, <2>1 DEF Covered
  <2>11. Covered' = (UNION {j[1] .. j[2] : j \in intervals \ {i}}) \union ((i[1] .. i[2]) \ {id})
    <3>1. Covered' = (UNION {j[1] .. j[2] : j \in intervals \ {i}})
                       \union UNION {k[1] .. k[2] : k \in Without(i, id)}
      BY Zenon, <1>2 DEF Covered
    <3> QED
      BY Zenon, <2>3, <3>1
  <2>12. Covered' = delegated' \ removed'
    BY Zenon, <1>1, <2>9, <2>10, <2>11 DEF IInv
  <2> QED
    BY Zenon, <1>1, <2>5, <2>8, <2>12 DEF IInv
<1>3. ASSUME \A i \in AtOrBelow(id) : (\A j \in AtOrBelow(id) : j[1] <= i[1]) => i[2] < id,
             UNCHANGED intervals
      PROVE  IInv'
  <2>1. id \notin Covered
    <3> SUFFICES ASSUME NEW i \in intervals, i[1] <= id, id <= i[2] PROVE FALSE
      BY DEF Covered, IInv, TypeOK
    <3>1. i \in AtOrBelow(id) /\ \A j \in AtOrBelow(id) : j[1] <= i[1]
      BY DEF AtOrBelow, IInv, TypeOK, Overlapping
    <3> QED
      BY <1>3, <3>1 DEF IInv, TypeOK
  <2>2. Covered' = Covered
    BY Zenon, <1>3 DEF Covered
  <2> QED
    BY <1>1, <1>3, <2>1, <2>2 DEF IInv, TypeOK
<1> QED
  BY Zenon, <1>2, <1>3 DEF Remove

(* The invariant is inductive. *)
LEMMA IdsInductive == NoWrap => (IdsInit => IInv) /\ (IInv /\ [IdsNext]_idVars => IInv')
<1>1. IdsInit => IInv
  BY WidthAssumption DEF IdsInit, IInv, TypeOK, Covered, WidthAssumption
<1>2. ASSUME IInv, FromRanges PROVE IInv'
  BY Zenon, <1>2 DEF IInv, TypeOK, FromRanges, Covered, Last
<1>3. ASSUME IInv, Merged PROVE IInv'
  BY <1>3 DEF IInv, TypeOK, Merged, Covered
<1>4. ASSUME IInv, UNCHANGED idVars PROVE IInv'
  BY Zenon, <1>4 DEF IInv, TypeOK, idVars, Covered, Last
<1> QED
  BY Zenon, <1>1, <1>2, <1>3, <1>4, ParseStep, MergeStep, RemoveStep DEF IdsNext

-----------------------------------------------------------------------------
(* Merging and removing keep the intervals equal, id for id, to what is      *)
(* delegated and not removed (from_ranges, remove).                          *)
THEOREM Merges == ASSUME NoWrap PROVE IdsSpec => []IntervalsExact
<1>1. (IdsInit => IInv) /\ (IInv /\ [IdsNext]_idVars => IInv')
  BY Zenon, IdsInductive
<1>2. IInv => IntervalsExact
  BY WidthAssumption DEF IInv, TypeOK, IntervalsExact, Overlapping, Ids, WidthAssumption
<1> QED
  BY <1>1, <1>2, PTL DEF IdsSpec

(* A claim's choice, lowest, is the least delegated id not recorded yet.     *)
THEOREM Lowest == ASSUME NoWrap PROVE IdsSpec => []LowestIsLeast
<1>1. (IdsInit => IInv) /\ (IInv /\ [IdsNext]_idVars => IInv')
  BY Zenon, IdsInductive
<1>2. ASSUME IInv PROVE LowestIsLeast
  <2> SUFFICES ASSUME phase = "select" PROVE LowestIsLeast
    BY Zenon DEF LowestIsLeast
  <2>1. Covered = delegated \ removed
    BY Zenon, <1>2 DEF IInv
  <2>2. intervals = {} => delegated \subseteq removed
    BY Zenon, <2>1 DEF Covered
  <2>3. ASSUME NEW i \in intervals, \A j \in intervals : i[1] <= j[1]
        PROVE  i[1] \in Covered /\ \A id \in Covered : i[1] <= id
    BY <1>2, <2>3, WidthAssumption DEF IInv, TypeOK, Covered, Ids, WidthAssumption
  <2> QED
    BY Zenon, <2>1, <2>2, <2>3 DEF LowestIsLeast
<1> QED
  BY <1>1, <1>2, PTL DEF IdsSpec
=============================================================================
