------------------------ MODULE DomainRegistryProofs ------------------------
(***************************************************************************)
(* The registry of domains for any sandboxes, any finite set of launches,  *)
(* any deletes, every generation bound and any set of faults: the          *)
(* inductive invariant, and that a launch in flight keeps its domain.      *)
(*                                                                         *)
(* The barrier of a slot counts no fewer than the launches that hold a     *)
(* lease on it; one launch or one pending cleanup owns a Creating marker;  *)
(* and a teardown begins only at a drained slot.                           *)
(***************************************************************************)
EXTENDS DomainRegistry, FiniteSetTheorems, TLAPS

USE SMTT(30), ZenonT(40)

Opens    == {"clean", "create", "publish"}
Tears    == {"kill", "empty", "temp", "restore", "remove"}
Works    == {"wait", "pending"} \cup Tears

\* The values of the variables: a slot, a generation, a launch, a release.
SlotType ==
    {Absent, Creating} \cup [tag : {"CleanupPending"}, temp : Gens]
    \cup [tag : {"Active"}, in_flight : Nat, domain : Gens, temp : Gens]
    \cup [tag : {"Deleting"}, in_flight : Nat, domain : 0 .. MaxGen, temp : 0 .. MaxGen]
GenType ==
    [cgroup : {"none"}]
    \cup [cgroup : {"present", "removed"}, temp : BOOLEAN, sandbox : Sandboxes, identity : Identities]
LaunchType ==
    [pc : {"idle"}]
    \cup [pc : {"join", "leased", "running"} \cup Opens,
          sandbox : Sandboxes, identity : Identities, gen : 0 .. MaxGen]
ReleaseType ==
    [pc : {"idle", "stop", "next"}] \cup [pc : {"ok", "err"}, sandbox : Sandboxes]
    \cup [pc : Works, sandbox : Sandboxes, domain : 0 .. MaxGen, temp : 0 .. MaxGen]

TypeInv ==
    /\ slots \in [Sandboxes -> SlotType]
    /\ next_generation \in Nat \ {0}
    /\ accepting \in BOOLEAN
    /\ gens \in [Gens -> GenType]
    /\ members \in [Gens -> [Members -> {"none", "alive", "dying"}]]
    /\ launch \in [Launches -> LaunchType]
    /\ release \in [Releasers -> ReleaseType]
    /\ todo \subseteq Sandboxes /\ first_error \in BOOLEAN /\ stopped \subseteq Signals

Held(s)      == slots[s].tag \in {"Active", "Deleting"}
Barrier(s)   == IF Held(s) THEN slots[s].in_flight ELSE 0
Opening(l)   == launch[l].pc \in Opens
Leased(l)    == launch[l].pc \in {"leased", "running"}
Working(r)   == release[r].pc \in Works
Tearing(r)   == release[r].pc \in Tears

Creators     == {l \in Launches : launch[l].pc \in {"clean", "create"}}
Given(g, s)  == gens[g].cgroup # "none" /\ gens[g].sandbox = s

\* Numbers are given once: those in use have been given, to the sandbox and
\* the identity they are used for, and there is one left for every creation
\* under way.
NumberInv ==
    /\ next_generation + Cardinality(Creators) <= MaxGen + 1
    /\ \A g \in Gens : gens[g].cgroup = "none" <=> next_generation <= g
    /\ \A s \in Sandboxes : Held(s) /\ slots[s].domain # 0 => Given(slots[s].domain, s)
    /\ \A r \in Releasers : Tearing(r) /\ release[r].domain # 0 => Given(release[r].domain, release[r].sandbox)
    /\ \A l \in Launches : (Leased(l) \/ launch[l].pc = "publish") /\ launch[l].gen # 0 =>
         /\ Given(launch[l].gen, launch[l].sandbox)
         /\ gens[launch[l].gen].identity = launch[l].identity

\* A marker belongs to the thread that published it, a teardown to one with
\* no lease to wait for, and no two deletions are of one sandbox.
MarkerInv ==
    /\ \A l \in Launches : Opening(l) => /\ slots[launch[l].sandbox].tag = "Creating"
                                         /\ launch[l].pc = "clean" => launch[l].gen # 0
    /\ \A k, l \in Launches : Opening(k) /\ Opening(l) /\ launch[k].sandbox = launch[l].sandbox => k = l
    /\ \A r \in Releasers : release[r].pc = "pending" =>
         /\ slots[release[r].sandbox].tag = "Creating" /\ release[r].temp # 0
         /\ \A l \in Launches : Opening(l) => launch[l].sandbox # release[r].sandbox
         /\ \A q \in Releasers : release[q].pc = "pending" /\ q # r => release[q].sandbox # release[r].sandbox
    /\ \A r \in Releasers : Tearing(r) =>
         LET slot == slots[release[r].sandbox]
         IN \/ slot.tag = "Deleting" /\ slot.in_flight = 0
            \/ slot.tag = "absent" /\ ~accepting
    /\ \A d, e \in Deleters : Working(d) /\ Working(e) /\ d # e => release[d].sandbox # release[e].sandbox
    /\ \A d \in Deleters : release[d].pc \notin {"stop", "next"}
    /\ release[Shutdown].pc # "idle" => ~accepting /\ "first" \in stopped

\* The barrier of a sandbox counts its leases, which are of its domain.
LeaseInv ==
    /\ \A s \in Sandboxes : Cardinality(Leases(s)) <= Barrier(s)
    /\ \A l \in Launches : Leased(l) =>
         /\ Held(launch[l].sandbox)
         /\ slots[launch[l].sandbox].domain = launch[l].gen
         /\ launch[l].gen # 0

Inv == TypeInv /\ NumberInv /\ MarkerInv /\ LeaseInv

\* A step that leaves every generation its sandbox and its identity.
GensKept ==
    /\ gens' \in [Gens -> GenType]
    /\ \A g \in Gens :
         /\ gens'[g].cgroup = "none" <=> gens[g].cgroup = "none"
         /\ gens[g].cgroup # "none" =>
              gens'[g].sandbox = gens[g].sandbox /\ gens'[g].identity = gens[g].identity

-----------------------------------------------------------------------------
(* Values.                                                                 *)

\* A number that is not zero is that of a generation.
LEMMA GenIn == \A g \in 0 .. MaxGen : g # 0 => g \in Gens
  BY DEF Gens

\* What a slot's state says, and the states the code writes.
LEMMA SlotFacts ==
  ASSUME NEW v \in SlotType
  PROVE  /\ v.tag \in {"absent", "Creating", "CleanupPending", "Active", "Deleting"}
         /\ v.tag = "absent" => v = Absent
         /\ v.tag = "CleanupPending" => v.temp \in Gens
         /\ v.tag = "Active" => v.domain \in Gens /\ v.temp \in Gens
         /\ v.tag \in {"Active", "Deleting"} =>
              v.in_flight \in Nat /\ v.domain \in 0 .. MaxGen /\ v.temp \in 0 .. MaxGen
  BY RegistryAssumption DEF SlotType, Absent, Creating, Gens, RegistryAssumption

\* What each slot value says of itself.
LEMMA SlotValues ==
  /\ Absent \in SlotType /\ Absent.tag = "absent"
  /\ Creating \in SlotType /\ Creating.tag = "Creating"
  /\ \A t \in Gens : CleanupPending(t) \in SlotType /\ CleanupPending(t).tag = "CleanupPending"
                     /\ CleanupPending(t).temp = t
  /\ \A n \in Nat, d, t \in Gens :
       /\ Active(n, d, t) \in SlotType /\ Active(n, d, t).tag = "Active"
       /\ Active(n, d, t).in_flight = n /\ Active(n, d, t).domain = d /\ Active(n, d, t).temp = t
  /\ \A n \in Nat, d, t \in 0 .. MaxGen :
       /\ Deleting(n, d, t) \in SlotType /\ Deleting(n, d, t).tag = "Deleting"
       /\ Deleting(n, d, t).in_flight = n /\ Deleting(n, d, t).domain = d /\ Deleting(n, d, t).temp = t
  BY Zenon DEF SlotType, Absent, Creating, CleanupPending, Active, Deleting

\* A slot with another count is a slot of the same kind.
LEMMA SlotCounted ==
  ASSUME NEW v \in SlotType, v.tag \in {"Active", "Deleting"}, NEW n \in Nat, NEW w,
         w = [v EXCEPT !.in_flight = n]
  PROVE  /\ w \in SlotType /\ w.tag = v.tag /\ w.in_flight = n
         /\ w.domain = v.domain /\ w.temp = v.temp
  BY DEF SlotType, Absent, Creating

\* What a launch holds, and how it moves on.
LEMMA LaunchFacts ==
  ASSUME NEW v \in LaunchType
  PROVE  /\ v.pc \in {"idle", "join", "leased", "running"} \cup Opens
         /\ v.pc # "idle" => v.sandbox \in Sandboxes /\ v.identity \in Identities /\ v.gen \in 0 .. MaxGen
  BY Zenon DEF LaunchType, Opens

\* What each record of a launch says of itself.
LEMMA LaunchValues ==
  /\ [pc |-> "idle"] \in LaunchType /\ [pc |-> "idle"].pc = "idle"
  /\ \A s \in Sandboxes, i \in Identities : \A v :
       v = [pc |-> "join", sandbox |-> s, identity |-> i, gen |-> 0] => v \in LaunchType /\ v.pc = "join"
  BY RegistryAssumption DEF LaunchType, RegistryAssumption

\* A launch that moves on keeps its sandbox and identity.
LEMMA LaunchMoved ==
  ASSUME NEW l \in Launches, launch[l] \in LaunchType, launch[l].pc # "idle",
         NEW p \in {"join", "leased", "running"} \cup Opens, NEW g \in 0 .. MaxGen
  PROVE  LET v == Request(l, p, g)
         IN /\ v \in LaunchType /\ v.pc = p /\ v.gen = g
            /\ v.sandbox = launch[l].sandbox /\ v.identity = launch[l].identity
  BY Zenon DEF Request, LaunchType

\* What a releaser holds.
LEMMA ReleaseFacts ==
  ASSUME NEW v \in ReleaseType
  PROVE  /\ v.pc \in {"idle", "stop", "next", "ok", "err"} \cup Works
         /\ v.pc \in {"ok", "err"} \cup Works => v.sandbox \in Sandboxes
         /\ v.pc \in Works => v.domain \in 0 .. MaxGen /\ v.temp \in 0 .. MaxGen
  BY Zenon DEF ReleaseType, Works, Tears

\* What each record of a release says of itself.
LEMMA ReleaseValues ==
  /\ \A p \in {"idle", "stop", "next"} : [pc |-> p] \in ReleaseType /\ [pc |-> p].pc = p
  /\ \A p \in {"ok", "err"}, s \in Sandboxes : \A v :
       v = [pc |-> p, sandbox |-> s] => v \in ReleaseType /\ v.pc = p /\ v.sandbox = s
  /\ \A s \in Sandboxes : /\ Call(s) \in ReleaseType /\ Call(s).pc = "wait" /\ Call(s).sandbox = s
                          /\ Call(s).domain = 0 /\ Call(s).temp = 0
  BY RegistryAssumption DEF ReleaseType, Call, Works, RegistryAssumption

LEMMA ReturnValue ==
  ASSUME NEW p \in {"ok", "err"}, NEW s \in Sandboxes, NEW v, v = [pc |-> p, sandbox |-> s]
  PROVE  v \in ReleaseType /\ v.pc = p /\ v.sandbox = s
  BY Zenon, ReleaseValues

\* What a generation has left, and how its pieces go.
LEMMA GenFacts ==
  ASSUME NEW v \in GenType
  PROVE  /\ v.cgroup \in {"none", "present", "removed"}
         /\ v.cgroup # "none" => v.temp \in BOOLEAN /\ v.sandbox \in Sandboxes /\ v.identity \in Identities
  BY Zenon DEF GenType

\* A generation that loses its cgroup or its temp tree is one still.
LEMMA GenChanged ==
  ASSUME gens \in [Gens -> GenType], NEW t,
         \/ gens' = [gens EXCEPT ![t].temp = FALSE]
         \/ /\ t \in Gens => gens[t].cgroup # "none"
            /\ \/ gens' = [gens EXCEPT ![t].cgroup = "removed"]
               \/ gens' = [gens EXCEPT ![t].cgroup = "removed", ![t].temp = FALSE]
  PROVE  GensKept
<1>1. /\ \A g \in Gens \ {t} : gens'[g] = gens[g]
      /\ t \in Gens => \/ gens'[t] = [gens[t] EXCEPT !.temp = FALSE]
                       \/ /\ gens[t].cgroup # "none"
                          /\ \/ gens'[t] = [gens[t] EXCEPT !.cgroup = "removed"]
                             \/ gens'[t] = [gens[t] EXCEPT !.cgroup = "removed", !.temp = FALSE]
      /\ DOMAIN gens' = Gens /\ gens' = [g \in Gens |-> gens'[g]]
  BY Zenon
<1>2. ASSUME t \in Gens
      PROVE  /\ gens'[t] \in GenType /\ (gens'[t].cgroup = "none" <=> gens[t].cgroup = "none")
             /\ gens[t].cgroup # "none" =>
                  gens'[t].sandbox = gens[t].sandbox /\ gens'[t].identity = gens[t].identity
  <2>1. gens[t] \in GenType
    BY Zenon, <1>2
  <2>2. CASE gens'[t] = [gens[t] EXCEPT !.temp = FALSE]
    BY Zenon, <2>1, <2>2 DEF GenType
  <2>3. CASE gens[t].cgroup # "none" /\ gens'[t] = [gens[t] EXCEPT !.cgroup = "removed"]
    BY Zenon, <2>1, <2>3 DEF GenType
  <2>4. CASE gens[t].cgroup # "none" /\ gens'[t] = [gens[t] EXCEPT !.cgroup = "removed", !.temp = FALSE]
    BY Zenon, <2>1, <2>4 DEF GenType
  <2> QED
    BY Zenon, <1>1, <1>2, <2>2, <2>3, <2>4
<1> QED
  BY <1>1, <1>2 DEF GensKept

-----------------------------------------------------------------------------
(* Counting.                                                               *)

\* Sets of launches are finite, and grow and shrink by one.
LEMMA Counted ==
  ASSUME NEW S \in SUBSET Launches
  PROVE  Cardinality(S) \in Nat /\ (Cardinality(S) = 0 => S = {})
<1>1. IsFiniteSet(S)
  BY Zenon, RegistryAssumption, FS_Subset DEF RegistryAssumption
<1> QED
  BY Zenon, <1>1, FS_CardinalityType, FS_EmptySet

\* One element more, or less, in a finite set.
LEMMA Counting ==
  ASSUME NEW S \in SUBSET Launches, NEW T \in SUBSET Launches, NEW l \in Launches
  PROVE  /\ Cardinality(S) \in Nat
         /\ Cardinality(S) = 0 => S = {}
         /\ T \subseteq S => Cardinality(T) <= Cardinality(S)
         /\ l \notin S /\ T = S \cup {l} => Cardinality(T) = Cardinality(S) + 1
         /\ l \in S /\ T = S \ {l} => Cardinality(T) = Cardinality(S) - 1
<1>1. IsFiniteSet(S) /\ IsFiniteSet(T)
  BY Zenon, RegistryAssumption, FS_Subset DEF RegistryAssumption
<1>2. Cardinality(S) \in Nat /\ Cardinality(T) \in Nat
  BY Zenon, <1>1, FS_CardinalityType
<1>3. Cardinality(S) = 0 => S = {}
  BY Zenon, <1>1, FS_EmptySet
<1>4. T \subseteq S => Cardinality(T) <= Cardinality(S)
  BY Zenon, <1>1, FS_Subset
<1>5. l \notin S /\ T = S \cup {l} => Cardinality(T) = Cardinality(S) + 1
  BY Zenon, <1>1, FS_AddElement
<1>6. l \in S /\ T = S \ {l} => Cardinality(T) = Cardinality(S) - 1
  BY Zenon, <1>1, FS_RemoveElement
<1> QED
  BY Zenon, <1>2, <1>3, <1>4, <1>5, <1>6

\* A launch that changes no lease, takes one, or gives one back.
LEMMA LeasesChange ==
  ASSUME NEW l \in Launches, \A k \in Launches \ {l} : launch'[k] = launch[k], NEW s
  PROVE  /\ Leases(s) \in SUBSET Launches /\ Leases(s)' \in SUBSET Launches
         /\ l \in Leases(s) <=> Leased(l) /\ launch[l].sandbox = s
         /\ l \in Leases(s)' <=> Leased(l)' /\ launch'[l].sandbox = s
         /\ (l \in Leases(s) <=> l \in Leases(s)') => Leases(s)' = Leases(s)
         /\ l \notin Leases(s) /\ l \in Leases(s)' =>
              Leases(s)' = Leases(s) \cup {l} /\ Cardinality(Leases(s)') = Cardinality(Leases(s)) + 1
         /\ l \in Leases(s) /\ l \notin Leases(s)' =>
              Leases(s)' = Leases(s) \ {l} /\ Cardinality(Leases(s)') = Cardinality(Leases(s)) - 1
<1>1. Leases(s) \in SUBSET Launches /\ Leases(s)' \in SUBSET Launches
  BY Zenon DEF Leases
<1>2. /\ l \in Leases(s) <=> Leased(l) /\ launch[l].sandbox = s
      /\ l \in Leases(s)' <=> Leased(l)' /\ launch'[l].sandbox = s
  BY Zenon DEF Leases, Leased
<1>3. \A k \in Launches \ {l} : k \in Leases(s) <=> k \in Leases(s)'
  BY Zenon DEF Leases
<1>4. (l \in Leases(s) <=> l \in Leases(s)') => Leases(s)' = Leases(s)
  BY <1>1, <1>3
<1>5. l \notin Leases(s) /\ l \in Leases(s)' => Leases(s)' = Leases(s) \cup {l}
  BY Zenon, <1>1, <1>3
<1>6. l \in Leases(s) /\ l \notin Leases(s)' => Leases(s)' = Leases(s) \ {l}
  BY Zenon, <1>1, <1>3
<1> QED
  BY Zenon, <1>1, <1>2, <1>4, <1>5, <1>6, Counting

\* The creations under way, in the same way.
LEMMA CreatorsChange ==
  ASSUME NEW l \in Launches, \A k \in Launches \ {l} : launch'[k] = launch[k]
  PROVE  /\ Cardinality(Creators) \in Nat /\ Cardinality(Creators') \in Nat
         /\ launch[l].pc \in {"clean", "create"} /\ launch'[l].pc \in {"clean", "create"} => Creators' = Creators
         /\ launch[l].pc \notin {"clean", "create"} /\ launch'[l].pc \notin {"clean", "create"} => Creators' = Creators
         /\ launch[l].pc \notin {"clean", "create"} /\ launch'[l].pc \in {"clean", "create"} =>
              Cardinality(Creators') = Cardinality(Creators) + 1
         /\ launch[l].pc \in {"clean", "create"} /\ launch'[l].pc \notin {"clean", "create"} =>
              Cardinality(Creators') = Cardinality(Creators) - 1
<1>1. Creators \in SUBSET Launches /\ Creators' \in SUBSET Launches
  BY Zenon DEF Creators
<1>2. /\ l \in Creators <=> launch[l].pc \in {"clean", "create"}
      /\ l \in Creators' <=> launch'[l].pc \in {"clean", "create"}
      /\ \A k \in Launches \ {l} : k \in Creators <=> k \in Creators'
  BY Zenon DEF Creators
<1>3. (l \in Creators <=> l \in Creators') => Creators' = Creators
  BY <1>1, <1>2
<1>4. l \notin Creators /\ l \in Creators' => Creators' = Creators \cup {l}
  BY Zenon, <1>1, <1>2
<1>5. l \in Creators /\ l \notin Creators' => Creators' = Creators \ {l}
  BY Zenon, <1>1, <1>2
<1> QED
  BY Zenon, <1>1, <1>2, <1>3, <1>4, <1>5, Counting

-----------------------------------------------------------------------------
(* The launches.                                                           *)

\* The request of a launch on its way.
LEMMA LaunchAt ==
  ASSUME TypeInv, NEW l \in Launches, launch[l].pc # "idle"
  PROVE  /\ launch[l] \in LaunchType /\ launch[l].sandbox \in Sandboxes
         /\ launch[l].identity \in Identities /\ launch[l].gen \in 0 .. MaxGen
         /\ slots[launch[l].sandbox] \in SlotType
  BY Zenon, LaunchFacts DEF TypeInv

\* Where the threads are at work.
LEMMA Places ==
  ASSUME TypeInv
  PROVE  /\ \A l \in Launches : launch[l].pc # "idle" => launch[l].sandbox \in Sandboxes
         /\ \A r \in Releasers : release[r].pc \in Works => release[r].sandbox \in Sandboxes
  BY Zenon, LaunchFacts, ReleaseFacts DEF TypeInv

\* A launch publishes the marker and sets out to create a generation.
LEMMA JoinCreateStep == ASSUME Inv, NEW l \in Launches, JoinCreate(l) PROVE Inv'
<1>1. TypeInv /\ NumberInv /\ MarkerInv /\ LeaseInv
  BY Zenon DEF Inv
<1>2. PICK s \in Sandboxes : s = launch[l].sandbox
  BY Zenon, <1>1, LaunchAt DEF JoinCreate, At
<1>3. /\ launch[l].pc = "join" /\ accepting /\ slots[s].tag \in {"absent", "CleanupPending"}
      /\ slots' = [slots EXCEPT ![s] = Creating]
      /\ UNCHANGED <<next_generation, accepting, gens, members, release, todo, first_error, stopped>>
  BY Zenon, <1>2 DEF JoinCreate, At, SetSlot, shutdownVars
<1>4. PICK v \in LaunchType : /\ launch' = [launch EXCEPT ![l] = v]
                              /\ v.pc \in {"create", "clean"} /\ v.sandbox = s
                              /\ v.pc = "clean" => v.gen # 0
  <2>1. launch[l] \in LaunchType /\ slots[s] \in SlotType /\ launch[l].pc # "idle"
    BY Zenon, <1>1, <1>2, <1>3, LaunchAt
  <2>2. slots[s].tag = "CleanupPending" => slots[s].temp \in 0 .. MaxGen /\ slots[s].temp # 0
    BY <2>1, SlotFacts DEF Gens
  <2>3. /\ Request(l, "create", 0) \in LaunchType /\ Request(l, "create", 0).pc = "create"
        /\ Request(l, "create", 0).sandbox = s
    BY <1>2, <2>1, LaunchMoved, RegistryAssumption DEF Opens, RegistryAssumption
  <2>4. slots[s].tag = "CleanupPending" =>
          /\ Request(l, "clean", slots[s].temp) \in LaunchType /\ Request(l, "clean", slots[s].temp).pc = "clean"
          /\ Request(l, "clean", slots[s].temp).sandbox = s /\ Request(l, "clean", slots[s].temp).gen # 0
    BY <1>2, <2>1, <2>2, LaunchMoved DEF Opens
  <2> QED
    BY Zenon, <1>2, <2>3, <2>4 DEF JoinCreate, GoLaunch
<1>5. /\ launch' \in [Launches -> LaunchType] /\ slots' \in [Sandboxes -> SlotType]
      /\ launch'[l] = v /\ \A k \in Launches \ {l} : launch'[k] = launch[k]
      /\ slots'[s].tag = "Creating" /\ \A z \in Sandboxes \ {s} : slots'[z] = slots[z]
  BY <1>1, <1>3, <1>4, SlotValues DEF TypeInv
<1>6. TypeInv'
  BY Zenon, <1>1, <1>3, <1>5 DEF TypeInv
<1>7. NumberInv'
  <2>1. next_generation' + Cardinality(Creators') <= MaxGen + 1
    <3>1. next_generation + Cardinality(Creators) <= MaxGen
      BY Zenon DEF JoinCreate, Room, Creators
    <3>2. Cardinality(Creators') = Cardinality(Creators) + 1 /\ Cardinality(Creators) \in Nat
      BY Zenon, <1>3, <1>4, <1>5, CreatorsChange
    <3> QED
      BY <1>1, <1>3, <3>1, <3>2, RegistryAssumption DEF TypeInv, RegistryAssumption
  <2> QED
    BY ZenonT(40), <1>1, <1>3, <1>4, <1>5, <2>1 DEF NumberInv, Given, Held, Leased, Tearing
<1>8. MarkerInv'
  BY <1>1, <1>2, <1>3, <1>4, <1>5 DEF MarkerInv, Opening, Working, Tearing, Opens
<1>9. LeaseInv'
  <2>1. ASSUME NEW z \in Sandboxes PROVE Cardinality(Leases(z)') <= Barrier(z)'
    <3>1. Leases(z)' = Leases(z)
      BY Zenon, <1>3, <1>4, <1>5, LeasesChange DEF Leased
    <3>2. Barrier(z)' = Barrier(z)
      BY Zenon, <1>3, <1>5 DEF Barrier, Held
    <3> QED
      BY Zenon, <1>1, <3>1, <3>2 DEF LeaseInv
  <2> QED
    BY <1>1, <1>2, <1>3, <1>4, <1>5, <2>1 DEF LeaseInv, Leased, Held
<1> QED
  BY Zenon, <1>6, <1>7, <1>8, <1>9 DEF Inv

\* A step that changes neither a slot nor who opens one or holds a lease.
LEMMA LaunchFrame ==
  ASSUME Inv, TypeInv',
         UNCHANGED <<slots, next_generation, accepting, gens, release, stopped>>,
         \A k \in Launches :
           \/ launch'[k] = launch[k]
           \/ launch[k].pc \in {"idle", "join"} /\ launch'[k].pc \in {"idle", "join"}
           \/ /\ launch[k].pc = "leased" /\ launch'[k].pc = "running"
              /\ launch'[k].sandbox = launch[k].sandbox /\ launch'[k].identity = launch[k].identity
              /\ launch'[k].gen = launch[k].gen
  PROVE  Inv'
<1>1. TypeInv /\ NumberInv /\ MarkerInv /\ LeaseInv
  BY Zenon DEF Inv
<1>2. Creators' = Creators
  BY Zenon DEF Creators
<1>3. \A s \in Sandboxes : Leases(s)' = Leases(s)
  BY Zenon DEF Leases
<1>4. NumberInv'
  BY <1>1, <1>2 DEF NumberInv, Given, Held, Leased, Tearing
<1>5. MarkerInv'
  BY <1>1 DEF MarkerInv, Opening, Working, Tearing, Opens
<1>6. LeaseInv'
  BY <1>1, <1>3 DEF LeaseInv, Leased, Held, Barrier
<1> QED
  BY Zenon, <1>4, <1>5, <1>6 DEF Inv

\* A launch begins, is refused, or runs its child; the children fork and end.
LEMMA PlainLaunchStep ==
  ASSUME Inv, NEW l \in Launches, LaunchBegin(l) \/ JoinRefused(l) \/ Spawn(l) \/ Fork(l)
  PROVE  Inv'
<1>1. TypeInv
  BY Zenon DEF Inv
<1>2. UNCHANGED <<slots, next_generation, accepting, gens, release, todo, first_error, stopped>>
  BY Zenon DEF LaunchBegin, JoinRefused, Spawn, Fork, shutdownVars
<1>3. CASE LaunchBegin(l)
  <2>1. PICK v \in LaunchType : launch' = [launch EXCEPT ![l] = v] /\ v.pc = "join" /\ launch[l].pc = "idle"
    BY Zenon, <1>3, LaunchValues DEF LaunchBegin, GoLaunch, At
  <2>2. TypeInv' /\ launch'[l].pc = "join" /\ \A k \in Launches \ {l} : launch'[k] = launch[k]
    BY Zenon, <1>1, <1>2, <1>3, <2>1 DEF TypeInv, LaunchBegin
  <2> QED
    BY Zenon, <1>2, <2>1, <2>2, LaunchFrame
<1>4. CASE JoinRefused(l)
  <2>1. launch' = [launch EXCEPT ![l] = [pc |-> "idle"]] /\ launch[l].pc = "join" /\ members' = members
    BY Zenon, <1>4 DEF JoinRefused, FailLaunch, GoLaunch, At
  <2>2. TypeInv' /\ launch'[l].pc = "idle" /\ \A k \in Launches \ {l} : launch'[k] = launch[k]
    BY Zenon, <1>1, <1>2, <2>1, LaunchValues DEF TypeInv
  <2> QED
    BY Zenon, <1>2, <2>1, <2>2, LaunchFrame
<1>5. CASE Spawn(l)
  <2> DEFINE g == launch[l].gen
             v == Request(l, "running", g)
  <2>1. launch[l].pc = "leased" /\ launch' = [launch EXCEPT ![l] = v]
    BY Zenon, <1>5 DEF Spawn, GoLaunch, At
  <2>2. /\ v \in LaunchType /\ v.pc = "running" /\ v.gen = g
        /\ v.sandbox = launch[l].sandbox /\ v.identity = launch[l].identity
    BY <1>1, <2>1, LaunchAt, LaunchMoved
  <2> HIDE DEF v
  <2>3. /\ launch' \in [Launches -> LaunchType] /\ launch'[l] = v
        /\ \A k \in Launches \ {l} : launch'[k] = launch[k]
    BY Zenon, <1>1, <2>1, <2>2 DEF TypeInv
  <2>4. members' \in [Gens -> [Members -> {"none", "alive", "dying"}]]
    BY Zenon, <1>1, <1>5 DEF Spawn, TypeInv
  <2>5. TypeInv'
    BY Zenon, <1>1, <1>2, <2>3, <2>4 DEF TypeInv
  <2> QED
    BY Zenon, <1>2, <2>1, <2>2, <2>3, <2>5, LaunchFrame
<1>6. CASE Fork(l)
  <2>1. launch' = launch /\ members' \in [Gens -> [Members -> {"none", "alive", "dying"}]]
    BY Zenon, <1>1, <1>6 DEF Fork, TypeInv
  <2>2. TypeInv'
    BY Zenon, <1>1, <1>2, <2>1 DEF TypeInv
  <2> QED
    BY Zenon, <1>2, <2>1, <2>2, LaunchFrame
<1> QED
  BY Zenon, <1>3, <1>4, <1>5, <1>6

\* A process ends, or nothing changes.
LEMMA ExitStep ==
  ASSUME Inv, UNCHANGED vars \/ \E g \in Gens, m \in Members : Exit(g, m)
  PROVE  Inv'
<1>1. UNCHANGED <<slots, next_generation, accepting, gens, launch, release, todo, first_error, stopped>>
  BY Zenon DEF Exit, vars, shutdownVars
<1>2. members' \in [Gens -> [Members -> {"none", "alive", "dying"}]]
  BY DEF Inv, TypeInv, Exit, vars
<1>3. TypeInv'
  BY Zenon, <1>1, <1>2 DEF Inv, TypeInv
<1> QED
  BY Zenon, <1>1, <1>3, LaunchFrame

\* A launch joins the domain of its sandbox, or cannot duplicate its namespace.
LEMMA JoinActiveStep == ASSUME Inv, NEW l \in Launches, JoinActive(l) PROVE Inv'
<1>1. TypeInv /\ NumberInv /\ MarkerInv /\ LeaseInv
  BY Zenon DEF Inv
<1>2. PICK s \in Sandboxes : s = launch[l].sandbox
  BY Zenon, <1>1, LaunchAt DEF JoinActive, At
<1>3. /\ launch[l].pc = "join" /\ slots[s].tag = "Active"
      /\ gens[slots[s].domain].identity = launch[l].identity
      /\ UNCHANGED <<next_generation, accepting, gens, members, release, todo, first_error, stopped>>
  BY Zenon, <1>2 DEF JoinActive, At, SameIdentity, shutdownVars
<1>4. CASE launch' = [launch EXCEPT ![l] = [pc |-> "idle"]] /\ slots' = slots
  <2>1. TypeInv' /\ launch'[l].pc = "idle" /\ \A k \in Launches \ {l} : launch'[k] = launch[k]
    BY Zenon, <1>1, <1>3, <1>4, LaunchValues DEF TypeInv
  <2> QED
    BY Zenon, <1>3, <1>4, <2>1, LaunchFrame
<1>5. CASE /\ slots' = [slots EXCEPT ![s] = [slots[s] EXCEPT !.in_flight = @ + 1]]
           /\ launch' = [launch EXCEPT ![l] = Request(l, "leased", slots[s].domain)]
  <2>1. /\ slots[s] \in SlotType /\ slots[s].in_flight \in Nat /\ slots[s].domain \in Gens
        /\ slots[s].domain \in 0 .. MaxGen /\ slots[s].domain # 0
    BY <1>1, <1>3, SlotFacts DEF TypeInv, Gens
  <2>2. PICK w \in SlotType : /\ slots' = [slots EXCEPT ![s] = w] /\ w.tag = "Active"
                              /\ w.in_flight = slots[s].in_flight + 1 /\ w.domain = slots[s].domain
    <3> DEFINE n == slots[s].in_flight + 1
               w == [slots[s] EXCEPT !.in_flight = n]
    <3>1. n \in Nat /\ slots' = [slots EXCEPT ![s] = w]
      BY <1>5, <2>1
    <3>2. w \in SlotType /\ w.tag = "Active" /\ w.in_flight = n /\ w.domain = slots[s].domain
      <4> HIDE DEF n
      <4> QED
        BY <1>3, <2>1, <3>1, SlotCounted
    <3> HIDE DEF w
    <3> QED
      BY Zenon, <3>1, <3>2
  <2>3. PICK v \in LaunchType : /\ launch' = [launch EXCEPT ![l] = v] /\ v.pc = "leased" /\ v.sandbox = s
                                /\ v.identity = launch[l].identity /\ v.gen = slots[s].domain
    <3> DEFINE v == Request(l, "leased", slots[s].domain)
    <3>1. launch[l] \in LaunchType /\ launch[l].pc # "idle"
      BY Zenon, <1>1, <1>3, LaunchAt
    <3>2. /\ v \in LaunchType /\ v.pc = "leased" /\ v.gen = slots[s].domain
          /\ v.sandbox = launch[l].sandbox /\ v.identity = launch[l].identity
      BY <2>1, <3>1, LaunchMoved
    <3> HIDE DEF v
    <3>3. launch' = [launch EXCEPT ![l] = v]
      BY Zenon, <1>5 DEF v
    <3> QED
      BY Zenon, <1>2, <3>2, <3>3
  <2>4. /\ launch' \in [Launches -> LaunchType] /\ slots' \in [Sandboxes -> SlotType]
        /\ launch'[l] = v /\ \A k \in Launches \ {l} : launch'[k] = launch[k]
        /\ slots'[s] = w /\ \A z \in Sandboxes \ {s} : slots'[z] = slots[z]
    BY Zenon, <1>1, <2>2, <2>3 DEF TypeInv
  <2>5. TypeInv'
    BY ZenonT(40), <1>1, <1>3, <2>4 DEF TypeInv
  <2>6. NumberInv'
    <3>1. Creators' = Creators
      BY ZenonT(40), <1>3, <2>3, <2>4, CreatorsChange
    <3> QED
      BY <1>1, <1>3, <2>1, <2>2, <2>3, <2>4, <3>1 DEF NumberInv, Given, Held, Leased, Tearing
  <2>7. MarkerInv'
    BY <1>1, <1>3, <2>2, <2>3, <2>4 DEF MarkerInv, Opening, Working, Tearing, Opens
  <2>8. LeaseInv'
    <3>1. ASSUME NEW z \in Sandboxes PROVE Cardinality(Leases(z)') <= Barrier(z)'
      <4>1. CASE z = s
        <5>1. Cardinality(Leases(z)') = Cardinality(Leases(z)) + 1 /\ Cardinality(Leases(z)) \in Nat
          BY Zenon, <1>3, <2>3, <2>4, <4>1, LeasesChange, Counting DEF Leased
        <5>2. Barrier(z)' = Barrier(z) + 1 /\ Barrier(z) \in Nat
          BY Zenon, <1>3, <2>1, <2>2, <2>4, <4>1 DEF Barrier, Held
        <5> QED
          BY <1>1, <5>1, <5>2 DEF LeaseInv
      <4>2. CASE z # s
        <5>1. Leases(z)' = Leases(z)
          BY <1>3, <2>3, <2>4, <4>2, LeasesChange DEF Leased
        <5> QED
          BY Zenon, <1>1, <2>4, <4>2, <5>1 DEF LeaseInv, Barrier, Held
      <4> QED
        BY Zenon, <4>1, <4>2
    <3> QED
      BY <1>1, <1>3, <2>1, <2>2, <2>3, <2>4, <3>1 DEF LeaseInv, Leased, Held
  <2> QED
    BY Zenon, <2>5, <2>6, <2>7, <2>8 DEF Inv
<1> QED
  BY Zenon, <1>2, <1>4, <1>5 DEF JoinActive, FailLaunch, GoLaunch, SetSlot

\* No slot and no launch that has a number is given another.
LEMMA NumberFrame ==
  ASSUME TypeInv, NumberInv, GensKept, next_generation' = next_generation,
         Cardinality(Creators') <= Cardinality(Creators),
         Cardinality(Creators) \in Nat, Cardinality(Creators') \in Nat,
         \A s \in Sandboxes : Held(s)' /\ slots'[s].domain # 0 =>
           Held(s) /\ slots'[s].domain = slots[s].domain,
         \A r \in Releasers : Tearing(r)' /\ release'[r].domain # 0 =>
           Tearing(r) /\ release'[r].domain = release[r].domain /\ release'[r].sandbox = release[r].sandbox,
         \A l \in Launches : Leased(l)' \/ launch'[l].pc = "publish" =>
           /\ Leased(l) \/ launch[l].pc = "publish"
           /\ launch'[l].gen = launch[l].gen /\ launch'[l].sandbox = launch[l].sandbox
           /\ launch'[l].identity = launch[l].identity
  PROVE  NumberInv'
<1>1. next_generation' + Cardinality(Creators') <= MaxGen + 1
  BY RegistryAssumption DEF TypeInv, NumberInv, RegistryAssumption
<1>2. \A s \in Sandboxes : Held(s) => slots[s].domain \in 0 .. MaxGen
  BY Zenon, SlotFacts DEF TypeInv, Held
<1>3. \A r \in Releasers : Tearing(r) => release[r].domain \in 0 .. MaxGen
  BY Zenon, ReleaseFacts DEF TypeInv, Tearing, Works
<1>4. \A l \in Launches : Leased(l) \/ launch[l].pc = "publish" => launch[l].gen \in 0 .. MaxGen
  BY Zenon, LaunchFacts DEF TypeInv, Leased
<1>5. \A g \in 0 .. MaxGen : g # 0 => g \in Gens
  BY DEF Gens
<1> QED
  BY <1>1, <1>2, <1>3, <1>4, <1>5 DEF NumberInv, Given, GensKept

\* A creator gives up its marker for a slot without a domain.
LEMMA MarkerReplaced ==
  ASSUME Inv, NEW l \in Launches, NEW s \in Sandboxes, s = launch[l].sandbox, Opening(l),
         UNCHANGED <<next_generation, accepting, gens, members, release, todo, first_error, stopped>>,
         launch' \in [Launches -> LaunchType], slots' \in [Sandboxes -> SlotType],
         launch'[l].pc = "idle", \A k \in Launches \ {l} : launch'[k] = launch[k],
         slots'[s].tag \in {"absent", "CleanupPending"}, \A z \in Sandboxes \ {s} : slots'[z] = slots[z]
  PROVE  Inv'
<1>1. TypeInv /\ NumberInv /\ MarkerInv /\ LeaseInv /\ slots[s].tag = "Creating"
  BY Zenon DEF Inv, MarkerInv
<1>2. TypeInv'
  BY Zenon, <1>1 DEF TypeInv
<1>3. NumberInv'
  <2>1. /\ Cardinality(Creators') <= Cardinality(Creators)
        /\ Cardinality(Creators) \in Nat /\ Cardinality(Creators') \in Nat
    BY CreatorsChange
  <2>2. GensKept
    BY Zenon, <1>1 DEF TypeInv, GensKept
  <2> QED
    BY Zenon, <1>1, <2>1, <2>2, NumberFrame DEF Held, Leased, Tearing
<1>4. MarkerInv'
  BY <1>1, Places DEF MarkerInv, Opening, Working, Tearing, Opens, Tears, Works
<1>5. LeaseInv'
  <2>1. \A z \in Sandboxes : Leases(z)' = Leases(z)
    BY ZenonT(40), LeasesChange DEF Leased, Opening, Opens
  <2>2. \A z \in Sandboxes : Barrier(z)' = Barrier(z)
    BY Zenon, <1>1 DEF Barrier, Held
  <2> QED
    BY <1>1, <2>1, <2>2, Places DEF LeaseInv, Leased, Held, Opening, Opens
<1> QED
  BY Zenon, <1>2, <1>3, <1>4, <1>5 DEF Inv

\* The old temp tree is removed, or goes back into the slot.
LEMMA CleanPendingStep == ASSUME Inv, NEW l \in Launches, CleanPending(l) PROVE Inv'
<1>1. TypeInv /\ NumberInv /\ MarkerInv /\ LeaseInv
  BY Zenon DEF Inv
<1>2. PICK s \in Sandboxes, t \in Gens : s = launch[l].sandbox /\ t = launch[l].gen
  <2>1. launch[l].pc = "clean"
    BY Zenon DEF CleanPending, At
  <2> QED
    BY <1>1, <2>1, LaunchAt DEF MarkerInv, Opening, Opens, Gens
<1>3. /\ launch[l].pc = "clean" /\ slots[s].tag = "Creating"
      /\ UNCHANGED <<next_generation, accepting, members, release, todo, first_error, stopped>>
  BY Zenon, <1>1, <1>2 DEF CleanPending, At, MarkerInv, Opening, Opens, shutdownVars
<1>4. CASE /\ gens' = [gens EXCEPT ![t].temp = FALSE] /\ slots' = slots
           /\ launch' = [launch EXCEPT ![l] = Request(l, "create", 0)]
  <2>1. PICK v \in LaunchType : launch' = [launch EXCEPT ![l] = v] /\ v.pc = "create" /\ v.sandbox = s
    <3> DEFINE v == Request(l, "create", 0)
    <3>1. launch[l] \in LaunchType /\ launch[l].pc # "idle" /\ 0 \in 0 .. MaxGen /\ "create" \in Opens
      BY <1>1, <1>3, LaunchAt, RegistryAssumption DEF Opens, RegistryAssumption
    <3>2. v \in LaunchType /\ v.pc = "create" /\ v.sandbox = launch[l].sandbox
      BY <3>1, LaunchMoved
    <3> HIDE DEF v
    <3>3. launch' = [launch EXCEPT ![l] = v]
      BY Zenon, <1>4 DEF v
    <3> QED
      BY Zenon, <1>2, <3>2, <3>3
  <2>2. GensKept
    BY Zenon, <1>1, <1>4, GenChanged DEF TypeInv
  <2>3. /\ launch' \in [Launches -> LaunchType] /\ launch'[l] = v
        /\ \A k \in Launches \ {l} : launch'[k] = launch[k]
    BY Zenon, <1>1, <2>1 DEF TypeInv
  <2>4. TypeInv'
    BY Zenon, <1>1, <1>3, <1>4, <2>2, <2>3 DEF TypeInv, GensKept
  <2>5. NumberInv'
    <3>1. Creators' = Creators /\ Cardinality(Creators) \in Nat
      BY Zenon, <1>3, <2>1, <2>3, CreatorsChange
    <3> QED
      BY <1>1, <1>3, <1>4, <2>1, <2>2, <2>3, <3>1, NumberFrame DEF Held, Leased, Tearing
  <2>6. MarkerInv'
    BY <1>1, <1>2, <1>3, <1>4, <2>1, <2>3 DEF MarkerInv, Opening, Working, Tearing, Opens
  <2>7. LeaseInv'
    <3>1. \A z \in Sandboxes : Leases(z)' = Leases(z)
      BY Zenon, <1>3, <2>1, <2>3, LeasesChange DEF Leased
    <3> QED
      BY <1>1, <1>3, <1>4, <2>1, <2>3, <3>1 DEF LeaseInv, Leased, Held, Barrier
  <2> QED
    BY Zenon, <2>4, <2>5, <2>6, <2>7 DEF Inv
<1>5. CASE /\ slots' = [slots EXCEPT ![s] = CleanupPending(t)] /\ gens' = gens
           /\ launch' = [launch EXCEPT ![l] = [pc |-> "idle"]]
  <2>1. /\ launch' \in [Launches -> LaunchType] /\ slots' \in [Sandboxes -> SlotType]
        /\ launch'[l].pc = "idle" /\ \A k \in Launches \ {l} : launch'[k] = launch[k]
        /\ slots'[s].tag = "CleanupPending" /\ \A z \in Sandboxes \ {s} : slots'[z] = slots[z]
    BY <1>1, <1>5, SlotValues, LaunchValues DEF TypeInv
  <2> QED
    <3>1. Opening(l)
      BY Zenon, <1>3 DEF Opening, Opens
    <3> QED
      BY Zenon, <1>2, <1>3, <1>5, <2>1, <3>1, MarkerReplaced
<1> QED
  BY Zenon, <1>2, <1>3, <1>4, <1>5 DEF CleanPending, FailLaunch, GoLaunch, SetSlot

\* A generation takes the next number, or none is made.
LEMMA CreateStep == ASSUME Inv, NEW l \in Launches, create_generation(l) PROVE Inv'
<1>1. TypeInv /\ NumberInv /\ MarkerInv /\ LeaseInv
  BY Zenon DEF Inv
<1>2. /\ launch[l].pc = "create"
      /\ UNCHANGED <<slots, accepting, members, release, todo, first_error, stopped>>
  BY Zenon DEF create_generation, At, shutdownVars
<1>3. PICK n \in Gens : n = next_generation
  <2>1. l \in Creators /\ Creators \in SUBSET Launches
    BY Zenon, <1>2 DEF Creators
  <2>2. Cardinality(Creators) \in Nat /\ Cardinality(Creators) # 0
    BY Zenon, <2>1, Counting
  <2> QED
    BY <1>1, <2>2, RegistryAssumption DEF TypeInv, NumberInv, Gens, RegistryAssumption
<1>4. n \in 0 .. MaxGen /\ n # 0 /\ 0 \in 0 .. MaxGen /\ n \in Nat
  BY RegistryAssumption DEF Gens, RegistryAssumption
<1>5. PICK v \in LaunchType :
        /\ launch' = [launch EXCEPT ![l] = v] /\ v.pc = "publish"
        /\ v.sandbox = launch[l].sandbox /\ v.identity = launch[l].identity
        /\ \/ /\ v.gen \in {0, n} /\ next_generation' = n + 1
              /\ \E w \in GenType : /\ w.cgroup # "none" /\ w.sandbox = launch[l].sandbox
                                    /\ w.identity = launch[l].identity /\ gens' = [gens EXCEPT ![n] = w]
           \/ v.gen = 0 /\ next_generation' = n /\ gens' = gens
  <2>1. launch[l] \in LaunchType /\ launch[l].pc # "idle" /\ "publish" \in Opens
        /\ launch[l].sandbox \in Sandboxes /\ launch[l].identity \in Identities
    BY Zenon, <1>1, <1>2, LaunchAt DEF Opens
  <2>2. ASSUME NEW g \in {0, n}
        PROVE  /\ Request(l, "publish", g) \in LaunchType /\ Request(l, "publish", g).pc = "publish"
               /\ Request(l, "publish", g).gen = g /\ Request(l, "publish", g).sandbox = launch[l].sandbox
               /\ Request(l, "publish", g).identity = launch[l].identity
    BY <1>4, <2>1, LaunchMoved
  <2>3. ASSUME NEW c \in {"present", "removed"}, NEW t \in BOOLEAN, NEW w,
               w = [cgroup |-> c, temp |-> t, sandbox |-> launch[l].sandbox, identity |-> launch[l].identity]
        PROVE  /\ w \in GenType /\ w.cgroup # "none" /\ w.sandbox = launch[l].sandbox
               /\ w.identity = launch[l].identity
    BY Zenon, <2>1, <2>3 DEF GenType
  <2>4. CASE \E c \in {"present", "removed"}, t \in BOOLEAN, g \in {0, n} :
               /\ next_generation' = n + 1 /\ launch' = [launch EXCEPT ![l] = Request(l, "publish", g)]
               /\ gens' = [gens EXCEPT ![n] = [cgroup |-> c, temp |-> t, sandbox |-> launch[l].sandbox,
                                               identity |-> launch[l].identity]]
    BY ZenonT(20), <2>2, <2>3, <2>4
  <2>5. CASE /\ launch' = [launch EXCEPT ![l] = Request(l, "publish", 0)]
             /\ UNCHANGED <<next_generation, gens>>
    BY Zenon, <1>3, <2>2, <2>5
  <2> QED
    BY Zenon, <1>3, <2>4, <2>5 DEF create_generation, GoLaunch
<1>6. /\ launch' \in [Launches -> LaunchType] /\ launch'[l] = v
      /\ \A k \in Launches \ {l} : launch'[k] = launch[k]
  BY Zenon, <1>1, <1>5 DEF TypeInv
<1>7. /\ gens' \in [Gens -> GenType] /\ next_generation' \in Nat \ {0}
      /\ \A g \in Gens \ {n} : gens'[g] = gens[g]
      /\ (next_generation' = n /\ gens' = gens /\ v.gen = 0)
         \/ (next_generation' = n + 1 /\ gens'[n].cgroup # "none" /\ gens'[n].sandbox = launch[l].sandbox
             /\ gens'[n].identity = launch[l].identity /\ v.gen \in {0, n})
  BY <1>1, <1>4, <1>5 DEF TypeInv
<1>8. TypeInv'
  BY Zenon, <1>1, <1>2, <1>6, <1>7 DEF TypeInv
<1>9. NumberInv'
  <2>1. next_generation' + Cardinality(Creators') <= MaxGen + 1
    <3>1. Cardinality(Creators') = Cardinality(Creators) - 1 /\ Cardinality(Creators) \in Nat
      BY Zenon, <1>2, <1>5, <1>6, CreatorsChange
    <3> QED
      BY <1>1, <1>3, <1>4, <1>7, <3>1, RegistryAssumption DEF NumberInv, RegistryAssumption
  <2>2. gens[n].cgroup = "none" /\ \A g \in Gens : g \in Nat
    BY <1>1, <1>3, <1>4 DEF NumberInv, Gens
  <2>3. \A g \in Gens : gens'[g].cgroup = "none" <=> next_generation' <= g
    BY <1>1, <1>3, <1>4, <1>7, <2>2 DEF NumberInv
  <2>4. \A g \in 0 .. MaxGen : g # 0 => g \in Gens
    BY DEF Gens
  <2>5. \A g \in Gens : \A s : Given(g, s) => Given(g, s)' /\ gens'[g].identity = gens[g].identity
    BY Zenon, <1>7, <2>2 DEF Given
  <2>6. \A s \in Sandboxes : Held(s)' /\ slots'[s].domain # 0 => Given(slots[s].domain, s)'
    <3>1. \A s \in Sandboxes : Held(s) => slots[s].domain \in 0 .. MaxGen
      BY Zenon, <1>1, SlotFacts DEF TypeInv, Held
    <3> QED
      BY Zenon, <1>1, <1>2, <2>4, <2>5, <3>1 DEF NumberInv, Held
  <2>7. \A r \in Releasers : Tearing(r)' /\ release'[r].domain # 0 =>
          Given(release[r].domain, release[r].sandbox)'
    <3>1. \A r \in Releasers : Tearing(r) => release[r].domain \in 0 .. MaxGen
      BY Zenon, <1>1, ReleaseFacts DEF TypeInv, Tearing, Works
    <3> QED
      BY Zenon, <1>1, <1>2, <2>4, <2>5, <3>1 DEF NumberInv, Tearing
  <2>8. ASSUME NEW k \in Launches, Leased(k)' \/ launch'[k].pc = "publish", launch'[k].gen # 0
        PROVE  /\ Given(launch[k].gen, launch[k].sandbox)'
               /\ gens'[launch'[k].gen].identity = launch'[k].identity
    <3>1. CASE k = l
      BY ZenonT(40), <1>5, <1>6, <1>7, <2>8, <3>1 DEF Given
    <3>2. CASE k # l
      <4>1. launch'[k] = launch[k] /\ launch[k].gen \in Gens /\ (Leased(k) \/ launch[k].pc = "publish")
        BY ZenonT(40), <1>1, <1>6, <2>4, <2>8, <3>2, LaunchFacts DEF TypeInv, Leased
      <4> QED
        BY <1>1, <2>5, <2>8, <4>1 DEF NumberInv
    <3> QED
      BY Zenon, <3>1, <3>2
  <2> QED
    BY ZenonT(40), <2>1, <2>3, <2>6, <2>7, <2>8 DEF NumberInv
<1>10. MarkerInv'
  BY <1>1, <1>2, <1>5, <1>6 DEF MarkerInv, Opening, Working, Tearing, Opens
<1>11. LeaseInv'
  <2>1. \A z \in Sandboxes : Leases(z)' = Leases(z)
    BY Zenon, <1>2, <1>5, <1>6, LeasesChange DEF Leased
  <2> QED
    BY Zenon, <1>1, <1>2, <1>5, <1>6, <2>1 DEF LeaseInv, Leased, Held, Barrier
<1> QED
  BY Zenon, <1>8, <1>9, <1>10, <1>11 DEF Inv

\* The creator publishes its domain or retracts its marker.
LEMMA PublishStep == ASSUME Inv, NEW l \in Launches, Publish(l) PROVE Inv'
<1>1. TypeInv /\ NumberInv /\ MarkerInv /\ LeaseInv
  BY Zenon DEF Inv
<1>2. launch[l].pc = "publish" /\ Opening(l)
      /\ UNCHANGED <<next_generation, accepting, members, release, todo, first_error, stopped>>
  BY Zenon DEF Publish, At, Opening, Opens, shutdownVars
<1>3. PICK s \in Sandboxes, g \in 0 .. MaxGen : s = launch[l].sandbox /\ g = launch[l].gen
  BY Zenon, <1>1, <1>2, LaunchAt
<1>4. slots[s].tag = "Creating"
  BY Zenon, <1>1, <1>2, <1>3 DEF MarkerInv
<1>5. CASE /\ slots' = [slots EXCEPT ![s] = Absent] /\ gens' = gens
           /\ launch' = [launch EXCEPT ![l] = [pc |-> "idle"]]
  <2>1. /\ launch' \in [Launches -> LaunchType] /\ slots' \in [Sandboxes -> SlotType]
        /\ launch'[l].pc = "idle" /\ \A k \in Launches \ {l} : launch'[k] = launch[k]
        /\ slots'[s].tag = "absent" /\ \A z \in Sandboxes \ {s} : slots'[z] = slots[z]
    BY <1>1, <1>5, SlotValues, LaunchValues DEF TypeInv
  <2> QED
    BY Zenon, <1>2, <1>3, <1>5, <2>1, MarkerReplaced
<1>6. CASE /\ g # 0 /\ slots' = [slots EXCEPT ![s] = Active(1, g, g)] /\ gens' = gens
           /\ \/ launch' = [launch EXCEPT ![l] = Request(l, "leased", g)]
              \/ launch' = [launch EXCEPT ![l] = [pc |-> "idle"]]
  <2>1. /\ g \in Gens /\ Given(g, s) /\ gens[g].identity = launch[l].identity
    BY <1>1, <1>2, <1>3, <1>6 DEF NumberInv, Gens
  <2>2. PICK v \in LaunchType :
          /\ launch' = [launch EXCEPT ![l] = v]
          /\ \/ v.pc = "idle"
             \/ v.pc = "leased" /\ v.gen = g /\ v.sandbox = s /\ v.identity = launch[l].identity
    <3>1. launch[l] \in LaunchType /\ launch[l].pc # "idle"
      BY Zenon, <1>1, <1>2, LaunchAt
    <3>2. LET v == Request(l, "leased", g)
          IN v \in LaunchType /\ v.pc = "leased" /\ v.gen = g /\ v.sandbox = s /\ v.identity = launch[l].identity
      BY <1>3, <3>1, LaunchMoved
    <3> QED
      BY Zenon, <1>6, <3>2, LaunchValues
  <2>3. PICK w \in SlotType : slots' = [slots EXCEPT ![s] = w] /\ w.tag = "Active" /\ w.in_flight = 1 /\ w.domain = g
    <3> DEFINE w == Active(1, g, g)
    <3>1. w \in SlotType /\ w.tag = "Active" /\ w.in_flight = 1 /\ w.domain = g
      BY <2>1, SlotValues
    <3> HIDE DEF w
    <3>2. slots' = [slots EXCEPT ![s] = w]
      BY Zenon, <1>6 DEF w
    <3> QED
      BY Zenon, <3>1, <3>2
  <2>4. /\ launch' \in [Launches -> LaunchType] /\ slots' \in [Sandboxes -> SlotType]
        /\ launch'[l] = v /\ \A k \in Launches \ {l} : launch'[k] = launch[k]
        /\ slots'[s] = w /\ \A z \in Sandboxes \ {s} : slots'[z] = slots[z]
    BY Zenon, <1>1, <2>2, <2>3 DEF TypeInv
  <2>5. TypeInv'
    BY ZenonT(40), <1>1, <1>2, <1>6, <2>4 DEF TypeInv
  <2>6. NumberInv'
    <3>1. Creators' = Creators
      BY ZenonT(40), <1>2, <2>2, <2>4, CreatorsChange
    <3> QED
      BY <1>1, <1>2, <1>6, <2>1, <2>2, <2>3, <2>4, <3>1 DEF NumberInv, Given, Held, Leased, Tearing
  <2>7. MarkerInv'
    BY <1>1, <1>2, <1>3, <1>4, <2>2, <2>3, <2>4, Places DEF MarkerInv, Opening, Working, Tearing, Opens, Tears, Works
  <2>8. LeaseInv'
    <3>1. ASSUME NEW z \in Sandboxes PROVE Cardinality(Leases(z)') <= Barrier(z)'
      <4>1. CASE z = s
        <5>1. Barrier(z) = 0 /\ Barrier(z)' = 1
          BY Zenon, <1>4, <2>3, <2>4, <4>1 DEF Barrier, Held
        <5>2. Cardinality(Leases(z)) = 0
          <6>1. Cardinality(Leases(z)) \in Nat
            BY Zenon, <2>4, LeasesChange, Counting
          <6> QED
            BY <1>1, <5>1, <6>1 DEF LeaseInv
        <5>3. l \notin Leases(z)
          BY Zenon, <1>2 DEF Leases
        <5>4. Cardinality(Leases(z)') \in {0, 1}
          BY <2>4, <5>2, <5>3, LeasesChange
        <5> QED
          BY <5>1, <5>4
      <4>2. CASE z # s
        <5>1. Leases(z)' = Leases(z)
          BY <1>2, <2>2, <2>4, <4>2, LeasesChange DEF Leased
        <5> QED
          BY Zenon, <1>1, <2>4, <4>2, <5>1 DEF LeaseInv, Barrier, Held
      <4> QED
        BY Zenon, <4>1, <4>2
    <3> QED
      BY <1>1, <1>2, <1>4, <1>6, <2>2, <2>3, <2>4, <3>1, Places DEF LeaseInv, Leased, Held
  <2> QED
    BY ZenonT(40), <2>5, <2>6, <2>7, <2>8 DEF Inv
<1> QED
  BY Zenon, <1>3, <1>4, <1>5, <1>6 DEF Publish, MarkerRetracted, FailLaunch, GoLaunch, SetSlot

\* The lease is dropped; the last one may retire the slot.
LEMMA FinishedStep == ASSUME Inv, NEW l \in Launches, launch_finished(l) PROVE Inv'
<1>1. TypeInv /\ NumberInv /\ MarkerInv /\ LeaseInv
  BY Zenon DEF Inv
<1>2. /\ Leased(l) /\ launch[l].pc # "idle" /\ launch' = [launch EXCEPT ![l] = [pc |-> "idle"]]
      /\ UNCHANGED <<next_generation, accepting, members, release, todo, first_error, stopped>>
  BY Zenon DEF launch_finished, At, Leased, FailLaunch, GoLaunch, shutdownVars
<1>3. PICK s \in Sandboxes : s = launch[l].sandbox
  BY Zenon, <1>1, <1>2, LaunchAt
<1>4. /\ slots[s] \in SlotType /\ Held(s) /\ slots[s].in_flight \in Nat
      /\ slots[s].domain \in Gens /\ slots[s].temp \in 0 .. MaxGen
  BY <1>1, <1>2, <1>3, SlotFacts DEF TypeInv, LeaseInv, Held, Gens
<1>5. PICK w \in SlotType :
        /\ w = [slots[s] EXCEPT !.in_flight = IF @ = 0 THEN 0 ELSE @ - 1]
        /\ w.tag = slots[s].tag /\ w.domain = slots[s].domain /\ w.temp = slots[s].temp
        /\ w.in_flight = IF slots[s].in_flight = 0 THEN 0 ELSE slots[s].in_flight - 1
  <2> DEFINE n == IF slots[s].in_flight = 0 THEN 0 ELSE slots[s].in_flight - 1
             w == [slots[s] EXCEPT !.in_flight = n]
  <2>1. n \in Nat /\ w = [slots[s] EXCEPT !.in_flight = IF @ = 0 THEN 0 ELSE @ - 1]
    BY <1>4
  <2>2. w \in SlotType /\ w.tag = slots[s].tag /\ w.in_flight = n /\ w.domain = slots[s].domain /\ w.temp = slots[s].temp
    <3> HIDE DEF n
    <3> QED
      BY <1>4, <2>1, SlotCounted DEF Held
  <2> HIDE DEF w
  <2> QED
    BY Zenon, <2>1, <2>2
<1>6. /\ launch' \in [Launches -> LaunchType] /\ launch'[l].pc = "idle"
      /\ \A k \in Launches \ {l} : launch'[k] = launch[k]
  BY Zenon, <1>1, <1>2, LaunchValues DEF TypeInv
<1>7. /\ Cardinality(Leases(s)) \in Nat /\ Cardinality(Leases(s)) # 0
      /\ Cardinality(Leases(s)) <= slots[s].in_flight
      /\ Cardinality(Leases(s)') = Cardinality(Leases(s)) - 1
      /\ Leases(s)' \in SUBSET Launches
  <2>1. l \in Leases(s) /\ l \notin Leases(s)'
    BY Zenon, <1>2, <1>3, <1>6 DEF Leases, Leased
  <2>2. /\ Leases(s) \in SUBSET Launches /\ Leases(s)' \in SUBSET Launches
        /\ Cardinality(Leases(s)') = Cardinality(Leases(s)) - 1
    BY Zenon, <1>6, <2>1, LeasesChange
  <2>3. Cardinality(Leases(s)) \in Nat /\ Cardinality(Leases(s)) # 0
    BY Zenon, <2>1, <2>2, Counting
  <2>4. Cardinality(Leases(s)) <= slots[s].in_flight
    BY Zenon, <1>1, <1>4 DEF LeaseInv, Barrier
  <2> QED
    BY Zenon, <2>2, <2>3, <2>4
<1>8. \A z \in Sandboxes \ {s} : Leases(z)' = Leases(z)
  BY Zenon, <1>2, <1>3, <1>6, LeasesChange DEF Leased
<1>9. ASSUME NEW x \in SlotType, slots' = [slots EXCEPT ![s] = x], GensKept,
             \/ x = w
             \/ w.in_flight = 0 /\ x.tag \in {"absent", "CleanupPending"}
      PROVE  Inv'
  <2>1. /\ slots' \in [Sandboxes -> SlotType] /\ slots'[s] = x
        /\ \A z \in Sandboxes \ {s} : slots'[z] = slots[z]
    BY Zenon, <1>1, <1>9 DEF TypeInv
  <2>2. TypeInv'
    BY Zenon, <1>1, <1>2, <1>6, <1>9, <2>1 DEF TypeInv, GensKept
  <2>3. NumberInv'
    <3>1. Creators' = Creators /\ Cardinality(Creators) \in Nat
      BY Zenon, <1>2, <1>6, CreatorsChange DEF Leased
    <3> QED
      <4>1. \A z \in Sandboxes : Held(z)' /\ slots'[z].domain # 0 =>
              Held(z) /\ slots'[z].domain = slots[z].domain
        BY Zenon, <1>4, <1>5, <1>9, <2>1 DEF Held
      <4>2. \A k \in Launches : Leased(k)' \/ launch'[k].pc = "publish" => launch'[k] = launch[k]
        BY Zenon, <1>6 DEF Leased
      <4> QED
        BY <1>1, <1>2, <1>9, <3>1, <4>1, <4>2, NumberFrame DEF Leased, Tearing
  <2>4. MarkerInv'
    <3>1. slots[s].tag \in {"Active", "Deleting"} /\ slots[s].in_flight # 0
      BY <1>4, <1>7 DEF Held
    <3> QED
      BY <1>1, <1>2, <1>5, <1>6, <2>1, <3>1, Places
      DEF MarkerInv, Opening, Working, Tearing, Leased, Opens, Tears, Works
  <2>5. ASSUME NEW z \in Sandboxes PROVE Cardinality(Leases(z)') <= Barrier(z)'
    <3>1. CASE z = s
      <4>1. Barrier(s)' = IF x = w THEN slots[s].in_flight - 1 ELSE 0
        <5>1. slots[s].in_flight # 0 /\ w.in_flight = slots[s].in_flight - 1
          BY <1>4, <1>5, <1>7
        <5>2. CASE x = w
          BY Zenon, <1>4, <1>5, <2>1, <5>1, <5>2 DEF Barrier, Held
        <5>3. CASE x # w
          BY Zenon, <1>9, <2>1, <5>3 DEF Barrier, Held
        <5> QED
          BY Zenon, <5>2, <5>3
      <4>2. x # w => slots[s].in_flight - 1 = 0
        BY <1>4, <1>5, <1>7, <1>9
      <4> QED
        BY <1>4, <1>7, <3>1, <4>1, <4>2
    <3>2. CASE z # s
      BY Zenon, <1>1, <1>8, <2>1, <3>2 DEF LeaseInv, Barrier, Held
    <3> QED
      BY Zenon, <3>1, <3>2
  <2>6. ASSUME NEW k \in Launches, Leased(k)'
        PROVE  Held(launch[k].sandbox)' /\ slots'[launch'[k].sandbox].domain = launch'[k].gen /\ launch'[k].gen # 0
    <3>1. k # l /\ launch'[k] = launch[k] /\ Leased(k) /\ launch[k].sandbox \in Sandboxes
      BY Zenon, <1>1, <1>6, <2>6, Places DEF Leased
    <3>2. CASE launch[k].sandbox = s
      <4>1. k \in Leases(s)'
        BY Zenon, <2>6, <3>1, <3>2 DEF Leases, Leased
      <4>2. Cardinality(Leases(s)') # 0
        BY Zenon, <1>7, <4>1, Counting
      <4>3. x = w
        BY <1>4, <1>5, <1>7, <1>9, <4>2
      <4> QED
        BY Zenon, <1>1, <1>4, <1>5, <2>1, <3>1, <3>2, <4>3 DEF LeaseInv, Held
    <3>3. CASE launch[k].sandbox # s
      <4>1. /\ Held(launch[k].sandbox) /\ slots[launch[k].sandbox].domain = launch[k].gen
            /\ launch[k].gen # 0
        BY Zenon, <1>1, <3>1 DEF LeaseInv
      <4>2. slots'[launch[k].sandbox] = slots[launch[k].sandbox]
        BY Zenon, <2>1, <3>1, <3>3
      <4> QED
        BY Zenon, <3>1, <4>1, <4>2 DEF Held
    <3> QED
      BY Zenon, <3>2, <3>3
  <2> QED
    BY Zenon, <2>2, <2>3, <2>4, <2>5, <2>6 DEF Inv, LeaseInv
<1>10. GensKept \/ gens' # gens
  BY Zenon, <1>1 DEF TypeInv, GensKept
<1>11. CASE slots' = [slots EXCEPT ![s] = w] /\ gens' = gens
  BY Zenon, <1>5, <1>9, <1>10, <1>11
<1>12. CASE /\ w.in_flight = 0 /\ slots' = [slots EXCEPT ![s] = CleanupPending(w.temp)] /\ w.tag = "Active"
            /\ gens' = [gens EXCEPT ![w.domain].cgroup = "removed"]
  <2>1. GensKept
    <3>1. gens[w.domain].cgroup # "none"
      BY <1>1, <1>4, <1>5 DEF NumberInv, Given, Gens
    <3> QED
      BY Zenon, <1>1, <1>12, <3>1, GenChanged DEF TypeInv
  <2>2. w.temp \in Gens
    BY Zenon, <1>5, <1>12, SlotFacts
  <2>3. CleanupPending(w.temp) \in SlotType /\ CleanupPending(w.temp).tag = "CleanupPending"
    BY Zenon, <2>2, SlotValues
  <2> QED
    BY Zenon, <1>9, <1>12, <2>1, <2>3
<1>13. CASE /\ w.in_flight = 0 /\ slots' = [slots EXCEPT ![s] = Absent]
            /\ gens' = [gens EXCEPT ![w.domain].cgroup = "removed", ![w.domain].temp = FALSE]
  <2>1. GensKept
    <3>1. gens[w.domain].cgroup # "none"
      BY <1>1, <1>4, <1>5 DEF NumberInv, Given, Gens
    <3> QED
      BY Zenon, <1>1, <1>13, <3>1, GenChanged DEF TypeInv
  <2> QED
    BY Zenon, <1>9, <1>13, <2>1, SlotValues
<1> QED
  BY Zenon, <1>3, <1>4, <1>5, <1>11, <1>12, <1>13 DEF launch_finished, Retire, KeptTemp, SetSlot, Held

-----------------------------------------------------------------------------
(* The releases.                                                           *)

\* What a releaser at work has.
LEMMA ReleaseAt ==
  ASSUME TypeInv, NEW r \in Releasers, release[r].pc \in Works
  PROVE  /\ release[r] \in ReleaseType /\ release[r].sandbox \in Sandboxes
         /\ release[r].domain \in 0 .. MaxGen /\ release[r].temp \in 0 .. MaxGen
         /\ slots[release[r].sandbox] \in SlotType
  BY Zenon, ReleaseFacts DEF TypeInv

\* A step of one releaser that changes no slot and takes nothing over.
LEMMA ReleaseFrame ==
  ASSUME Inv, TypeInv', GensKept, NEW r \in Releasers, UNCHANGED <<slots, next_generation, launch>>,
         accepting' => accepting, \A q \in Releasers \ {r} : release'[q] = release[q],
         release'[r].pc # "pending",
         Tearing(r)' => Tearing(r) /\ release'[r].sandbox = release[r].sandbox
                        /\ release'[r].domain \in {0, release[r].domain},
         Working(r)' => \/ Working(r) /\ release'[r].sandbox = release[r].sandbox
                        \/ r \notin Deleters
                        \/ \A e \in Deleters \ {r} : Working(e) => release[e].sandbox # release'[r].sandbox,
         r \in Deleters => release'[r].pc \notin {"stop", "next"},
         release'[Shutdown].pc # "idle" => ~accepting' /\ "first" \in stopped'
  PROVE  Inv'
<1>1. TypeInv /\ NumberInv /\ MarkerInv /\ LeaseInv
  BY Zenon DEF Inv
<1>2. Creators' = Creators /\ Cardinality(Creators) \in Nat
  <2>1. Creators' = Creators /\ Creators \in SUBSET Launches
    BY Zenon DEF Creators
  <2> QED
    BY Zenon, <2>1, Counted
<1>3. NumberInv'
  <2>1. \A q \in Releasers : Tearing(q)' /\ release'[q].domain # 0 =>
          Tearing(q) /\ release'[q].domain = release[q].domain /\ release'[q].sandbox = release[q].sandbox
    BY Zenon DEF Tearing
  <2> QED
    BY <1>1, <1>2, <2>1, NumberFrame DEF Held, Leased
<1>4. MarkerInv'
  <2>1. \A l \in Launches : (Opening(l) <=> Opening(l)')
    BY Zenon DEF Opening
  <2>2. \A q \in Releasers : release'[q].pc = "pending" => q # r /\ release'[q] = release[q]
    OBVIOUS
  <2>3. \A q \in Releasers : Tearing(q)' => Tearing(q) /\ release'[q].sandbox = release[q].sandbox
    BY Zenon DEF Tearing
  <2>4. \A d, e \in Deleters : Working(d)' /\ Working(e)' /\ d # e => release'[d].sandbox # release'[e].sandbox
    <3> SUFFICES ASSUME NEW d \in Deleters, NEW e \in Deleters, Working(d)', Working(e)', d # e
                 PROVE  release'[d].sandbox # release'[e].sandbox
      OBVIOUS
    <3>1. d \in Releasers /\ e \in Releasers
      BY Zenon DEF Releasers
    <3>2. Working(d) /\ Working(e) => release[d].sandbox # release[e].sandbox
      BY Zenon, <1>1 DEF MarkerInv
    <3> QED
      BY <3>1, <3>2 DEF Working
  <2>5. \A d \in Deleters : release'[d].pc \notin {"stop", "next"}
    <3>1. \A d \in Deleters : d \in Releasers
      BY Zenon DEF Releasers
    <3> QED
      BY Zenon, <1>1, <3>1 DEF MarkerInv
  <2>6. /\ \A l \in Launches : Opening(l)' => /\ slots'[launch'[l].sandbox].tag = "Creating"
                                              /\ launch'[l].pc = "clean" => launch'[l].gen # 0
        /\ \A k, l \in Launches : Opening(k)' /\ Opening(l)' /\ launch'[k].sandbox = launch'[l].sandbox => k = l
    BY ZenonT(40), <1>1, <2>1 DEF MarkerInv
  <2>7. \A q \in Releasers : release'[q].pc = "pending" =>
          /\ slots'[release'[q].sandbox].tag = "Creating" /\ release'[q].temp # 0
          /\ \A l \in Launches : Opening(l)' => launch'[l].sandbox # release'[q].sandbox
          /\ \A p \in Releasers : release'[p].pc = "pending" /\ p # q => release'[p].sandbox # release'[q].sandbox
    BY <1>1, <2>1, <2>2 DEF MarkerInv
  <2>8. \A q \in Releasers : Tearing(q)' =>
          \/ slots'[release'[q].sandbox].tag = "Deleting" /\ slots'[release'[q].sandbox].in_flight = 0
          \/ slots'[release'[q].sandbox].tag = "absent" /\ ~accepting'
    BY <1>1, <2>3 DEF MarkerInv
  <2> QED
    BY Zenon, <2>4, <2>5, <2>6, <2>7, <2>8 DEF MarkerInv
<1>5. LeaseInv'
  BY Zenon, <1>1 DEF LeaseInv, Leased, Held, Barrier, Leases
<1> QED
  BY Zenon, <1>3, <1>4, <1>5 DEF Inv

\* A slot without leases may change.
LEMMA LeaseFrame ==
  ASSUME TypeInv, TypeInv', LeaseInv, NEW s \in Sandboxes, Barrier(s) = 0, launch' = launch,
         \A z \in Sandboxes \ {s} : slots'[z] = slots[z]
  PROVE  LeaseInv'
<1>1. Leases(s) = {} /\ Cardinality(Leases(s)) = 0
  <2>1. Leases(s) \in SUBSET Launches
    BY Zenon DEF Leases
  <2>2. Cardinality(Leases(s)) \in Nat /\ (Cardinality(Leases(s)) = 0 => Leases(s) = {})
    BY Zenon, <2>1, Counted
  <2> QED
    BY <2>2 DEF LeaseInv
<1>2. \A z \in Sandboxes : Leases(z)' = Leases(z)
  BY Zenon DEF Leases
<1>3. Barrier(s)' \in Nat
  BY Zenon, SlotFacts DEF TypeInv, Barrier, Held
<1>4. \A z \in Sandboxes : Cardinality(Leases(z)') <= Barrier(z)'
  BY <1>1, <1>2, <1>3 DEF LeaseInv, Barrier, Held
<1>5. \A l \in Launches : Leased(l) => launch[l].sandbox \in Sandboxes \ {s}
  BY Zenon, <1>1, Places DEF Leases, Leased
<1> QED
  BY ZenonT(40), <1>4, <1>5 DEF LeaseInv, Leased, Held

\* Steps of a release that change no slot and take nothing over.
LEMMA PlainReleaseStep ==
  ASSUME Inv, NEW r \in Releasers,
         \/ ReleaseReturn(r) \/ TeardownKill(r) \/ TeardownRemove(r) \/ TeardownTemp(r)
         \/ MarkDeleting(r) /\ slots' = slots /\ members' = members
  PROVE  Inv'
<1>1. TypeInv /\ NumberInv /\ MarkerInv /\ LeaseInv
  BY Zenon DEF Inv
<1>2. /\ release[r].pc \in Works /\ release[r].pc \notin {"idle", "stop", "next"}
      /\ UNCHANGED <<slots, next_generation, accepting, launch>>
  BY Zenon DEF ReleaseReturn, TeardownKill, TeardownRemove, TeardownTemp, MarkDeleting, Return, In, Works, Tears
<1>3. /\ release[r] \in ReleaseType /\ release[r].sandbox \in Sandboxes
      /\ release[r].domain \in 0 .. MaxGen /\ release[r].temp \in 0 .. MaxGen
  BY Zenon, <1>1, <1>2, ReleaseAt
<1>4. ASSUME NEW v \in ReleaseType, release' = [release EXCEPT ![r] = v], v.sandbox = release[r].sandbox,
             \/ v.pc \in {"ok", "err"}
             \/ v.pc \in Tears /\ Tearing(r) /\ v.domain \in {0, release[r].domain},
             GensKept, members' \in [Gens -> [Members -> {"none", "alive", "dying"}]],
             todo' = todo, first_error' \in BOOLEAN, stopped' = stopped
      PROVE  Inv'
  <2>1. /\ release' \in [Releasers -> ReleaseType] /\ release'[r] = v
        /\ \A q \in Releasers \ {r} : release'[q] = release[q]
    BY Zenon, <1>1, <1>4 DEF TypeInv
  <2>2. TypeInv'
    BY Zenon, <1>1, <1>2, <1>4, <2>1 DEF TypeInv, GensKept
  <2>3. Shutdown \in Releasers /\ (release'[Shutdown].pc # "idle" => release[Shutdown].pc # "idle")
    BY Zenon, <1>2, <2>1 DEF Releasers
  <2>4. /\ Tearing(r)' => Tearing(r) /\ release'[r].sandbox = release[r].sandbox
                          /\ release'[r].domain \in {0, release[r].domain}
        /\ Working(r)' => Working(r) /\ release'[r].sandbox = release[r].sandbox
        /\ release'[r].pc \notin {"pending", "stop", "next"}
    BY Zenon, <1>2, <1>4, <2>1 DEF Tearing, Working, Works, Tears
  <2> QED
    BY Zenon, <1>1, <1>2, <1>4, <2>1, <2>2, <2>3, <2>4, ReleaseFrame DEF MarkerInv
<1>5. GensKept \/ gens' # gens
  BY Zenon, <1>1 DEF TypeInv, GensKept
<1>6. members \in [Gens -> [Members -> {"none", "alive", "dying"}]] /\ first_error \in BOOLEAN
  BY Zenon, <1>1 DEF TypeInv
<1>7. ASSUME NEW p \in {"ok", "err"}, Return(r, p), UNCHANGED <<gens, members>> PROVE Inv'
  <2>0. PICK v : v = [pc |-> p, sandbox |-> release[r].sandbox]
    BY Zenon
  <2>1. v \in ReleaseType /\ v.pc = p /\ v.sandbox = release[r].sandbox
    <3>1. PICK x \in Sandboxes : x = release[r].sandbox
      BY Zenon, <1>3
    <3>2. v = [pc |-> p, sandbox |-> x]
      BY Zenon, <2>0, <3>1
    <3>3. v \in ReleaseType /\ v.pc = p /\ v.sandbox = x
      BY Zenon, <3>2, ReturnValue
    <3> QED
      BY Zenon, <3>1, <3>3
  <2>2. release' = [release EXCEPT ![r] = v] /\ todo' = todo /\ stopped' = stopped /\ first_error' \in BOOLEAN
    BY Zenon, <1>6, <1>7, <2>0 DEF Return, GoRelease
  <2> QED
    BY Zenon, <1>4, <1>5, <1>6, <1>7, <2>1, <2>2
<1>8. CASE ReleaseReturn(r) \/ (MarkDeleting(r) /\ slots' = slots /\ members' = members)
  <2>1. CASE ReleaseReturn(r)
    BY Zenon, <1>7, <2>1 DEF ReleaseReturn
  <2>2. CASE MarkDeleting(r) /\ slots' = slots /\ members' = members
    <3>1. release[r].sandbox \in Sandboxes /\ slots[release[r].sandbox].tag = "Active"
      BY Zenon, <1>3, <2>2 DEF MarkDeleting
    <3>2. \A n, d, t : Deleting(n, d, t).tag = "Deleting"
      BY Zenon DEF Deleting
    <3>3. ~SetSlot(release[r].sandbox, Deleting(slots[release[r].sandbox].in_flight,
                   slots[release[r].sandbox].domain, slots[release[r].sandbox].temp))
      BY <1>1, <2>2, <3>1, <3>2 DEF SetSlot, TypeInv
    <3>4. Return(r, "err") /\ UNCHANGED gens
      BY Zenon, <2>2, <3>3 DEF MarkDeleting
    <3> QED
      BY Zenon, <1>7, <2>2, <3>4
  <2> QED
    BY Zenon, <1>8, <2>1, <2>2
<1>9. CASE TeardownKill(r)
  <2>1. PICK p \in {"empty", "restore"} : release' = [release EXCEPT ![r] = [release[r] EXCEPT !.pc = p]]
    BY Zenon, <1>9 DEF TeardownKill, GoRelease
  <2> DEFINE v == [release[r] EXCEPT !.pc = p]
  <2>2. v \in ReleaseType /\ v.pc = p /\ v.sandbox = release[r].sandbox /\ v.domain = release[r].domain
    <3>1. p \in Works
      BY Zenon DEF Works, Tears
    <3> QED
      BY Zenon, <1>2, <1>3, <3>1 DEF ReleaseType, Works, Tears
  <2>3. release' = [release EXCEPT ![r] = v]
    BY Zenon, <2>1
  <2> HIDE DEF v
  <2>4. members' \in [Gens -> [Members -> {"none", "alive", "dying"}]]
    BY <1>6, <1>9 DEF TeardownKill, kill_all
  <2>5. Tearing(r) /\ UNCHANGED <<gens, todo, first_error, stopped>> /\ p \in Tears
    BY Zenon, <1>9 DEF TeardownKill, shutdownVars, In, Tearing, Tears
  <2> QED
    BY Zenon, <1>4, <1>5, <1>6, <2>2, <2>3, <2>4, <2>5
<1>10. CASE TeardownRemove(r)
  <2>1. /\ release[r].pc = "empty" /\ Tearing(r) /\ UNCHANGED <<members, todo, first_error, stopped>>
    BY Zenon, <1>10 DEF TeardownRemove, shutdownVars, In, Tearing, Tears
  <2>2. CASE /\ gens' = [gens EXCEPT ![release[r].domain].cgroup = "removed"]
             /\ release' = [release EXCEPT ![r] = [release[r] EXCEPT !.pc = "temp", !.domain = 0]]
    <3>1. release[r].domain \in Gens => gens[release[r].domain].cgroup # "none"
      BY <1>1, <2>1, RegistryAssumption DEF NumberInv, Given, Gens, RegistryAssumption
    <3>2. GensKept
      BY Zenon, <1>1, <2>2, <3>1, GenChanged DEF TypeInv
    <3> DEFINE v == [release[r] EXCEPT !.pc = "temp", !.domain = 0]
    <3>3. v \in ReleaseType /\ v.pc = "temp" /\ v.sandbox = release[r].sandbox /\ v.domain = 0
      <4>1. "temp" \in Works /\ 0 \in 0 .. MaxGen
        BY RegistryAssumption DEF Works, Tears, RegistryAssumption
      <4> QED
        BY Zenon, <1>2, <1>3, <4>1 DEF ReleaseType, Works, Tears
    <3>4. release' = [release EXCEPT ![r] = v]
      BY Zenon, <2>2
    <3> HIDE DEF v
    <3> QED
      BY ZenonT(40), <1>4, <1>6, <2>1, <3>2, <3>3, <3>4 DEF Tears
  <2>3. CASE gens' = gens /\ release' = [release EXCEPT ![r] = [release[r] EXCEPT !.pc = "restore"]]
    <3> DEFINE v == [release[r] EXCEPT !.pc = "restore"]
    <3>1. v \in ReleaseType /\ v.pc = "restore" /\ v.sandbox = release[r].sandbox /\ v.domain = release[r].domain
      <4>1. "restore" \in Works
        BY Zenon DEF Works, Tears
      <4> QED
        BY Zenon, <1>2, <1>3, <4>1 DEF ReleaseType, Works, Tears
    <3>2. release' = [release EXCEPT ![r] = v]
      BY Zenon, <2>3
    <3> HIDE DEF v
    <3> QED
      BY Zenon, <1>4, <1>5, <1>6, <2>1, <2>3, <3>1, <3>2 DEF Tears
  <2> QED
    BY Zenon, <1>10, <2>2, <2>3 DEF TeardownRemove, GoRelease
<1>11. CASE TeardownTemp(r)
  <2>1. /\ release[r].pc = "temp" /\ Tearing(r) /\ UNCHANGED <<members, todo, first_error, stopped>>
    BY Zenon, <1>11 DEF TeardownTemp, shutdownVars, In, Tearing, Tears
  <2>2. GensKept
    <3>1. gens' = gens \/ gens' = [gens EXCEPT ![release[r].temp].temp = FALSE]
      BY Zenon, <1>11 DEF TeardownTemp
    <3> QED
      BY Zenon, <1>1, <1>5, <3>1, GenChanged DEF TypeInv
  <2>3. PICK v : /\ v \in ReleaseType /\ v.pc \in {"remove", "restore"} /\ v.sandbox = release[r].sandbox
                 /\ v.domain = release[r].domain /\ release' = [release EXCEPT ![r] = v]
    <3> DEFINE a == [release[r] EXCEPT !.pc = "remove", !.temp = 0]
               b == [release[r] EXCEPT !.pc = "restore"]
    <3>1. "remove" \in Works /\ "restore" \in Works /\ 0 \in 0 .. MaxGen
      BY RegistryAssumption DEF Works, Tears, RegistryAssumption
    <3>2. a \in ReleaseType /\ a.pc = "remove" /\ a.sandbox = release[r].sandbox /\ a.domain = release[r].domain
      BY Zenon, <1>2, <1>3, <3>1 DEF ReleaseType, Works, Tears
    <3>3. b \in ReleaseType /\ b.pc = "restore" /\ b.sandbox = release[r].sandbox /\ b.domain = release[r].domain
      BY Zenon, <1>2, <1>3, <3>1 DEF ReleaseType, Works, Tears
    <3>4. release' = [release EXCEPT ![r] = a] \/ release' = [release EXCEPT ![r] = b]
      BY Zenon, <1>11 DEF TeardownTemp, GoRelease
    <3> HIDE DEF a, b
    <3> QED
      BY Zenon, <3>2, <3>3, <3>4
  <2> QED
    BY Zenon, <1>4, <1>6, <2>1, <2>2, <2>3 DEF Tears
<1> QED
  BY Zenon, <1>8, <1>9, <1>10, <1>11

\* A releaser changes the slot it works on, which counts no lease.
LEMMA SlotFrame ==
  ASSUME Inv, TypeInv', GensKept, NEW r \in Releasers, NEW s \in Sandboxes, s = release[r].sandbox, Working(r),
         UNCHANGED <<next_generation, accepting, launch, stopped>>, Barrier(s) = 0,
         \A q \in Releasers \ {r} : release'[q] = release[q],
         \A z \in Sandboxes \ {s} : slots'[z] = slots[z],
         \A l \in Launches : Opening(l) => launch[l].sandbox # s,
         \A q \in Releasers \ {r} : release[q].pc = "pending" => release[q].sandbox # s,
         \A q \in Releasers \ {r} : Tearing(q) /\ release[q].sandbox = s =>
           \/ slots'[s].tag = "Deleting" /\ slots'[s].in_flight = 0
           \/ slots'[s].tag = "absent" /\ ~accepting,
         release'[r].pc \in {"ok", "err"} \cup Works, release'[r].sandbox = s,
         release'[r].pc = "pending" => slots'[s].tag = "Creating" /\ release'[r].temp # 0,
         Tearing(r)' => slots'[s].tag = "Deleting" /\ slots'[s].in_flight = 0,
         Held(s)' /\ slots'[s].domain # 0 => slots'[s].domain \in Gens /\ Given(slots'[s].domain, s),
         Tearing(r)' /\ release'[r].domain # 0 => release'[r].domain \in Gens /\ Given(release'[r].domain, s)
  PROVE  Inv'
<1>1. TypeInv /\ NumberInv /\ MarkerInv /\ LeaseInv
  BY Zenon DEF Inv
<1>2. Creators' = Creators /\ Cardinality(Creators) \in Nat
  <2>1. Creators' = Creators /\ Creators \in SUBSET Launches
    BY Zenon DEF Creators
  <2> QED
    BY Zenon, <2>1, Counted
<1>3. NumberInv'
  <2>1. \A g \in Gens : \A z : Given(g, z) => Given(g, z)' /\ gens'[g].identity = gens[g].identity
    BY Zenon DEF Given, GensKept
  <2>2. \A g \in 0 .. MaxGen : g # 0 => g \in Gens
    BY Zenon, GenIn
  <2>3. \A z \in Sandboxes : Held(z)' /\ slots'[z].domain # 0 => Given(slots[z].domain, z)'
    <3> SUFFICES ASSUME NEW z \in Sandboxes, Held(z)', slots'[z].domain # 0 PROVE Given(slots[z].domain, z)'
      OBVIOUS
    <3>1. CASE z = s
      BY Zenon, <2>1, <3>1
    <3>2. CASE z # s
      <4>1. slots'[z] = slots[z] /\ Held(z)
        BY Zenon, <3>2 DEF Held
      <4>2. slots[z].domain \in 0 .. MaxGen /\ slots[z].domain # 0
        BY Zenon, <1>1, <4>1, SlotFacts DEF TypeInv, Held
      <4>3. Given(slots[z].domain, z)
        BY Zenon, <1>1, <4>1, <4>2 DEF NumberInv
      <4> QED
        BY Zenon, <2>1, <2>2, <4>1, <4>2, <4>3
    <3> QED
      BY ZenonT(40), <3>1, <3>2
  <2>4. \A q \in Releasers : Tearing(q)' /\ release'[q].domain # 0 =>
          Given(release[q].domain, release[q].sandbox)'
    <3> SUFFICES ASSUME NEW q \in Releasers, Tearing(q)', release'[q].domain # 0
                 PROVE  Given(release[q].domain, release[q].sandbox)'
      OBVIOUS
    <3>1. CASE q = r
      BY Zenon, <2>1, <3>1
    <3>2. CASE q # r
      <4>1. release'[q] = release[q] /\ Tearing(q)
        BY Zenon, <3>2 DEF Tearing
      <4>2. release[q].domain \in 0 .. MaxGen /\ release[q].domain # 0
        BY Zenon, <1>1, <4>1, ReleaseFacts DEF TypeInv, Tearing, Works
      <4>3. Given(release[q].domain, release[q].sandbox)
        BY Zenon, <1>1, <4>1, <4>2 DEF NumberInv
      <4> QED
        BY Zenon, <2>1, <2>2, <4>1, <4>2, <4>3
    <3> QED
      BY ZenonT(40), <3>1, <3>2
  <2>5. \A l \in Launches : (Leased(l) \/ launch[l].pc = "publish") /\ launch[l].gen # 0 =>
          Given(launch[l].gen, launch[l].sandbox)' /\ gens'[launch[l].gen].identity = launch[l].identity
    <3>1. \A l \in Launches : Leased(l) \/ launch[l].pc = "publish" => launch[l].gen \in 0 .. MaxGen
      BY Zenon, <1>1, LaunchFacts DEF TypeInv, Leased
    <3> QED
      BY Zenon, <1>1, <2>1, <2>2, <3>1 DEF NumberInv
  <2> QED
    BY Zenon, <1>1, <1>2, <2>3, <2>4, <2>5 DEF NumberInv, Leased, GensKept
<1>4. MarkerInv'
  <2>1. \A l \in Launches : (Opening(l)' <=> Opening(l)) /\ (Opening(l) => launch[l].sandbox \in Sandboxes \ {s})
    BY Zenon, <1>1, Places DEF Opening, Opens
  <2>2. \A q \in Releasers \ {r} : release[q].pc \in Works => release[q].sandbox \in Sandboxes
    BY Zenon, <1>1, Places
  <2>3. \A q \in Releasers : release'[q].pc = "pending" =>
          /\ slots'[release'[q].sandbox].tag = "Creating" /\ release'[q].temp # 0
          /\ \A l \in Launches : Opening(l)' => launch'[l].sandbox # release'[q].sandbox
          /\ \A p \in Releasers : release'[p].pc = "pending" /\ p # q => release'[p].sandbox # release'[q].sandbox
    <3> SUFFICES ASSUME NEW q \in Releasers, release'[q].pc = "pending"
                 PROVE  /\ slots'[release'[q].sandbox].tag = "Creating" /\ release'[q].temp # 0
                        /\ \A l \in Launches : Opening(l)' => launch'[l].sandbox # release'[q].sandbox
                        /\ \A p \in Releasers : release'[p].pc = "pending" /\ p # q =>
                             release'[p].sandbox # release'[q].sandbox
      OBVIOUS
    <3>1. CASE q = r
      BY Zenon, <2>1, <3>1
    <3>2. CASE q # r
      <4>1. release'[q] = release[q] /\ release[q].pc = "pending" /\ release[q].sandbox # s
        BY Zenon, <3>2
      <4>2. slots'[release[q].sandbox] = slots[release[q].sandbox]
        BY Zenon, <2>2, <3>2, <4>1 DEF Works
      <4>3. /\ slots[release[q].sandbox].tag = "Creating" /\ release[q].temp # 0
            /\ \A l \in Launches : Opening(l) => launch[l].sandbox # release[q].sandbox
            /\ \A p \in Releasers : release[p].pc = "pending" /\ p # q => release[p].sandbox # release[q].sandbox
        BY Zenon, <1>1, <4>1 DEF MarkerInv
      <4> QED
        BY Zenon, <2>1, <4>1, <4>2, <4>3
    <3> QED
      BY ZenonT(40), <3>1, <3>2
  <2>4. \A q \in Releasers : Tearing(q)' =>
          \/ slots'[release'[q].sandbox].tag = "Deleting" /\ slots'[release'[q].sandbox].in_flight = 0
          \/ slots'[release'[q].sandbox].tag = "absent" /\ ~accepting'
    <3> SUFFICES ASSUME NEW q \in Releasers, Tearing(q)'
                 PROVE  \/ slots'[release'[q].sandbox].tag = "Deleting" /\ slots'[release'[q].sandbox].in_flight = 0
                        \/ slots'[release'[q].sandbox].tag = "absent" /\ ~accepting'
      OBVIOUS
    <3>1. CASE q = r
      BY Zenon, <3>1
    <3>2. CASE q # r
      <4>1. release'[q] = release[q] /\ Tearing(q)
        BY Zenon, <3>2 DEF Tearing
      <4>2. release[q].sandbox # s => slots'[release[q].sandbox] = slots[release[q].sandbox]
        BY Zenon, <2>2, <3>2, <4>1 DEF Tearing, Works
      <4>3. \/ slots[release[q].sandbox].tag = "Deleting" /\ slots[release[q].sandbox].in_flight = 0
            \/ slots[release[q].sandbox].tag = "absent" /\ ~accepting
        BY Zenon, <1>1, <4>1 DEF MarkerInv
      <4>4. CASE release[q].sandbox = s
        BY Zenon, <3>2, <4>1, <4>4
      <4>5. CASE release[q].sandbox # s
        BY Zenon, <4>1, <4>2, <4>3, <4>5
      <4> QED
        BY Zenon, <4>4, <4>5
    <3> QED
      BY ZenonT(40), <3>1, <3>2
  <2>5. \A d, e \in Deleters : Working(d)' /\ Working(e)' /\ d # e => release'[d].sandbox # release'[e].sandbox
    <3>1. \A d \in Deleters : Working(d)' => Working(d) /\ release'[d].sandbox = release[d].sandbox
      BY Zenon DEF Releasers, Working
    <3>2. \A d, e \in Deleters : Working(d) /\ Working(e) /\ d # e => release[d].sandbox # release[e].sandbox
      BY Zenon, <1>1 DEF MarkerInv
    <3> SUFFICES ASSUME NEW d \in Deleters, NEW e \in Deleters, Working(d)', Working(e)', d # e
                 PROVE  release'[d].sandbox # release'[e].sandbox
      BY Zenon
    <3>3. release[d].sandbox # release[e].sandbox
      BY Zenon, <3>1, <3>2
    <3> QED
      BY Zenon, <3>1, <3>3
  <2>6. \A d \in Deleters : release'[d].pc \notin {"stop", "next"}
    BY Zenon, <1>1 DEF MarkerInv, Releasers, Works, Tears
  <2>7. release'[Shutdown].pc # "idle" => release[Shutdown].pc # "idle"
    BY ZenonT(40) DEF Releasers, Working, Works, Tears
  <2>8. /\ \A l \in Launches : Opening(l)' => /\ slots'[launch'[l].sandbox].tag = "Creating"
                                              /\ launch'[l].pc = "clean" => launch'[l].gen # 0
        /\ \A k, l \in Launches : Opening(k)' /\ Opening(l)' /\ launch'[k].sandbox = launch'[l].sandbox => k = l
    <3>1. /\ \A l \in Launches : Opening(l) => /\ slots[launch[l].sandbox].tag = "Creating"
                                               /\ launch[l].pc = "clean" => launch[l].gen # 0
          /\ \A k, l \in Launches : Opening(k) /\ Opening(l) /\ launch[k].sandbox = launch[l].sandbox => k = l
      BY ZenonT(40), <1>1 DEF MarkerInv
    <3>2. launch' = launch
      OBVIOUS
    <3>3. \A l \in Launches : Opening(l) => slots'[launch[l].sandbox] = slots[launch[l].sandbox]
      BY Zenon, <2>1
    <3>4. ASSUME NEW l \in Launches, Opening(l)'
          PROVE  slots'[launch'[l].sandbox].tag = "Creating" /\ (launch'[l].pc = "clean" => launch'[l].gen # 0)
      <4>1. Opening(l) /\ launch'[l] = launch[l]
        BY Zenon, <2>1, <3>2, <3>4
      <4> QED
        BY Zenon, <3>1, <3>3, <4>1
    <3>5. ASSUME NEW k \in Launches, NEW l \in Launches, Opening(k)', Opening(l)',
                 launch'[k].sandbox = launch'[l].sandbox
          PROVE  k = l
      <4>1. Opening(k) /\ Opening(l) /\ launch[k].sandbox = launch[l].sandbox
        BY Zenon, <2>1, <3>2, <3>5
      <4> QED
        BY Zenon, <3>1, <4>1
    <3> QED
      BY Zenon, <3>4, <3>5
  <2>9. release'[Shutdown].pc # "idle" => ~accepting' /\ "first" \in stopped'
    BY Zenon, <1>1, <2>7 DEF MarkerInv
  <2> QED
    BY Zenon, <2>3, <2>4, <2>5, <2>6, <2>8, <2>9 DEF MarkerInv
<1>5. LeaseInv'
  BY Zenon, <1>1, LeaseFrame
<1> QED
  BY Zenon, <1>3, <1>4, <1>5 DEF Inv

\* Active slots are marked Deleting, by a release or by the shutdown.
LEMMA MarkFrame ==
  ASSUME Inv, TypeInv', UNCHANGED <<next_generation, accepting, gens, launch>>,
         \A s \in Sandboxes :
           \/ slots'[s] = slots[s]
           \/ /\ slots[s].tag = "Active" /\ slots'[s].tag = "Deleting"
              /\ slots'[s].in_flight = slots[s].in_flight /\ slots'[s].domain = slots[s].domain,
         \A r \in Releasers :
           \/ release'[r] = release[r]
           \/ r = Shutdown /\ release[r].pc = "stop" /\ release'[r].pc = "next",
         stopped \subseteq stopped'
  PROVE  Inv'
<1>1. TypeInv /\ NumberInv /\ MarkerInv /\ LeaseInv
  BY Zenon DEF Inv
<1>2. Creators' = Creators /\ Cardinality(Creators) \in Nat
  <2>1. Creators' = Creators /\ Creators \in SUBSET Launches
    BY Zenon DEF Creators
  <2> QED
    BY Zenon, <2>1, Counted
<1>3. \A s \in Sandboxes : (Held(s)' <=> Held(s)) /\ (Held(s) => slots'[s].domain = slots[s].domain)
  BY Zenon DEF Held
<1>4. \A s \in Sandboxes : (slots'[s].tag = "Creating" <=> slots[s].tag = "Creating")
  OBVIOUS
<1>5. \A r \in Releasers : Tearing(r)' \/ release'[r].pc = "pending" \/ Working(r)' => release'[r] = release[r]
  BY Zenon DEF Tearing, Working, Works, Tears
<1>6. NumberInv'
  <2>1. GensKept
    BY Zenon, <1>1 DEF TypeInv, GensKept
  <2> QED
    BY <1>1, <1>2, <1>3, <1>5, <2>1, NumberFrame DEF Leased, Tearing
<1>7. MarkerInv'
  <2>1. \A l \in Launches : (Opening(l)' <=> Opening(l)) /\ (Opening(l) => launch[l].sandbox \in Sandboxes)
    BY Zenon, <1>1, Places DEF Opening, Opens
  <2>2. \A r \in Releasers : release[r].pc = "pending" \/ Tearing(r) => release[r].sandbox \in Sandboxes
    BY ZenonT(40), <1>1, Places DEF Tearing, Works
  <2>3. \A r \in Releasers : release'[r].pc = "pending" =>
          /\ slots'[release'[r].sandbox].tag = "Creating" /\ release'[r].temp # 0
          /\ \A l \in Launches : Opening(l)' => launch'[l].sandbox # release'[r].sandbox
          /\ \A q \in Releasers : release'[q].pc = "pending" /\ q # r => release'[q].sandbox # release'[r].sandbox
    BY <1>1, <1>4, <1>5, <2>1, <2>2 DEF MarkerInv
  <2>4. \A r \in Releasers : Tearing(r)' =>
          \/ slots'[release'[r].sandbox].tag = "Deleting" /\ slots'[release'[r].sandbox].in_flight = 0
          \/ slots'[release'[r].sandbox].tag = "absent" /\ ~accepting'
    <3>1. ASSUME NEW r \in Releasers, Tearing(r)'
          PROVE  slots'[release'[r].sandbox] = slots[release[r].sandbox] /\ release'[r] = release[r] /\ Tearing(r)
      <4>1. release'[r] = release[r] /\ Tearing(r)
        BY Zenon, <1>5, <3>1 DEF Tearing
      <4>2. slots[release[r].sandbox].tag # "Active"
        BY Zenon, <1>1, <4>1 DEF MarkerInv
      <4> QED
        BY Zenon, <2>2, <4>1, <4>2
    <3>2. \A r \in Releasers : Tearing(r) =>
            \/ slots[release[r].sandbox].tag = "Deleting" /\ slots[release[r].sandbox].in_flight = 0
            \/ slots[release[r].sandbox].tag = "absent" /\ ~accepting
      BY Zenon, <1>1 DEF MarkerInv
    <3> QED
      BY <3>1, <3>2
  <2>5. \A d, e \in Deleters : Working(d)' /\ Working(e)' /\ d # e => release'[d].sandbox # release'[e].sandbox
    <3>1. \A d \in Deleters : Working(d)' => Working(d) /\ release'[d].sandbox = release[d].sandbox
      BY Zenon, <1>5 DEF Releasers, Working
    <3>2. \A d, e \in Deleters : Working(d) /\ Working(e) /\ d # e => release[d].sandbox # release[e].sandbox
      BY Zenon, <1>1 DEF MarkerInv
    <3> QED
      BY <3>1, <3>2
  <2>6. \A d \in Deleters : release'[d].pc \notin {"stop", "next"}
    BY ZenonT(40), <1>1, RegistryAssumption DEF MarkerInv, Releasers, RegistryAssumption
  <2>7. release'[Shutdown].pc # "idle" => ~accepting' /\ "first" \in stopped'
    BY <1>1 DEF MarkerInv, Releasers
  <2> QED
    BY Zenon, <1>1, <1>4, <2>1, <2>3, <2>4, <2>5, <2>6, <2>7 DEF MarkerInv
<1>8. LeaseInv'
  <2>1. \A s \in Sandboxes : Leases(s)' = Leases(s) /\ Barrier(s)' = Barrier(s)
    BY Zenon, <1>3 DEF Leases, Barrier, Held
  <2> QED
    BY Zenon, <1>1, <1>3, <2>1, Places DEF LeaseInv, Leased
<1> QED
  BY Zenon, <1>6, <1>7, <1>8 DEF Inv

\* A delete begins, the daemon is told to stop, the shutdown turns to its
\* next sandbox.
LEMMA CallStep ==
  ASSUME Inv, (\E d \in Deleters : DeleteBegin(d)) \/ StopAccepting \/ ShutdownNext
  PROVE  Inv'
<1>1. TypeInv /\ NumberInv /\ MarkerInv /\ LeaseInv
  BY Zenon DEF Inv
<1>2. UNCHANGED <<slots, next_generation, gens, members, launch>> /\ GensKept
  BY Zenon, <1>1 DEF DeleteBegin, StopAccepting, ShutdownNext, TypeInv, GensKept
<1>3. ASSUME NEW r \in Releasers, NEW v \in ReleaseType, release' = [release EXCEPT ![r] = v],
             v.pc \in {"stop", "wait"}, r \in Deleters => v.pc # "stop",
             v.pc = "wait" => \/ r \notin Deleters
                              \/ \A e \in Deleters \ {r} : Working(e) => release[e].sandbox # v.sandbox,
             accepting' \in BOOLEAN, accepting' => accepting, first_error' = first_error,
             todo' \subseteq Sandboxes, stopped' \subseteq Signals, stopped \subseteq stopped',
             r = Shutdown => ~accepting' /\ "first" \in stopped'
      PROVE  Inv'
  <2>1. /\ release' \in [Releasers -> ReleaseType] /\ release'[r] = v
        /\ \A q \in Releasers \ {r} : release'[q] = release[q]
    BY Zenon, <1>1, <1>3 DEF TypeInv
  <2>2. TypeInv'
    BY Zenon, <1>1, <1>2, <1>3, <2>1 DEF TypeInv
  <2>3. /\ ~Tearing(r)' /\ release'[r].pc # "pending" /\ release'[r].pc # "next"
        /\ Working(r)' => v.pc = "wait"
    BY Zenon, <1>3, <2>1 DEF Tearing, Working, Works, Tears
  <2>4. release'[Shutdown].pc # "idle" => ~accepting' /\ "first" \in stopped'
    BY Zenon, <1>1, <1>3, <2>1 DEF MarkerInv, Releasers
  <2> QED
    BY Zenon, <1>2, <1>3, <2>1, <2>2, <2>3, <2>4, ReleaseFrame
<1>4. CASE \E d \in Deleters : DeleteBegin(d)
  <2>1. PICK d \in Deleters, s \in Sandboxes :
          /\ \A e \in Deleters : ~Idle(e) => release[e].sandbox # s
          /\ release' = [release EXCEPT ![d] = Call(s)]
          /\ UNCHANGED <<accepting, todo, first_error, stopped>>
    BY Zenon, <1>4 DEF DeleteBegin, GoRelease, shutdownVars
  <2>2. d \in Releasers /\ d # Shutdown
    BY Zenon, RegistryAssumption DEF Releasers, RegistryAssumption
  <2>3. \A e \in Deleters : Working(e) => release[e].sandbox # s
    BY Zenon, <2>1 DEF Idle, Working, Works, Tears
  <2> DEFINE v == Call(s)
  <2>4. v \in ReleaseType /\ v.pc = "wait" /\ v.sandbox = s /\ release' = [release EXCEPT ![d] = v]
    BY Zenon, <2>1, ReleaseValues
  <2> HIDE DEF v
  <2> QED
    BY Zenon, <1>1, <1>3, <2>1, <2>2, <2>3, <2>4 DEF TypeInv
<1>5. CASE StopAccepting
  <2>1. /\ release' = [release EXCEPT ![Shutdown] = [pc |-> "stop"]] /\ accepting' = FALSE
        /\ stopped' = stopped \cup {"first"} /\ "first" \in Signals /\ UNCHANGED <<todo, first_error>>
    BY Zenon, <1>5 DEF StopAccepting, GoRelease
  <2>2. [pc |-> "stop"] \in ReleaseType /\ [pc |-> "stop"].pc = "stop" /\ Shutdown \in Releasers
    BY Zenon, ReleaseValues DEF Releasers
  <2>3. Shutdown \notin Deleters
    BY Zenon, RegistryAssumption DEF RegistryAssumption
  <2> QED
    BY Zenon, <1>1, <1>3, <2>1, <2>2, <2>3 DEF TypeInv
<1>6. CASE ShutdownNext
  <2>1. PICK s \in todo :
          /\ todo' = todo \ {s} /\ release' = [release EXCEPT ![Shutdown] = Call(s)]
          /\ release[Shutdown].pc # "idle" /\ UNCHANGED <<accepting, first_error, stopped>>
    BY Zenon, <1>6 DEF ShutdownNext, GoRelease
  <2>2. s \in Sandboxes /\ Shutdown \in Releasers /\ Shutdown \notin Deleters
    BY Zenon, <1>1, RegistryAssumption DEF TypeInv, Releasers, RegistryAssumption
  <2> DEFINE v == Call(s)
  <2>3. v \in ReleaseType /\ v.pc = "wait" /\ release' = [release EXCEPT ![Shutdown] = v]
    BY Zenon, <2>1, <2>2, ReleaseValues
  <2> HIDE DEF v
  <2> QED
    BY ZenonT(40), <1>1, <1>3, <2>1, <2>2, <2>3 DEF TypeInv, MarkerInv
<1> QED
  BY Zenon, <1>4, <1>5, <1>6

\* A release, the snapshot of the shutdown or a second signal mark slots.
LEMMA MarkStep ==
  ASSUME Inv, (\E r \in Releasers : MarkDeleting(r)) \/ ShutdownSnapshot \/ ForceShutdown
  PROVE  Inv'
<1>1. TypeInv /\ NumberInv /\ MarkerInv /\ LeaseInv
  BY Zenon DEF Inv
<1>2. UNCHANGED <<next_generation, accepting, gens, launch>>
  BY Zenon DEF MarkDeleting, ShutdownSnapshot, ForceShutdown
<1>3. ASSUME NEW s \in Sandboxes, slots[s].tag = "Active", NEW w,
             w = Deleting(slots[s].in_flight, slots[s].domain, slots[s].temp)
      PROVE  /\ w \in SlotType /\ w.tag = "Deleting" /\ w.in_flight = slots[s].in_flight
             /\ w.domain = slots[s].domain
  <2>1. slots[s].in_flight \in Nat /\ slots[s].domain \in 0 .. MaxGen /\ slots[s].temp \in 0 .. MaxGen
    BY Zenon, <1>1, <1>3, SlotFacts DEF TypeInv
  <2> QED
    BY <1>3, <2>1, SlotValues
<1>4. ASSUME NEW K, MarkAllDeleting(K)
      PROVE  /\ slots' \in [Sandboxes -> SlotType]
             /\ members' \in [Gens -> [Members -> {"none", "alive", "dying"}]]
             /\ \A s \in Sandboxes :
                  \/ slots'[s] = slots[s]
                  \/ /\ slots[s].tag = "Active" /\ slots'[s].tag = "Deleting"
                     /\ slots'[s].in_flight = slots[s].in_flight /\ slots'[s].domain = slots[s].domain
  <2>1. members' \in [Gens -> [Members -> {"none", "alive", "dying"}]]
    <3>1. \A g \in Gens : kill_all(g)[g] \in [Members -> {"none", "alive", "dying"}]
      BY Zenon, <1>1 DEF TypeInv, kill_all
    <3>2. members' = [g \in Gens |-> IF \E s \in K : slots[s].domain = g THEN kill_all(g)[g] ELSE members[g]]
      BY Zenon, <1>4 DEF MarkAllDeleting
    <3> QED
      BY Zenon, <1>1, <3>1, <3>2 DEF TypeInv
  <2>2. \A s \in Sandboxes :
          \/ slots'[s] = slots[s]
          \/ slots[s].tag = "Active" /\ slots'[s] = Deleting(slots[s].in_flight, slots[s].domain, slots[s].temp)
    BY Zenon, <1>4 DEF MarkAllDeleting, Live
  <2>3. \A s \in Sandboxes : slots[s] \in SlotType
    BY Zenon, <1>1 DEF TypeInv
  <2>4. slots' = [s \in Sandboxes |-> slots'[s]]
    BY Zenon, <1>4 DEF MarkAllDeleting
  <2>5. \A s \in Sandboxes :
          /\ slots'[s] \in SlotType
          /\ \/ slots'[s] = slots[s]
             \/ /\ slots[s].tag = "Active" /\ slots'[s].tag = "Deleting"
                /\ slots'[s].in_flight = slots[s].in_flight /\ slots'[s].domain = slots[s].domain
    BY ZenonT(40), <1>3, <2>2, <2>3
  <2> QED
    BY Zenon, <2>1, <2>4, <2>5
<1>5. CASE \E r \in Releasers : MarkDeleting(r)
  <2>1. PICK r \in Releasers : MarkDeleting(r)
    BY Zenon, <1>5
  <2>2. PICK s \in Sandboxes : s = release[r].sandbox /\ slots[s].tag = "Active"
    BY Zenon, <1>1, <2>1, ReleaseAt DEF MarkDeleting, In, Works
  <2>3. CASE slots' = slots /\ members' = members
    BY Zenon, <2>1, <2>3, PlainReleaseStep
  <2>4. CASE /\ members' = kill_all(slots[s].domain) /\ UNCHANGED <<release, todo, first_error, stopped>>
             /\ slots' = [slots EXCEPT ![s] = Deleting(slots[s].in_flight, slots[s].domain, slots[s].temp)]
    <3> DEFINE w == Deleting(slots[s].in_flight, slots[s].domain, slots[s].temp)
    <3>1. /\ w \in SlotType /\ w.tag = "Deleting" /\ w.in_flight = slots[s].in_flight
          /\ w.domain = slots[s].domain
      BY Zenon, <1>3, <2>2
    <3> HIDE DEF w
    <3>2. /\ slots' \in [Sandboxes -> SlotType] /\ slots'[s] = w
          /\ \A z \in Sandboxes \ {s} : slots'[z] = slots[z]
      BY Zenon, <1>1, <2>4, <3>1 DEF TypeInv, w
    <3>3. members' \in [Gens -> [Members -> {"none", "alive", "dying"}]]
      BY Zenon, <1>1, <2>4 DEF TypeInv, kill_all
    <3>4. TypeInv'
      BY Zenon, <1>1, <1>2, <2>4, <3>2, <3>3 DEF TypeInv
    <3> QED
      BY ZenonT(40), <1>2, <2>2, <2>4, <3>1, <3>2, <3>4, MarkFrame
  <2> QED
    BY Zenon, <2>1, <2>2, <2>3, <2>4 DEF MarkDeleting, SetSlot, shutdownVars
<1>6. CASE ShutdownSnapshot
  <2>1. /\ release[Shutdown].pc = "stop" /\ todo' \subseteq Sandboxes /\ first_error' \in BOOLEAN
        /\ release' = [release EXCEPT ![Shutdown] = [pc |-> "next"]] /\ stopped' = stopped
    BY Zenon, <1>6 DEF ShutdownSnapshot, In, GoRelease, Present
  <2>2. PICK K : MarkAllDeleting(K)
    BY Zenon, <1>6 DEF ShutdownSnapshot
  <2>3. /\ release' \in [Releasers -> ReleaseType] /\ Shutdown \in Releasers /\ release'[Shutdown].pc = "next"
        /\ \A r \in Releasers \ {Shutdown} : release'[r] = release[r]
    BY Zenon, <1>1, <2>1, ReleaseValues DEF TypeInv, Releasers
  <2>4. TypeInv'
    BY Zenon, <1>1, <1>2, <1>4, <2>1, <2>2, <2>3 DEF TypeInv
  <2> QED
    BY Zenon, <1>2, <1>4, <2>1, <2>2, <2>3, <2>4, MarkFrame
<1>7. CASE ForceShutdown
  <2>1. /\ stopped' = stopped \cup {"second"} /\ "second" \in Signals
        /\ UNCHANGED <<release, todo, first_error>>
    BY Zenon, <1>7 DEF ForceShutdown
  <2>2. PICK K : MarkAllDeleting(K)
    BY Zenon, <1>7 DEF ForceShutdown
  <2>3. TypeInv'
    BY Zenon, <1>1, <1>2, <1>4, <2>1, <2>2 DEF TypeInv
  <2> QED
    BY Zenon, <1>2, <1>4, <2>1, <2>2, <2>3, MarkFrame
<1> QED
  BY Zenon, <1>5, <1>6, <1>7

\* A release that returns.
LEMMA Returned ==
  ASSUME TypeInv, NEW r \in Releasers, release[r].sandbox \in Sandboxes, NEW p \in {"ok", "err"}, Return(r, p)
  PROVE  /\ first_error' \in BOOLEAN /\ UNCHANGED <<todo, stopped>>
         /\ \E v \in ReleaseType : /\ release' = [release EXCEPT ![r] = v]
                                   /\ v.pc = p /\ v.sandbox = release[r].sandbox
<1>0. PICK v : v = [pc |-> p, sandbox |-> release[r].sandbox]
  BY Zenon
<1>1. v \in ReleaseType /\ v.pc = p /\ v.sandbox = release[r].sandbox
  <2>1. PICK x \in Sandboxes : x = release[r].sandbox
    BY Zenon
  <2>2. v = [pc |-> p, sandbox |-> x]
    BY Zenon, <1>0, <2>1
  <2>3. v \in ReleaseType /\ v.pc = p /\ v.sandbox = x
    BY Zenon, <2>2, ReturnValue
  <2> QED
    BY Zenon, <2>1, <2>3
<1>2. /\ release' = [release EXCEPT ![r] = v] /\ UNCHANGED <<todo, stopped>>
      /\ first_error' = (first_error \/ (r = Shutdown /\ p = "err"))
  BY Zenon, <1>0 DEF Return, GoRelease
<1>3. first_error' \in BOOLEAN
  BY Zenon, <1>2 DEF TypeInv
<1> QED
  BY Zenon, <1>1, <1>2, <1>3

\* The release takes the drained domain over.
LEMMA TakeOverStep == ASSUME Inv, NEW r \in Releasers, TakeOver(r) PROVE Inv'
<1>1. TypeInv /\ NumberInv /\ MarkerInv /\ LeaseInv
  BY Zenon DEF Inv
<1>2. /\ release[r].pc = "wait" /\ Working(r) /\ release[r].pc \in Works
      /\ UNCHANGED <<next_generation, accepting, gens, members, launch, todo, first_error, stopped>>
  BY Zenon DEF TakeOver, In, Working, Works, shutdownVars
<1>3. PICK s \in Sandboxes : s = release[r].sandbox /\ slots[s] \in SlotType
  BY Zenon, <1>1, <1>2, ReleaseAt
<1>4. /\ slots[s].tag = "Deleting" /\ slots[s].in_flight = 0 /\ Held(s) /\ Barrier(s) = 0
      /\ slots[s].domain \in 0 .. MaxGen /\ slots[s].temp \in 0 .. MaxGen
  BY Zenon, <1>3, SlotFacts DEF TakeOver, Drained, Held, Barrier
<1>5. PICK v \in ReleaseType : /\ release' = [release EXCEPT ![r] = v] /\ v.pc \in {"temp", "kill"}
                               /\ v.sandbox = s /\ v.domain = slots[s].domain
  <2> DEFINE p == IF slots[s].domain = 0 THEN "temp" ELSE "kill"
             v == [release[r] EXCEPT !.pc = p, !.domain = slots[s].domain, !.temp = slots[s].temp]
  <2>1. release' = [release EXCEPT ![r] = v]
    BY Zenon, <1>3 DEF TakeOver, GoRelease
  <2>2. p \in Works /\ p \in {"temp", "kill"} /\ release[r] \in ReleaseType
    BY Zenon, <1>1, <1>2, ReleaseAt DEF Works, Tears
  <2> HIDE DEF p
  <2>3. v \in ReleaseType /\ v.pc = p /\ v.sandbox = s /\ v.domain = slots[s].domain
    BY Zenon, <1>2, <1>3, <1>4, <2>2 DEF ReleaseType, Works, Tears
  <2> HIDE DEF v
  <2> QED
    BY Zenon, <2>1, <2>2, <2>3
<1>6. PICK w \in SlotType : /\ slots' = [slots EXCEPT ![s] = w] /\ w.tag = "Deleting"
                            /\ w.in_flight = 0 /\ w.domain = 0
  <2>1. Deleting(0, 0, 0) \in SlotType /\ Deleting(0, 0, 0).tag = "Deleting"
        /\ Deleting(0, 0, 0).in_flight = 0 /\ Deleting(0, 0, 0).domain = 0
    BY SlotValues, RegistryAssumption DEF RegistryAssumption
  <2>2. slots' = [slots EXCEPT ![s] = Deleting(0, 0, 0)]
    BY Zenon, <1>3 DEF TakeOver, SetSlot
  <2> QED
    BY Zenon, <2>1, <2>2
<1>7. /\ release' \in [Releasers -> ReleaseType] /\ slots' \in [Sandboxes -> SlotType]
      /\ release'[r] = v /\ \A q \in Releasers \ {r} : release'[q] = release[q]
      /\ slots'[s] = w /\ \A z \in Sandboxes \ {s} : slots'[z] = slots[z]
  BY Zenon, <1>1, <1>5, <1>6 DEF TypeInv
<1>8. TypeInv' /\ GensKept
  BY Zenon, <1>1, <1>2, <1>7 DEF TypeInv, GensKept
<1>9. /\ \A l \in Launches : Opening(l) => launch[l].sandbox # s
      /\ \A q \in Releasers \ {r} : release[q].pc = "pending" => release[q].sandbox # s
  BY Zenon, <1>1, <1>4 DEF MarkerInv
<1>10. slots[s].domain # 0 => slots[s].domain \in Gens /\ Given(slots[s].domain, s)
  BY Zenon, <1>1, <1>4, GenIn DEF NumberInv
<1>11. /\ release'[r].pc \in {"ok", "err"} \cup Works /\ release'[r].pc # "pending" /\ release'[r].sandbox = s
       /\ Tearing(r)' /\ release'[r].domain # 0 => release'[r].domain \in Gens /\ Given(release'[r].domain, s)
  BY Zenon, <1>5, <1>7, <1>10 DEF Works, Tears
<1>12. slots'[s].tag = "Deleting" /\ slots'[s].in_flight = 0 /\ slots'[s].domain = 0
  BY Zenon, <1>6, <1>7
<1> QED
  BY ZenonT(40), <1>2, <1>3, <1>4, <1>7, <1>8, <1>9, <1>11, <1>12, SlotFrame

\* The release takes a pending temp tree out of the slot, and comes back.
LEMMA PendingBeginStep == ASSUME Inv, NEW r \in Releasers, FinishPendingBegin(r) PROVE Inv'
<1>1. TypeInv /\ NumberInv /\ MarkerInv /\ LeaseInv
  BY Zenon DEF Inv
<1>2. /\ release[r].pc = "wait" /\ Working(r) /\ release[r].pc \in Works
      /\ UNCHANGED <<next_generation, accepting, gens, members, launch, todo, first_error, stopped>>
  BY ZenonT(40) DEF FinishPendingBegin, In, Working, Works, shutdownVars
<1>3. PICK s \in Sandboxes : s = release[r].sandbox /\ slots[s] \in SlotType
  BY Zenon, <1>1, <1>2, ReleaseAt
<1>4. /\ slots[s].tag = "CleanupPending" /\ Barrier(s) = 0 /\ slots[s].temp \in 0 .. MaxGen /\ slots[s].temp # 0
  BY <1>3, SlotFacts DEF FinishPendingBegin, Held, Barrier, Gens
<1>5. PICK v \in ReleaseType : /\ release' = [release EXCEPT ![r] = v] /\ v.pc = "pending"
                               /\ v.sandbox = s /\ v.temp # 0
  <2> DEFINE v == [release[r] EXCEPT !.pc = "pending", !.temp = slots[s].temp]
  <2>1. release' = [release EXCEPT ![r] = v]
    BY Zenon, <1>3 DEF FinishPendingBegin, GoRelease
  <2>2. "pending" \in Works /\ release[r] \in ReleaseType
    BY Zenon, <1>1, <1>2, ReleaseAt DEF Works
  <2>3. v \in ReleaseType /\ v.pc = "pending" /\ v.sandbox = s /\ v.temp = slots[s].temp
    BY Zenon, <1>2, <1>3, <1>4, <2>2 DEF ReleaseType, Works, Tears
  <2> HIDE DEF v
  <2> QED
    BY Zenon, <1>4, <2>1, <2>3
<1>6. /\ release' \in [Releasers -> ReleaseType] /\ slots' \in [Sandboxes -> SlotType]
      /\ release'[r] = v /\ \A q \in Releasers \ {r} : release'[q] = release[q]
      /\ slots'[s].tag = "Creating" /\ \A z \in Sandboxes \ {s} : slots'[z] = slots[z]
  BY <1>1, <1>3, <1>5, SlotValues DEF TypeInv, FinishPendingBegin, SetSlot
<1>7. TypeInv' /\ GensKept
  BY Zenon, <1>1, <1>2, <1>6 DEF TypeInv, GensKept
<1>8. /\ \A l \in Launches : Opening(l) => launch[l].sandbox # s
      /\ \A q \in Releasers \ {r} : release[q].pc = "pending" => release[q].sandbox # s
      /\ \A q \in Releasers : Tearing(q) => release[q].sandbox # s
  BY Zenon, <1>1, <1>4 DEF MarkerInv
<1>9. release'[r].pc \in Works /\ ~Tearing(r)' /\ ~Held(s)'
  BY Zenon, <1>5, <1>6 DEF Works, Tearing, Tears, Held
<1> QED
  BY ZenonT(40), <1>2, <1>3, <1>4, <1>5, <1>6, <1>7, <1>8, <1>9, SlotFrame

\* FinishPendingCleanup ends: the slot goes, or gets the temp tree back.
LEMMA PendingEndStep == ASSUME Inv, NEW r \in Releasers, FinishPendingEnd(r) PROVE Inv'
<1>1. TypeInv /\ NumberInv /\ MarkerInv /\ LeaseInv
  BY Zenon DEF Inv
<1>2. /\ release[r].pc = "pending" /\ Working(r) /\ release[r].pc \in Works
      /\ UNCHANGED <<next_generation, accepting, members, launch, todo, stopped>>
  BY Zenon DEF FinishPendingEnd, Return, In, Working, Works
<1>3. PICK s \in Sandboxes, t \in Gens : s = release[r].sandbox /\ t = release[r].temp
  <2>1. release[r].sandbox \in Sandboxes /\ release[r].temp \in 0 .. MaxGen
    BY Zenon, <1>1, <1>2, ReleaseAt
  <2>2. release[r].temp # 0
    BY Zenon, <1>1, <1>2 DEF MarkerInv
  <2> QED
    BY Zenon, <2>1, <2>2, GenIn
<1>4. slots[s].tag = "Creating" /\ Barrier(s) = 0
  BY Zenon, <1>1, <1>2, <1>3 DEF MarkerInv, Held, Barrier
<1>5. GensKept
  <2>1. gens' = gens \/ gens' = [gens EXCEPT ![t].temp = FALSE]
    BY Zenon, <1>3 DEF FinishPendingEnd
  <2>2. gens' = gens => GensKept
    BY Zenon, <1>1 DEF TypeInv, GensKept
  <2> QED
    BY Zenon, <1>1, <2>1, <2>2, GenChanged DEF TypeInv
<1>6. PICK v \in ReleaseType : /\ release' = [release EXCEPT ![r] = v] /\ v.pc \in {"ok", "err"}
                               /\ v.sandbox = s /\ first_error' \in BOOLEAN
  <2>1. PICK p \in {"ok", "err"} : Return(r, p)
    BY Zenon DEF FinishPendingEnd
  <2> QED
    BY Zenon, <1>1, <1>3, <2>1, Returned
<1>7. PICK w \in SlotType : slots' = [slots EXCEPT ![s] = w] /\ w.tag \in {"absent", "CleanupPending"}
  <2>1. SetSlot(s, Absent) \/ SetSlot(s, CleanupPending(t))
    BY Zenon, <1>3, <1>4 DEF FinishPendingEnd
  <2> QED
    BY <2>1, SlotValues DEF SetSlot
<1>8. /\ release' \in [Releasers -> ReleaseType] /\ slots' \in [Sandboxes -> SlotType]
      /\ release'[r] = v /\ \A q \in Releasers \ {r} : release'[q] = release[q]
      /\ slots'[s] = w /\ \A z \in Sandboxes \ {s} : slots'[z] = slots[z]
  BY Zenon, <1>1, <1>6, <1>7 DEF TypeInv
<1>9. TypeInv'
  BY Zenon, <1>1, <1>2, <1>5, <1>6, <1>8 DEF TypeInv, GensKept
<1>10. /\ \A l \in Launches : Opening(l) => launch[l].sandbox # s
       /\ \A q \in Releasers \ {r} : release[q].pc = "pending" => release[q].sandbox # s
       /\ \A q \in Releasers : Tearing(q) => release[q].sandbox # s
  BY Zenon, <1>1, <1>2, <1>3, <1>4 DEF MarkerInv
<1>11. release'[r].pc # "pending" /\ ~Tearing(r)' /\ ~Held(s)'
  BY Zenon, <1>6, <1>7, <1>8 DEF Tearing, Tears, Held
<1> QED
  BY ZenonT(40), <1>2, <1>3, <1>4, <1>5, <1>6, <1>8, <1>9, <1>10, <1>11, SlotFrame

\* The teardown is over: the slot goes, or gets back what is left.
LEMMA ReleaseEndStep == ASSUME Inv, NEW r \in Releasers, ReleaseEnd(r) PROVE Inv'
<1>1. TypeInv /\ NumberInv /\ MarkerInv /\ LeaseInv
  BY Zenon DEF Inv
<1>2. /\ release[r].pc \in {"remove", "restore"} /\ Working(r) /\ Tearing(r) /\ release[r].pc \in Works
      /\ UNCHANGED <<next_generation, accepting, gens, members, launch, todo, stopped>>
  BY Zenon DEF ReleaseEnd, Return, In, Working, Tearing, Works, Tears
<1>3. PICK s \in Sandboxes, d \in 0 .. MaxGen, t \in 0 .. MaxGen :
        s = release[r].sandbox /\ d = release[r].domain /\ t = release[r].temp
  BY Zenon, <1>1, <1>2, ReleaseAt
<1>4. Barrier(s) = 0 /\ slots[s].tag # "Creating"
  BY Zenon, <1>1, <1>2, <1>3 DEF MarkerInv, Held, Barrier
<1>5. PICK v \in ReleaseType : /\ release' = [release EXCEPT ![r] = v] /\ v.pc \in {"ok", "err"}
                               /\ v.sandbox = s /\ first_error' \in BOOLEAN
  <2>1. PICK p \in {"ok", "err"} : Return(r, p)
    BY Zenon DEF ReleaseEnd
  <2> QED
    BY Zenon, <1>1, <1>3, <2>1, Returned
<1>6. PICK w \in SlotType : /\ slots' = [slots EXCEPT ![s] = w]
                            /\ w.tag = "absent" \/ (w.tag = "Deleting" /\ w.in_flight = 0 /\ w.domain = d)
  <2>1. SetSlot(s, Absent) \/ SetSlot(s, Deleting(0, d, t))
    BY Zenon, <1>3 DEF ReleaseEnd, Restored
  <2> QED
    BY <2>1, SlotValues DEF SetSlot
<1>7. /\ release' \in [Releasers -> ReleaseType] /\ slots' \in [Sandboxes -> SlotType]
      /\ release'[r] = v /\ \A q \in Releasers \ {r} : release'[q] = release[q]
      /\ slots'[s] = w /\ \A z \in Sandboxes \ {s} : slots'[z] = slots[z]
  BY Zenon, <1>1, <1>5, <1>6 DEF TypeInv
<1>8. TypeInv' /\ GensKept
  BY Zenon, <1>1, <1>2, <1>5, <1>7 DEF TypeInv, GensKept
<1>9. /\ \A l \in Launches : Opening(l) => launch[l].sandbox # s
      /\ \A q \in Releasers \ {r} : release[q].pc = "pending" => release[q].sandbox # s
  BY ZenonT(40), <1>1, <1>4 DEF MarkerInv
<1>10. ASSUME NEW q \in Releasers \ {r}, Tearing(q), release[q].sandbox = s PROVE ~accepting
  <2>1. Working(q)
    BY ZenonT(40), <1>10 DEF Tearing, Working, Works
  <2>2. q = Shutdown \/ r = Shutdown
    BY <1>1, <1>2, <1>3, <1>10, <2>1 DEF MarkerInv, Releasers
  <2> QED
    BY Zenon, <1>1, <1>2, <2>1, <2>2 DEF MarkerInv, Working, Works, Tears
<1>11. d # 0 => d \in Gens /\ Given(d, s)
  BY Zenon, <1>1, <1>2, <1>3, GenIn DEF NumberInv
<1>12. /\ release'[r].pc \in {"ok", "err"} \cup Works /\ release'[r].sandbox = s
       /\ release'[r].pc # "pending" /\ ~Tearing(r)'
  BY Zenon, <1>5, <1>7 DEF Tearing, Tears
<1>13. /\ slots'[s].tag = "absent" \/ (slots'[s].tag = "Deleting" /\ slots'[s].in_flight = 0)
       /\ Held(s)' /\ slots'[s].domain # 0 => slots'[s].domain \in Gens /\ Given(slots'[s].domain, s)
  BY Zenon, <1>6, <1>7, <1>11 DEF Held
<1>14. \A q \in Releasers \ {r} : Tearing(q) /\ release[q].sandbox = s =>
         \/ slots'[s].tag = "Deleting" /\ slots'[s].in_flight = 0
         \/ slots'[s].tag = "absent" /\ ~accepting
  BY Zenon, <1>10, <1>13
<1> QED
  BY ZenonT(40), <1>2, <1>3, <1>4, <1>7, <1>8, <1>9, <1>12, <1>13, <1>14, SlotFrame

-----------------------------------------------------------------------------
(* The registry.                                                           *)

\* DomainRegistry::new.
LEMMA InitInv == Init => Inv
<1> SUFFICES ASSUME Init PROVE Inv
  OBVIOUS
<1>1. TypeInv
  <2>1. /\ slots \in [Sandboxes -> SlotType] /\ launch \in [Launches -> LaunchType]
        /\ release \in [Releasers -> ReleaseType]
    BY Zenon, SlotValues, LaunchValues, ReleaseValues DEF Init
  <2>2. gens \in [Gens -> GenType]
    BY Zenon DEF Init, GenType
  <2>3. members \in [Gens -> [Members -> {"none", "alive", "dying"}]]
    BY Zenon DEF Init
  <2>4. next_generation \in Nat \ {0} /\ todo \subseteq Sandboxes /\ stopped \subseteq Signals
    BY DEF Init
  <2>5. accepting \in BOOLEAN /\ first_error \in BOOLEAN
    BY Zenon DEF Init
  <2> QED
    BY Zenon, <2>1, <2>2, <2>3, <2>4, <2>5 DEF TypeInv
<1>2. Creators = {} /\ \A s : Leases(s) = {}
  BY Zenon DEF Init, Creators, Leases
<1>3. Cardinality({}) = 0
  BY Zenon, FS_EmptySet
<1>4. NumberInv
  <2>1. \A g \in Gens : gens[g].cgroup = "none" /\ 1 <= g
    BY DEF Init, Gens
  <2>2. \A s \in Sandboxes : ~Held(s)
    BY Zenon DEF Init, Held, Absent
  <2>3. \A r \in Releasers : ~Tearing(r)
    BY Zenon DEF Init, Tearing, Tears
  <2>4. \A l \in Launches : ~Leased(l) /\ launch[l].pc # "publish"
    BY Zenon DEF Init, Leased
  <2>5. next_generation = 1 /\ 1 + 0 <= MaxGen + 1
    BY RegistryAssumption DEF Init, RegistryAssumption
  <2> QED
    BY ZenonT(40), <1>2, <1>3, <2>1, <2>2, <2>3, <2>4, <2>5 DEF NumberInv
<1>5. MarkerInv
  <2>1. \A l \in Launches : ~Opening(l)
    BY Zenon DEF Init, Opening, Opens
  <2>2. \A r \in Releasers : release[r].pc = "idle"
    BY Zenon DEF Init
  <2> QED
    BY Zenon, <2>1, <2>2 DEF MarkerInv, Tearing, Working, Works, Tears, Releasers
<1>6. LeaseInv
  <2>1. \A s \in Sandboxes : Barrier(s) = 0
    BY Zenon DEF Init, Barrier, Held, Absent
  <2>2. \A l \in Launches : ~Leased(l)
    BY Zenon DEF Init, Leased
  <2> QED
    BY <1>2, <1>3, <2>1, <2>2 DEF LeaseInv
<1> QED
  BY Zenon, <1>1, <1>4, <1>5, <1>6 DEF Inv

\* Every step keeps the invariant.
LEMMA Inductive == Inv /\ [Next]_vars => Inv'
<1> SUFFICES ASSUME Inv, [Next]_vars PROVE Inv'
  OBVIOUS
<1>1. CASE \E l \in Launches : LaunchStep(l)
  BY ZenonT(40), <1>1, PlainLaunchStep, JoinCreateStep, JoinActiveStep, CleanPendingStep, CreateStep, PublishStep,
     FinishedStep DEF LaunchStep
<1>2. CASE UNCHANGED vars \/ \E g \in Gens, m \in Members : Exit(g, m)
  BY Zenon, <1>2, ExitStep
<1>3. CASE (\E d \in Deleters : DeleteBegin(d)) \/ StopAccepting \/ ShutdownNext
  BY Zenon, <1>3, CallStep
<1>4. CASE (\E r \in Releasers : MarkDeleting(r)) \/ ShutdownSnapshot \/ ForceShutdown
  BY Zenon, <1>4, MarkStep
<1>5. CASE \E r \in Releasers : ReleaseStep(r) /\ ~MarkDeleting(r)
  BY Zenon, <1>5, PlainReleaseStep, TakeOverStep, PendingBeginStep, PendingEndStep, ReleaseEndStep DEF ReleaseStep
<1> QED
  BY Zenon, <1>1, <1>2, <1>3, <1>4, <1>5 DEF Next

\* The inductive invariant of the registry.
THEOREM RegistryInvariant == Spec => []Inv
BY InitInv, Inductive, PTL DEF Spec

\* The in-flight barrier of a slot counts every lease of its sandbox, and a
\* launch runs in a domain made for its own sandbox and identity, whatever
\* deletes, shutdowns and failures do meanwhile (launch_finished, TakeOver).
THEOREM Protects == Spec => []LeasesProtect
<1>1. Inv => LeasesProtect
  <2> SUFFICES ASSUME Inv PROVE LeasesProtect
    OBVIOUS
  <2>1. \A s \in Sandboxes : Cardinality(Leases(s)) <=
          IF slots[s].tag \in {"Active", "Deleting"} THEN slots[s].in_flight ELSE 0
    BY Zenon DEF Inv, LeaseInv, Barrier, Held
  <2>2. \A l \in Launches : launch[l].pc \in {"leased", "running"} =>
         /\ gens[launch[l].gen].sandbox = launch[l].sandbox
         /\ gens[launch[l].gen].identity = launch[l].identity
    BY Zenon DEF Inv, LeaseInv, NumberInv, Leased, Given
  <2> QED
    BY Zenon, <2>1, <2>2 DEF LeasesProtect
<1> QED
  BY <1>1, RegistryInvariant, PTL

=============================================================================
