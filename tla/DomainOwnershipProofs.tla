----------------------- MODULE DomainOwnershipProofs -----------------------
(***************************************************************************)
(* Who owns a domain that has processes, for every instance in which no    *)
(* delete races the sweep of a shutdown: no error path loses it, a release *)
(* that succeeds leaves no process, and neither does a clean shutdown.     *)
(*                                                                         *)
(* PieceInv says that whatever names a domain names one that is there with *)
(* its temp tree, and that a temp tree named alone outlived its domain;    *)
(* MemberInv, that processes are only in owned domains; SweepInv, that the *)
(* sweep misses no slot.                                                   *)
(***************************************************************************)
EXTENDS DomainRegistryProofs

USE SMTT(30), ZenonT(40)

\* Either the daemon is not stopped, or no delete races its sweep.
Apart == Signals = {} \/ Deleters = {}

\* A domain and its temp tree are there while something holds them; a temp
\* tree held alone is that of a domain that is gone.
Kept(g, s)    == g \in Gens /\ gens[g].cgroup = "present" /\ gens[g].temp /\ gens[g].sandbox = s
Dropped(g)    == g \in Gens /\ gens[g].cgroup = "removed"

SlotPiece(s) ==
    /\ Held(s) /\ slots[s].domain # 0 => Kept(slots[s].domain, s) /\ slots[s].temp = slots[s].domain
    /\ Held(s) /\ slots[s].domain = 0 /\ slots[s].temp # 0 => Dropped(slots[s].temp)
    /\ slots[s].tag = "CleanupPending" => Dropped(slots[s].temp)
LaunchPiece(l) ==
    /\ launch[l].pc = "publish" /\ launch[l].gen # 0 => Kept(launch[l].gen, launch[l].sandbox)
    /\ launch[l].pc = "clean" => Dropped(launch[l].gen)
ReleasePiece(r) ==
    /\ Tearing(r) => slots[release[r].sandbox] = Deleting(0, 0, 0)
    /\ release[r].pc \in {"kill", "empty"} => release[r].domain # 0
    /\ release[r].pc \in {"temp", "remove"} => release[r].domain = 0
    /\ Tearing(r) /\ release[r].domain # 0 =>
         Kept(release[r].domain, release[r].sandbox) /\ release[r].temp = release[r].domain
    /\ Tearing(r) /\ release[r].domain = 0 /\ release[r].temp # 0 => Dropped(release[r].temp)
    /\ release[r].pc = "pending" => Dropped(release[r].temp)

PieceInv ==
    /\ \A s \in Sandboxes : SlotPiece(s)
    /\ \A l \in Launches : LaunchPiece(l)
    /\ \A r \in Releasers : ReleasePiece(r)

Owned(g) ==
    \/ Held(gens[g].sandbox) /\ slots[gens[g].sandbox].domain = g
    \/ \E r \in Releasers : Holds(r, g)

\* Processes are where their launch put them, in a domain something holds.
MemberInv ==
    /\ \A g \in Gens, l \in Launches : members[g][l] # "none" =>
         launch[l].pc = "running" /\ launch[l].gen = g
    /\ \A g \in Gens : HasMembers(g) => gens[g].cgroup = "present" /\ Owned(g)

OwnInv == PieceInv /\ MemberInv

\* The sweep of the shutdown found every slot that is still there.
SweepInv ==
    release[Shutdown].pc \notin {"idle", "stop"} =>
      \A s \in Sandboxes : slots[s].tag # "absent" =>
        \/ s \in todo \/ first_error
        \/ Working(Shutdown) /\ release[Shutdown].sandbox = s

\* A step that takes no piece of g away, one that brings no domain back, and
\* one that adds no process.
StillKept(g) ==
    gens[g].cgroup = "present" =>
      /\ gens'[g].cgroup = "present" /\ gens'[g].temp = gens[g].temp
      /\ gens'[g].sandbox = gens[g].sandbox
StillDropped == \A g \in Gens : gens[g].cgroup = "removed" => gens'[g].cgroup = "removed"
NoneAdded == \A g \in Gens, m \in Members : members'[g][m] # "none" => members[g][m] # "none"

Killing == {"kill", "empty", "restore"}

-----------------------------------------------------------------------------
(* Holders.                                                                *)

\* Two releases are of two sandboxes.
LEMMA Alone ==
  ASSUME Inv, Apart, NEW q \in Releasers, NEW r \in Releasers, Working(q), Working(r),
         release[q].sandbox = release[r].sandbox
  PROVE  q = r
<1>1. MarkerInv /\ stopped \subseteq Signals
  BY Zenon DEF Inv, TypeInv
<1>2. CASE Signals = {}
  <2>1. release[Shutdown].pc = "idle"
    BY Zenon, <1>1, <1>2 DEF MarkerInv
  <2>2. q \in Deleters /\ r \in Deleters
    BY Zenon, <2>1 DEF Working, Works, Tears, Releasers
  <2> QED
    BY Zenon, <1>1, <2>2 DEF MarkerInv
<1>3. CASE Deleters = {}
  BY Zenon, <1>3 DEF Releasers
<1> QED
  BY Zenon, <1>2, <1>3 DEF Apart

\* A generation has one holder.
LEMMA Sole ==
  ASSUME Inv, Apart, PieceInv
  PROVE  /\ \A s \in Sandboxes : Held(s) /\ slots[s].domain # 0 =>
              /\ \A z \in Sandboxes \ {s} : Held(z) => slots[z].domain # slots[s].domain
              /\ \A l \in Launches : launch[l].pc = "publish" => launch[l].gen # slots[s].domain
              /\ \A r \in Releasers : Tearing(r) => release[r].domain # slots[s].domain
         /\ \A r \in Releasers : Tearing(r) /\ release[r].domain # 0 =>
              /\ \A l \in Launches : launch[l].pc = "publish" => launch[l].gen # release[r].domain
              /\ \A q \in Releasers \ {r} : Tearing(q) => release[q].domain # release[r].domain
<1>1. \A l \in Launches : launch[l].pc = "publish" => slots[launch[l].sandbox].tag = "Creating"
  BY Zenon DEF Inv, MarkerInv, Opening, Opens
<1>2. Deleting(0, 0, 0).tag = "Deleting" /\ Deleting(0, 0, 0).domain = 0
  BY Zenon DEF Deleting
<1>3. \A r \in Releasers : Tearing(r) => slots[release[r].sandbox] = Deleting(0, 0, 0)
  BY Zenon DEF PieceInv, ReleasePiece
<1>4. \A s \in Sandboxes : Held(s) /\ slots[s].domain # 0 => gens[slots[s].domain].sandbox = s
  BY Zenon DEF PieceInv, SlotPiece, Kept
<1>5. \A l \in Launches : launch[l].pc = "publish" /\ launch[l].gen # 0 => gens[launch[l].gen].sandbox = launch[l].sandbox
  BY Zenon DEF PieceInv, LaunchPiece, Kept
<1>6. \A r \in Releasers : Tearing(r) /\ release[r].domain # 0 => gens[release[r].domain].sandbox = release[r].sandbox
  BY Zenon DEF PieceInv, ReleasePiece, Kept
<1>7. \A q, r \in Releasers : Tearing(q) /\ Tearing(r) /\ release[q].sandbox = release[r].sandbox => q = r
  BY Zenon, Alone DEF Tearing, Working, Works
<1>8. \A s \in Sandboxes : Held(s) /\ slots[s].domain # 0 =>
         /\ \A z \in Sandboxes \ {s} : Held(z) => slots[z].domain # slots[s].domain
         /\ \A l \in Launches : launch[l].pc = "publish" => launch[l].gen # slots[s].domain
         /\ \A r \in Releasers : Tearing(r) => release[r].domain # slots[s].domain
  BY <1>1, <1>2, <1>3, <1>4, <1>5, <1>6 DEF Held
<1>9. \A r \in Releasers : Tearing(r) /\ release[r].domain # 0 =>
         /\ \A l \in Launches : launch[l].pc = "publish" => launch[l].gen # release[r].domain
         /\ \A q \in Releasers \ {r} : Tearing(q) => release[q].domain # release[r].domain
  BY <1>1, <1>2, <1>3, <1>5, <1>6, <1>7
<1> QED
  BY Zenon, <1>8, <1>9

\* What an unchanged slot, launch or releaser holds is still there.
LEMMA PieceFrame ==
  ASSUME PieceInv, StillDropped
  PROVE  /\ \A s \in Sandboxes :
              slots'[s] = slots[s] /\ (Held(s) /\ slots[s].domain # 0 => StillKept(slots[s].domain)) => SlotPiece(s)'
         /\ \A l \in Launches :
              launch'[l] = launch[l] /\ (launch[l].pc = "publish" /\ launch[l].gen # 0 => StillKept(launch[l].gen))
                => LaunchPiece(l)'
         /\ \A r \in Releasers :
              (/\ release'[r] = release[r]
               /\ Tearing(r) => slots'[release[r].sandbox] = slots[release[r].sandbox]
               /\ Tearing(r) /\ release[r].domain # 0 => StillKept(release[r].domain)) => ReleasePiece(r)'
<1>1. \A g, s : Kept(g, s) /\ StillKept(g) => Kept(g, s)'
  BY Zenon DEF Kept, StillKept
<1>2. \A g : Dropped(g) => Dropped(g)'
  BY Zenon DEF Dropped, StillDropped
<1>3. ASSUME NEW s \in Sandboxes, slots'[s] = slots[s], Held(s) /\ slots[s].domain # 0 => StillKept(slots[s].domain)
      PROVE  SlotPiece(s)'
  BY Zenon, <1>1, <1>2, <1>3 DEF PieceInv, SlotPiece, Held
<1>4. ASSUME NEW l \in Launches, launch'[l] = launch[l],
             launch[l].pc = "publish" /\ launch[l].gen # 0 => StillKept(launch[l].gen)
      PROVE  LaunchPiece(l)'
  BY Zenon, <1>1, <1>2, <1>4 DEF PieceInv, LaunchPiece
<1>5. ASSUME NEW r \in Releasers, release'[r] = release[r],
             Tearing(r) => slots'[release[r].sandbox] = slots[release[r].sandbox],
             Tearing(r) /\ release[r].domain # 0 => StillKept(release[r].domain)
      PROVE  ReleasePiece(r)'
  <2>1. Tearing(r)' <=> Tearing(r)
    BY Zenon, <1>5 DEF Tearing
  <2> QED
    BY Zenon, <1>1, <1>2, <1>5, <2>1 DEF PieceInv, ReleasePiece, Deleting
<1> QED
  BY Zenon, <1>3, <1>4, <1>5

\* Processes stay where they are, and domains with processes are still owned.
LEMMA MemberFrame ==
  ASSUME MemberInv, NoneAdded,
         \A l \in Launches : launch[l].pc = "running" =>
           \/ launch'[l].pc = "running" /\ launch'[l].gen = launch[l].gen
           \/ \A g \in Gens : members[g][l] = "none",
         \A g \in Gens : HasMembers(g) => gens'[g].cgroup = "present" /\ (Owned(g) => Owned(g)')
  PROVE  MemberInv'
<1>1. \A g \in Gens : HasMembers(g)' => HasMembers(g)
  BY Zenon DEF HasMembers, NoneAdded
<1>2. \A l \in Launches : l \in Members
  BY Zenon DEF Members
<1>3. \A g \in Gens, l \in Launches : members'[g][l] # "none" => launch'[l].pc = "running" /\ launch'[l].gen = g
  BY <1>2 DEF MemberInv, NoneAdded
<1> QED
  BY Zenon, <1>1, <1>3 DEF MemberInv

\* An owner that keeps what it owns.
LEMMA OwnerKept ==
  ASSUME NEW g \in Gens, Owned(g), gens'[g].sandbox = gens[g].sandbox,
         Held(gens[g].sandbox) /\ slots[gens[g].sandbox].domain = g =>
           Held(gens[g].sandbox)' /\ slots'[gens[g].sandbox].domain = g,
         \A r \in Releasers : Holds(r, g) => Holds(r, g)'
  PROVE  Owned(g)'
BY Zenon DEF Owned, Held

\* A step of threads that keep what they own.
LEMMA OwnFrame ==
  ASSUME Inv, OwnInv, StillDropped, \A g \in Gens : StillKept(g), NoneAdded,
         \A s \in Sandboxes :
           \/ slots'[s] = slots[s]
           \/ /\ slots[s] # Deleting(0, 0, 0) /\ SlotPiece(s)'
              /\ Held(s) /\ slots[s].domain # 0 => Held(s)' /\ slots'[s].domain = slots[s].domain,
         \A l \in Launches :
           \/ launch'[l] = launch[l]
           \/ /\ LaunchPiece(l)'
              /\ launch[l].pc = "running" => \A g \in Gens : members[g][l] = "none",
         \A r \in Releasers :
           \/ release'[r] = release[r]
           \/ /\ ReleasePiece(r)'
              /\ release[r].pc \in Killing /\ release[r].domain # 0 =>
                   release'[r].pc \in Killing /\ release'[r].domain = release[r].domain
  PROVE  OwnInv'
<1>1. PieceInv /\ MemberInv /\ TypeInv
  BY Zenon DEF OwnInv, Inv
<1>2. \A r \in Releasers : Tearing(r) => /\ slots'[release[r].sandbox] = slots[release[r].sandbox]
                                         /\ release[r].sandbox \in Sandboxes
                                         /\ release[r].domain # 0 => release[r].domain \in Gens
  <2>1. \A r \in Releasers : Tearing(r) => release[r].sandbox \in Sandboxes
    BY Zenon, <1>1, Places DEF Tearing, Works
  <2> QED
    BY <1>1, <2>1 DEF PieceInv, ReleasePiece, Kept
<1>3. /\ \A s \in Sandboxes : Held(s) /\ slots[s].domain # 0 => slots[s].domain \in Gens
      /\ \A l \in Launches : launch[l].pc = "publish" /\ launch[l].gen # 0 => launch[l].gen \in Gens
  BY Zenon, <1>1 DEF PieceInv, SlotPiece, LaunchPiece, Kept
<1>4. PieceInv'
  <2>1. \A s \in Sandboxes : SlotPiece(s)'
    BY Zenon, <1>1, <1>3, PieceFrame
  <2>2. \A l \in Launches : LaunchPiece(l)'
    BY Zenon, <1>1, <1>3, PieceFrame
  <2>3. \A r \in Releasers : ReleasePiece(r)'
    BY Zenon, <1>1, <1>2, PieceFrame
  <2> QED
    BY Zenon, <2>1, <2>2, <2>3 DEF PieceInv
<1>5. MemberInv'
  <2>1. ASSUME NEW g \in Gens, HasMembers(g) PROVE gens'[g].cgroup = "present" /\ (Owned(g) => Owned(g)')
    <3>1. /\ gens[g].cgroup = "present" /\ gens'[g].cgroup = "present" /\ gens'[g].sandbox = gens[g].sandbox
          /\ g # 0
      BY <1>1, <2>1 DEF MemberInv, StillKept, Gens
    <3>2. gens[g].sandbox \in Sandboxes
      BY Zenon, <1>1, <3>1, GenFacts DEF TypeInv
    <3>3. Held(gens[g].sandbox) /\ slots[gens[g].sandbox].domain = g =>
            Held(gens[g].sandbox)' /\ slots'[gens[g].sandbox].domain = g
      BY Zenon, <3>1, <3>2 DEF Held
    <3>4. \A r \in Releasers : Holds(r, g) => Holds(r, g)'
      BY Zenon, <3>1 DEF Holds, Killing
    <3> QED
      BY Zenon, <3>1, <3>3, <3>4, OwnerKept
  <2>2. \A l \in Launches : launch[l].pc = "running" =>
           \/ launch'[l].pc = "running" /\ launch'[l].gen = launch[l].gen
           \/ \A g \in Gens : members[g][l] = "none"
    OBVIOUS
  <2> QED
    BY Zenon, <1>1, <2>1, <2>2, MemberFrame
<1> QED
  BY Zenon, <1>4, <1>5 DEF OwnInv

-----------------------------------------------------------------------------
(* The launches.                                                           *)

\* A launch that moves on, and may change the slot of one sandbox.
LEMMA LaunchOwns ==
  ASSUME Inv, OwnInv, NEW l \in Launches, NEW v, launch' = [launch EXCEPT ![l] = v],
         launch[l].pc = "running" => \A g \in Gens : members[g][l] = "none",
         v.pc = "publish" /\ v.gen # 0 => Kept(v.gen, v.sandbox)',
         v.pc = "clean" => Dropped(v.gen)',
         StillDropped, \A g \in Gens : StillKept(g), UNCHANGED <<members, release>>,
         NEW s \in Sandboxes, NEW w, slots' = [slots EXCEPT ![s] = w],
         \/ w = slots[s]
         \/ /\ slots[s] # Deleting(0, 0, 0) /\ SlotPiece(s)'
            /\ Held(s) /\ slots[s].domain # 0 => Held(s)' /\ slots'[s].domain = slots[s].domain
  PROVE  OwnInv'
<1>1. launch \in [Launches -> LaunchType] /\ slots \in [Sandboxes -> SlotType]
  BY Zenon DEF Inv, TypeInv
<1>2. launch'[l] = v /\ \A k \in Launches \ {l} : launch'[k] = launch[k]
  BY Zenon, <1>1
<1>3. slots'[s] = w /\ \A z \in Sandboxes \ {s} : slots'[z] = slots[z]
  BY Zenon, <1>1
<1>4. LaunchPiece(l)'
  BY Zenon, <1>2 DEF LaunchPiece
<1>5. NoneAdded
  BY Zenon DEF NoneAdded
<1> QED
  BY Zenon, <1>2, <1>3, <1>4, <1>5, OwnFrame

\* Nothing happens to the generations.
LEMMA GensSame ==
  ASSUME gens' = gens
  PROVE  StillDropped /\ \A g \in Gens : StillKept(g)
BY Zenon DEF StillDropped, StillKept

\* The temp tree of a domain that is gone is removed.
LEMMA TempGone ==
  ASSUME TypeInv, NEW t, Dropped(t), gens' = [gens EXCEPT ![t].temp = FALSE]
  PROVE  StillDropped /\ \A g \in Gens : StillKept(g)
<1>1. t \in Gens /\ gens[t] \in GenType /\ gens[t].cgroup = "removed"
  BY Zenon DEF TypeInv, Dropped
<1>2. gens'[t].cgroup = "removed" /\ \A g \in Gens \ {t} : gens'[g] = gens[g]
  BY Zenon, <1>1 DEF TypeInv, GenType
<1> QED
  BY Zenon, <1>1, <1>2 DEF StillDropped, StillKept

\* A launch begins, is refused, or opens the slot of its sandbox.
LEMMA OpeningOwn ==
  ASSUME Inv, OwnInv, NEW l \in Launches, LaunchBegin(l) \/ JoinRefused(l) \/ JoinCreate(l) \/ JoinActive(l)
  PROVE  OwnInv'
<1>1. TypeInv /\ PieceInv
  BY Zenon DEF Inv, OwnInv
<1>2. /\ launch[l].pc \in {"idle", "join"} /\ UNCHANGED <<gens, members, release>>
      /\ StillDropped /\ \A g \in Gens : StillKept(g)
  BY Zenon, GensSame DEF LaunchBegin, JoinRefused, JoinCreate, JoinActive, At
<1>3. ASSUME slots' = slots, NEW v, launch' = [launch EXCEPT ![l] = v], v.pc \in {"idle", "join"} PROVE OwnInv'
  <2>1. launch'[l] = v /\ \A k \in Launches \ {l} : launch'[k] = launch[k]
    BY Zenon, <1>1, <1>3 DEF TypeInv
  <2>2. LaunchPiece(l)' /\ NoneAdded
    BY Zenon, <1>2, <1>3, <2>1 DEF LaunchPiece, NoneAdded
  <2> QED
    BY Zenon, <1>2, <1>3, <2>1, <2>2, OwnFrame
<1>4. CASE LaunchBegin(l)
  BY Zenon, <1>3, <1>4 DEF LaunchBegin, GoLaunch
<1>5. CASE JoinRefused(l)
  BY Zenon, <1>3, <1>5 DEF JoinRefused, FailLaunch, GoLaunch
<1>6. CASE JoinCreate(l)
  <2>1. PICK s \in Sandboxes : s = launch[l].sandbox /\ slots[s] \in SlotType
    BY Zenon, <1>1, <1>6, LaunchAt DEF JoinCreate, At
  <2>2. /\ launch[l].pc = "join" /\ slots[s].tag \in {"absent", "CleanupPending"}
        /\ slots' = [slots EXCEPT ![s] = Creating]
    BY Zenon, <1>6, <2>1 DEF JoinCreate, At, SetSlot
  <2>3. PICK v : /\ launch' = [launch EXCEPT ![l] = v] /\ v.pc \in {"create", "clean"}
                 /\ v.pc = "clean" => Dropped(v.gen)
    <3>1. launch[l] \in LaunchType /\ launch[l].pc # "idle"
      BY Zenon, <1>1, <2>2, LaunchAt
    <3>2. slots[s].tag = "CleanupPending" => slots[s].temp \in 0 .. MaxGen /\ Dropped(slots[s].temp)
      BY <1>1, <2>1, SlotFacts DEF PieceInv, SlotPiece, Gens
    <3>3. Request(l, "create", 0).pc = "create"
      BY <3>1, LaunchMoved, RegistryAssumption DEF Opens, RegistryAssumption
    <3>4. slots[s].tag = "CleanupPending" =>
            Request(l, "clean", slots[s].temp).pc = "clean" /\ Request(l, "clean", slots[s].temp).gen = slots[s].temp
      BY <3>1, <3>2, LaunchMoved DEF Opens
    <3> QED
      BY Zenon, <1>6, <2>1, <3>2, <3>3, <3>4 DEF JoinCreate, GoLaunch
  <2>4. slots'[s].tag = "Creating" /\ slots[s] # Deleting(0, 0, 0)
    BY <1>1, <2>2, SlotValues DEF TypeInv, Deleting
  <2>5. SlotPiece(s)' /\ ~Held(s)
    BY Zenon, <2>2, <2>4 DEF SlotPiece, Held
  <2>6. v.pc = "clean" => Dropped(v.gen)'
    BY Zenon, <1>2, <2>3 DEF Dropped
  <2> QED
    BY ZenonT(40), <1>2, <2>2, <2>3, <2>4, <2>5, <2>6, LaunchOwns
<1>7. CASE JoinActive(l)
  <2>1. PICK s \in Sandboxes : s = launch[l].sandbox /\ slots[s] \in SlotType
    BY Zenon, <1>1, <1>7, LaunchAt DEF JoinActive, At
  <2>2. CASE slots' = slots /\ launch' = [launch EXCEPT ![l] = [pc |-> "idle"]]
    BY Zenon, <1>3, <2>2
  <2>3. CASE /\ slots' = [slots EXCEPT ![s] = [slots[s] EXCEPT !.in_flight = @ + 1]]
             /\ launch' = [launch EXCEPT ![l] = Request(l, "leased", slots[s].domain)]
    <3>1. /\ slots[s].tag = "Active" /\ slots[s].in_flight \in Nat /\ slots[s].domain \in 0 .. MaxGen
          /\ launch[l].pc = "join"
      BY Zenon, <1>7, <2>1, SlotFacts DEF JoinActive, At, Gens
    <3>2. PICK w : /\ slots' = [slots EXCEPT ![s] = w] /\ w.tag = "Active"
                   /\ w.domain = slots[s].domain /\ w.temp = slots[s].temp
      <4> DEFINE n == slots[s].in_flight + 1
                 w == [slots[s] EXCEPT !.in_flight = n]
      <4>1. n \in Nat /\ slots' = [slots EXCEPT ![s] = w]
        BY <2>3, <3>1
      <4>2. w.tag = "Active" /\ w.domain = slots[s].domain /\ w.temp = slots[s].temp
        <5> HIDE DEF n
        <5> QED
          BY <2>1, <3>1, <4>1, SlotCounted
      <4> HIDE DEF w
      <4> QED
        BY Zenon, <4>1, <4>2
    <3>3. PICK v : launch' = [launch EXCEPT ![l] = v] /\ v.pc = "leased"
      <4>1. Request(l, "leased", slots[s].domain).pc = "leased"
        BY <1>1, <3>1, LaunchAt, LaunchMoved
      <4> QED
        BY Zenon, <2>3, <4>1
    <3>4. slots'[s] = w /\ slots[s] # Deleting(0, 0, 0)
      BY <1>1, <3>1, <3>2 DEF TypeInv, Deleting
    <3>5. SlotPiece(s)' /\ (Held(s) /\ slots[s].domain # 0 => Held(s)' /\ slots'[s].domain = slots[s].domain)
      <4>1. SlotPiece(s)
        BY Zenon, <1>1 DEF PieceInv
      <4> QED
        BY Zenon, <1>2, <3>1, <3>2, <3>4, <4>1 DEF SlotPiece, Held, Kept, Dropped
    <3> QED
      BY ZenonT(40), <1>2, <3>1, <3>2, <3>3, <3>4, <3>5, LaunchOwns
  <2> QED
    BY Zenon, <1>7, <2>1, <2>2, <2>3 DEF JoinActive, FailLaunch, GoLaunch, SetSlot
<1> QED
  BY Zenon, <1>4, <1>5, <1>6, <1>7

\* A creator cleans up, creates and publishes.
LEMMA CreatingOwn ==
  ASSUME Inv, OwnInv, NEW l \in Launches, CleanPending(l) \/ create_generation(l) \/ Publish(l)
  PROVE  OwnInv'
<1>1. TypeInv /\ PieceInv /\ NumberInv /\ MarkerInv
  BY Zenon DEF Inv, OwnInv
<1>2. launch[l].pc \in Opens /\ launch[l].pc # "running" /\ UNCHANGED <<members, release>>
  BY Zenon DEF CleanPending, create_generation, Publish, At, Opens
<1>3. PICK s \in Sandboxes, t \in 0 .. MaxGen : /\ s = launch[l].sandbox /\ t = launch[l].gen
                                               /\ launch[l] \in LaunchType /\ slots[s] \in SlotType
  BY Zenon, <1>1, <1>2, LaunchAt DEF Opens
<1>4. /\ slots[s].tag = "Creating" /\ ~Held(s) /\ slots[s] # Deleting(0, 0, 0) /\ LaunchPiece(l)
      /\ slots = [slots EXCEPT ![s] = slots[s]]
  BY <1>1, <1>2, <1>3 DEF MarkerInv, Opening, PieceInv, Held, Deleting, TypeInv
<1>5. ASSUME NEW p \in {"create", "publish", "leased"}, NEW g \in 0 .. MaxGen
      PROVE  /\ Request(l, p, g).pc = p /\ Request(l, p, g).gen = g
             /\ Request(l, p, g).sandbox = s
  BY <1>2, <1>3, LaunchMoved DEF Opens
<1>6. CASE CleanPending(l)
  <2>1. launch[l].pc = "clean" /\ Dropped(t)
    BY Zenon, <1>3, <1>4, <1>6 DEF CleanPending, At, LaunchPiece
  <2>2. CASE /\ gens' = [gens EXCEPT ![t].temp = FALSE] /\ slots' = slots
             /\ launch' = [launch EXCEPT ![l] = Request(l, "create", 0)]
    <3>1. PICK v : launch' = [launch EXCEPT ![l] = v] /\ v.pc = "create"
      <4>1. 0 \in 0 .. MaxGen
        BY RegistryAssumption DEF RegistryAssumption
      <4>2. Request(l, "create", 0).pc = "create"
        BY Zenon, <1>5, <4>1
      <4> QED
        BY Zenon, <2>2, <4>2
    <3>2. StillDropped /\ \A g \in Gens : StillKept(g)
      BY ZenonT(40), <1>1, <2>1, <2>2, TempGone
    <3> QED
      BY ZenonT(40), <1>2, <1>4, <2>2, <3>1, <3>2, LaunchOwns
  <2>3. CASE /\ slots' = [slots EXCEPT ![s] = CleanupPending(t)] /\ gens' = gens
             /\ launch' = [launch EXCEPT ![l] = [pc |-> "idle"]]
    <3>1. t \in Gens
      BY Zenon, <2>1 DEF Dropped
    <3>2. slots'[s].tag = "CleanupPending" /\ slots'[s].temp = t
      BY <1>1, <2>3, <3>1, SlotValues DEF TypeInv
    <3>3. SlotPiece(s)'
      BY Zenon, <2>1, <2>3, <3>2 DEF SlotPiece, Held, Dropped
    <3>4. PICK v : launch' = [launch EXCEPT ![l] = v] /\ v.pc = "idle"
      BY Zenon, <2>3, LaunchValues
    <3> QED
      BY ZenonT(40), <1>2, <1>4, <2>3, <3>3, <3>4, LaunchOwns, GensSame
  <2> QED
    BY ZenonT(40), <1>3, <1>4, <1>6, <2>2, <2>3 DEF CleanPending, FailLaunch, GoLaunch, SetSlot
<1>7. CASE create_generation(l)
  <2>1. next_generation \in Gens => gens[next_generation].cgroup = "none"
    BY <1>1 DEF NumberInv, Gens
  <2>2. slots' = slots /\ gens \in [Gens -> GenType]
    BY Zenon, <1>1, <1>7 DEF create_generation, TypeInv
  <2>3. \A g \in Gens : gens[g].cgroup # "none" => gens'[g] = gens[g]
    <3>1. gens' = gens \/ \E w : gens' = [gens EXCEPT ![next_generation] = w]
      BY Zenon, <1>7 DEF create_generation
    <3> QED
      BY Zenon, <2>1, <2>2, <3>1
  <2>4. StillDropped /\ \A g \in Gens : StillKept(g)
    BY Zenon, <2>3 DEF StillDropped, StillKept
  <2>5. PICK v : /\ launch' = [launch EXCEPT ![l] = v] /\ v.pc = "publish"
                 /\ v.gen # 0 => Kept(v.gen, v.sandbox)'
    <3>1. CASE launch' = [launch EXCEPT ![l] = Request(l, "publish", 0)]
      <4>1. 0 \in 0 .. MaxGen
        BY RegistryAssumption DEF RegistryAssumption
      <4>2. Request(l, "publish", 0).pc = "publish" /\ Request(l, "publish", 0).gen = 0
        BY Zenon, <1>5, <4>1
      <4> QED
        BY Zenon, <3>1, <4>2
    <3>2. CASE /\ gens' = [gens EXCEPT ![next_generation] =
                      [cgroup |-> "present", temp |-> TRUE,
                       sandbox |-> launch[l].sandbox, identity |-> launch[l].identity]]
               /\ launch' = [launch EXCEPT ![l] = Request(l, "publish", next_generation)]
      <4>1. PICK n \in Gens : n = next_generation
        <5>1. l \in Creators /\ Creators \in SUBSET Launches
          BY Zenon, <1>7 DEF Creators, create_generation, At
        <5>2. Cardinality(Creators) \in Nat /\ Cardinality(Creators) # 0
          BY Zenon, <5>1, Counting
        <5> QED
          BY <1>1, <5>2, RegistryAssumption DEF TypeInv, NumberInv, Gens, RegistryAssumption
      <4>2. /\ Request(l, "publish", n).pc = "publish" /\ Request(l, "publish", n).gen = n
            /\ Request(l, "publish", n).sandbox = s
        BY <1>5, <4>1 DEF Gens
      <4>3. gens'[n] = [cgroup |-> "present", temp |-> TRUE,
                        sandbox |-> launch[l].sandbox, identity |-> launch[l].identity]
        BY Zenon, <2>2, <3>2, <4>1
      <4>4. Kept(n, s)'
        BY <1>3, <4>3 DEF Kept
      <4> QED
        BY Zenon, <3>2, <4>1, <4>2, <4>4
    <3> QED
      BY Zenon, <1>7, <3>1, <3>2 DEF create_generation, GoLaunch
  <2> QED
    BY ZenonT(40), <1>2, <1>4, <2>2, <2>4, <2>5, LaunchOwns
<1>8. CASE Publish(l)
  <2>1. CASE slots' = [slots EXCEPT ![s] = Absent] /\ gens' = gens
             /\ launch' = [launch EXCEPT ![l] = [pc |-> "idle"]]
    <3>1. PICK v : launch' = [launch EXCEPT ![l] = v] /\ v.pc = "idle"
      BY Zenon, <2>1, LaunchValues
    <3>2. slots'[s].tag = "absent"
      BY <1>1, <2>1, SlotValues DEF TypeInv
    <3>3. SlotPiece(s)'
      BY Zenon, <3>2 DEF SlotPiece, Held
    <3> QED
      BY ZenonT(40), <1>2, <1>4, <2>1, <3>1, <3>3, LaunchOwns, GensSame
  <2>2. CASE /\ t # 0 /\ slots' = [slots EXCEPT ![s] = Active(1, t, t)] /\ gens' = gens
             /\ \/ launch' = [launch EXCEPT ![l] = Request(l, "leased", t)]
                \/ launch' = [launch EXCEPT ![l] = [pc |-> "idle"]]
    <3>1. PICK v : launch' = [launch EXCEPT ![l] = v] /\ v.pc \in {"idle", "leased"}
      BY <1>5, <2>2
    <3>2. Kept(t, s) /\ t \in Gens
      BY Zenon, <1>3, <1>4, <1>8, <2>2 DEF Publish, At, LaunchPiece, Kept
    <3>3. slots'[s].tag = "Active" /\ slots'[s].domain = t /\ slots'[s].temp = t
      BY <1>1, <2>2, <3>2, SlotValues DEF TypeInv
    <3>4. SlotPiece(s)'
      BY Zenon, <2>2, <3>2, <3>3 DEF SlotPiece, Held, Kept
    <3> QED
      BY ZenonT(40), <1>2, <1>4, <2>2, <3>1, <3>4, LaunchOwns, GensSame
  <2> QED
    BY Zenon, <1>3, <1>4, <1>8, <2>1, <2>2 DEF Publish, MarkerRetracted, FailLaunch, GoLaunch, SetSlot
<1> QED
  BY Zenon, <1>6, <1>7, <1>8

\* Processes come and go.
LEMMA ProcessOwn ==
  ASSUME Inv, OwnInv, (\E l \in Launches : Spawn(l) \/ Fork(l)) \/ UNCHANGED vars
                      \/ \E g \in Gens, m \in Members : Exit(g, m)
  PROVE  OwnInv'
<1>1. TypeInv /\ PieceInv /\ MemberInv /\ LeaseInv
  BY Zenon DEF Inv, OwnInv
<1>2. UNCHANGED <<slots, gens, release>> /\ StillDropped /\ \A g \in Gens : StillKept(g)
  BY Zenon, GensSame DEF Spawn, Fork, Exit, vars
<1>3. CASE UNCHANGED vars \/ \E g \in Gens, m \in Members : Exit(g, m)
  <2>1. launch' = launch /\ NoneAdded
    BY <1>1, <1>3 DEF Exit, vars, NoneAdded, TypeInv
  <2> QED
    BY Zenon, <1>2, <2>1, OwnFrame
<1>4. CASE \E l \in Launches : Spawn(l) \/ Fork(l)
  <2>1. PICK l \in Launches : Spawn(l) \/ Fork(l)
    BY Zenon, <1>4
  <2>2. launch[l].pc \in {"leased", "running"} /\ Leased(l)
    BY Zenon, <2>1 DEF Spawn, Fork, At, Leased
  <2>3. PICK s \in Sandboxes, h \in Gens : s = launch[l].sandbox /\ h = launch[l].gen
    BY <1>1, <2>2, LaunchAt DEF LeaseInv, Gens
  <2>4. Held(s) /\ slots[s].domain = h /\ h # 0
    BY Zenon, <1>1, <2>2, <2>3 DEF LeaseInv
  <2>5. gens[h].cgroup = "present" /\ Owned(h)
    BY Zenon, <1>1, <2>4 DEF PieceInv, SlotPiece, Kept, Owned
  <2>6. /\ \A k \in Launches \ {l} : launch'[k] = launch[k]
        /\ launch'[l].pc = "running" /\ launch'[l].gen = h
    <3>1. CASE Fork(l)
      BY Zenon, <2>3, <3>1 DEF Fork, At
    <3>2. CASE Spawn(l)
      <4>1. Request(l, "running", h).pc = "running" /\ Request(l, "running", h).gen = h
        BY <1>1, <2>2, <2>3, LaunchAt, LaunchMoved
      <4> QED
        BY ZenonT(40), <1>1, <2>3, <3>2, <4>1 DEF Spawn, GoLaunch, TypeInv
    <3> QED
      BY Zenon, <2>1, <3>1, <3>2
  <2>7. /\ \A g \in Gens \ {h} : members'[g] = members[g]
        /\ \A k \in Launches \ {l} : members'[h][k] = members[h][k]
    <3>1. Detached \notin Launches
      BY Zenon, RegistryAssumption DEF RegistryAssumption
    <3> QED
      BY <1>1, <2>1, <2>3, <3>1 DEF Spawn, Fork, TypeInv, Members
  <2>8. \A g \in Gens, k \in Launches : members'[g][k] # "none" => launch'[k].pc = "running" /\ launch'[k].gen = g
    <3>1. \A g \in Gens, k \in Launches : members[g][k] # "none" => launch[k].pc = "running" /\ launch[k].gen = g
      BY Zenon, <1>1 DEF MemberInv
    <3> QED
      BY <2>3, <2>6, <2>7, <3>1
  <2>9. \A g \in Gens : HasMembers(g)' => gens'[g].cgroup = "present" /\ Owned(g)'
    <3>1. \A g \in Gens : g # h /\ HasMembers(g)' => HasMembers(g)
      BY Zenon, <2>7 DEF HasMembers
    <3>2. \A g \in Gens : Owned(g) => Owned(g)'
      BY Zenon, <1>2 DEF Owned, Held, Holds
    <3> QED
      BY Zenon, <1>1, <1>2, <2>5, <3>1, <3>2 DEF MemberInv
  <2>10. PieceInv'
    <3>1. \A k \in Launches : LaunchPiece(k)'
      <4>1. LaunchPiece(l)'
        BY Zenon, <2>6 DEF LaunchPiece
      <4>2. \A k \in Launches \ {l} : LaunchPiece(k)'
        BY <1>1, <1>2, <2>6 DEF PieceInv, LaunchPiece, Kept, Dropped
      <4> QED
        BY Zenon, <4>1, <4>2
    <3>2. \A z \in Sandboxes : SlotPiece(z)'
      BY Zenon, <1>1, <1>2 DEF PieceInv, SlotPiece, Kept, Dropped, Held
    <3>3. \A r \in Releasers : ReleasePiece(r)'
      BY Zenon, <1>1, <1>2 DEF PieceInv, ReleasePiece, Kept, Dropped, Tearing, Deleting
    <3> QED
      BY Zenon, <3>1, <3>2, <3>3 DEF PieceInv
  <2> QED
    BY Zenon, <2>8, <2>9, <2>10 DEF OwnInv, MemberInv
<1> QED
  BY Zenon, <1>3, <1>4

\* The last lease of an empty domain is dropped and its slot retires.
LEMMA RetireOwn ==
  ASSUME Inv, Apart, OwnInv, NEW l \in Launches, NEW s \in Sandboxes, Held(s), slots[s].domain # 0,
         NEW w \in SlotType, slots' = [slots EXCEPT ![s] = w],
         w.tag = "absent" \/ (w.tag = "CleanupPending" /\ w.temp = slots[s].domain),
         ~HasMembers(slots[s].domain), \A g \in Gens : members[g][l] = "none",
         launch' = [launch EXCEPT ![l] = [pc |-> "idle"]], UNCHANGED <<members, release>>,
         gens' \in [Gens -> GenType], gens'[slots[s].domain].cgroup = "removed",
         \A g \in Gens \ {slots[s].domain} : gens'[g] = gens[g]
  PROVE  OwnInv'
<1>1. TypeInv /\ PieceInv /\ MemberInv
  BY Zenon DEF Inv, OwnInv
<1>2. PICK d \in Gens : d = slots[s].domain /\ d # 0
  BY Zenon, <1>1 DEF PieceInv, SlotPiece, Kept
<1>3. StillDropped /\ \A g \in Gens \ {d} : StillKept(g)
  BY Zenon, <1>2 DEF StillDropped, StillKept
<1>4. launch'[l].pc = "idle" /\ \A k \in Launches \ {l} : launch'[k] = launch[k]
  BY Zenon, <1>1, LaunchValues DEF TypeInv
<1>5. slots'[s] = w /\ \A z \in Sandboxes \ {s} : slots'[z] = slots[z]
  BY Zenon, <1>1 DEF TypeInv
<1>6. SlotPiece(s)'
  BY Zenon, <1>2, <1>5 DEF SlotPiece, Held, Dropped
<1>7. \A z \in Sandboxes \ {s} : SlotPiece(z)'
  <2>1. \A z \in Sandboxes \ {s} : Held(z) /\ slots[z].domain # 0 => slots[z].domain \in Gens \ {d}
    BY <1>1, <1>2, Sole DEF PieceInv, SlotPiece, Kept
  <2> QED
    BY ZenonT(40), <1>1, <1>3, <1>5, <2>1, PieceFrame
<1>8. \A k \in Launches : LaunchPiece(k)'
  <2>1. \A k \in Launches : launch[k].pc = "publish" /\ launch[k].gen # 0 => launch[k].gen \in Gens \ {d}
    BY Zenon, <1>1, <1>2, Sole DEF PieceInv, LaunchPiece, Kept
  <2>2. LaunchPiece(l)'
    BY Zenon, <1>4 DEF LaunchPiece
  <2> QED
    BY ZenonT(40), <1>1, <1>3, <1>4, <2>1, <2>2, PieceFrame
<1>9. \A r \in Releasers : ReleasePiece(r)'
  <2>1. \A r \in Releasers : Tearing(r) /\ release[r].domain # 0 => release[r].domain \in Gens \ {d}
    BY <1>1, <1>2, Sole DEF PieceInv, ReleasePiece, Kept
  <2>2. \A r \in Releasers : Tearing(r) => release[r].sandbox \in Sandboxes \ {s}
    <3>1. slots[s] # Deleting(0, 0, 0)
      BY <1>2 DEF Deleting
    <3> QED
      BY Zenon, <1>1, <3>1, Places DEF PieceInv, ReleasePiece, Tearing, Works
  <2> QED
    BY ZenonT(40), <1>1, <1>3, <1>5, <2>1, <2>2, PieceFrame
<1>10. MemberInv'
  <2>1. ASSUME NEW g \in Gens, HasMembers(g) PROVE gens'[g].cgroup = "present" /\ (Owned(g) => Owned(g)')
    <3>1. g # d /\ gens'[g] = gens[g] /\ gens[g].cgroup = "present"
      BY Zenon, <1>1, <1>2, <2>1 DEF MemberInv
    <3>2. gens[g].sandbox \in Sandboxes
      BY ZenonT(40), <1>1, <3>1, GenFacts DEF TypeInv
    <3>3. Held(gens[g].sandbox) /\ slots[gens[g].sandbox].domain = g =>
            Held(gens[g].sandbox)' /\ slots'[gens[g].sandbox].domain = g
      BY <1>2, <1>5, <3>1, <3>2 DEF Held
    <3>4. \A r \in Releasers : Holds(r, g) => Holds(r, g)'
      BY Zenon DEF Holds
    <3> QED
      BY ZenonT(40), <3>1, <3>3, <3>4, OwnerKept
  <2>2. NoneAdded
    BY Zenon DEF NoneAdded
  <2> QED
    BY ZenonT(40), <1>1, <1>4, <2>1, <2>2, MemberFrame
<1> QED
  BY Zenon, <1>6, <1>7, <1>8, <1>9, <1>10 DEF OwnInv, PieceInv

\* A lease is dropped.
LEMMA FinishedOwn == ASSUME Inv, Apart, OwnInv, NEW l \in Launches, launch_finished(l) PROVE OwnInv'
<1>1. TypeInv /\ PieceInv /\ MemberInv /\ LeaseInv
  BY Zenon DEF Inv, OwnInv
<1>2. /\ Leased(l) /\ launch[l].pc # "idle" /\ launch' = [launch EXCEPT ![l] = [pc |-> "idle"]]
      /\ UNCHANGED <<members, release>>
  BY Zenon DEF launch_finished, At, Leased, FailLaunch, GoLaunch
<1>3. PICK s \in Sandboxes : s = launch[l].sandbox
  BY ZenonT(40), <1>1, <1>2, LaunchAt
<1>4. /\ slots[s] \in SlotType /\ Held(s) /\ slots[s].in_flight \in Nat /\ slots[s].in_flight # 0
      /\ slots[s].domain \in Gens /\ slots[s].domain # 0 /\ slots[s].temp = slots[s].domain
      /\ slots[s] # Deleting(0, 0, 0)
  <2>1. Held(s) /\ slots[s].domain # 0 /\ slots[s] \in SlotType
    BY Zenon, <1>1, <1>2, <1>3 DEF LeaseInv, TypeInv
  <2>2. slots[s].domain \in Gens /\ slots[s].temp = slots[s].domain /\ slots[s].in_flight \in Nat
    BY Zenon, <1>1, <2>1, SlotFacts DEF PieceInv, SlotPiece, Kept, Held
  <2>3. l \in Leases(s) /\ Leases(s) \in SUBSET Launches
    BY Zenon, <1>2, <1>3 DEF Leases, Leased
  <2>4. Cardinality(Leases(s)) \in Nat /\ Cardinality(Leases(s)) # 0
    BY Zenon, <2>3, Counted
  <2>5. slots[s].in_flight # 0
    BY <1>1, <2>1, <2>2, <2>4 DEF LeaseInv, Barrier
  <2> QED
    BY <2>1, <2>2, <2>5 DEF Deleting
<1>5. PICK w \in SlotType :
        /\ w = [slots[s] EXCEPT !.in_flight = IF @ = 0 THEN 0 ELSE @ - 1]
        /\ w.tag = slots[s].tag /\ w.domain = slots[s].domain /\ w.temp = slots[s].temp
  <2> DEFINE n == IF slots[s].in_flight = 0 THEN 0 ELSE slots[s].in_flight - 1
             w == [slots[s] EXCEPT !.in_flight = n]
  <2>1. n \in Nat /\ w = [slots[s] EXCEPT !.in_flight = IF @ = 0 THEN 0 ELSE @ - 1]
    BY <1>4
  <2>2. w \in SlotType /\ w.tag = slots[s].tag /\ w.domain = slots[s].domain /\ w.temp = slots[s].temp
    <3> HIDE DEF n
    <3> QED
      BY <1>4, <2>1, SlotCounted DEF Held
  <2> HIDE DEF w
  <2> QED
    BY Zenon, <2>1, <2>2
<1>6. \A g \in Gens : members[g][l] = "none"
  <2>1. launch[l].pc = "leased" \/ (launch[l].pc = "running" /\ members[launch[l].gen][l] = "none")
    BY Zenon DEF launch_finished, At
  <2> QED
    BY Zenon, <1>1, <2>1 DEF MemberInv
<1>7. CASE slots' = [slots EXCEPT ![s] = w] /\ gens' = gens
  <2>1. slots'[s] = w
    BY Zenon, <1>1, <1>7 DEF TypeInv
  <2>2. SlotPiece(s)' /\ Held(s)' /\ slots'[s].domain = slots[s].domain
    <3>1. SlotPiece(s)
      BY Zenon, <1>1 DEF PieceInv
    <3> QED
      BY <1>4, <1>5, <1>7, <2>1, <3>1 DEF SlotPiece, Held, Kept, Dropped
  <2>3. PICK v : launch' = [launch EXCEPT ![l] = v] /\ v.pc = "idle"
    BY Zenon, <1>2, LaunchValues
  <2> QED
    BY ZenonT(40), <1>2, <1>4, <1>6, <1>7, <2>2, <2>3, LaunchOwns, GensSame
<1>8. ~populated(w.domain) => ~HasMembers(slots[s].domain)
  BY Zenon, <1>5 DEF populated, HasMembers
<1>9. gens[slots[s].domain] \in GenType /\ gens[slots[s].domain].cgroup = "present"
  BY Zenon, <1>1, <1>4 DEF TypeInv, PieceInv, SlotPiece, Kept
<1>10. CASE /\ slots' = [slots EXCEPT ![s] = CleanupPending(w.temp)] /\ ~populated(w.domain)
            /\ gens' = [gens EXCEPT ![w.domain].cgroup = "removed"]
  <2>1. /\ CleanupPending(w.temp) \in SlotType /\ CleanupPending(w.temp).tag = "CleanupPending"
        /\ CleanupPending(w.temp).temp = slots[s].domain
    BY <1>4, <1>5, SlotValues
  <2>2. GensKept
    BY ZenonT(40), <1>1, <1>5, <1>9, <1>10, GenChanged DEF TypeInv
  <2>3. /\ gens' \in [Gens -> GenType] /\ gens'[slots[s].domain].cgroup = "removed"
        /\ \A g \in Gens \ {slots[s].domain} : gens'[g] = gens[g]
    <3>1. gens'[slots[s].domain] = [gens[slots[s].domain] EXCEPT !.cgroup = "removed"]
          /\ \A g \in Gens \ {slots[s].domain} : gens'[g] = gens[g]
      BY Zenon, <1>1, <1>4, <1>5, <1>10 DEF TypeInv
    <3>2. gens'[slots[s].domain].cgroup = "removed"
      BY Zenon, <1>9, <3>1 DEF GenType
    <3> QED
      BY Zenon, <2>2, <3>1, <3>2 DEF GensKept
  <2> QED
    BY ZenonT(40), <1>2, <1>4, <1>6, <1>8, <1>10, <2>1, <2>3, RetireOwn
<1>11. CASE /\ slots' = [slots EXCEPT ![s] = Absent] /\ ~populated(w.domain)
            /\ gens' = [gens EXCEPT ![w.domain].cgroup = "removed", ![w.domain].temp = FALSE]
  <2>1. Absent \in SlotType /\ Absent.tag = "absent"
    BY Zenon, SlotValues
  <2>2. GensKept
    BY ZenonT(40), <1>1, <1>5, <1>9, <1>11, GenChanged DEF TypeInv
  <2>3. /\ gens' \in [Gens -> GenType] /\ gens'[slots[s].domain].cgroup = "removed"
        /\ \A g \in Gens \ {slots[s].domain} : gens'[g] = gens[g]
    <3>1. gens'[slots[s].domain] = [gens[slots[s].domain] EXCEPT !.cgroup = "removed", !.temp = FALSE]
          /\ \A g \in Gens \ {slots[s].domain} : gens'[g] = gens[g]
      BY Zenon, <1>1, <1>4, <1>5, <1>11 DEF TypeInv
    <3>2. gens'[slots[s].domain].cgroup = "removed"
      BY Zenon, <1>9, <3>1 DEF GenType
    <3> QED
      BY Zenon, <2>2, <3>1, <3>2 DEF GensKept
  <2> QED
    BY ZenonT(40), <1>2, <1>4, <1>6, <1>8, <1>11, <2>1, <2>3, RetireOwn
<1> QED
  BY ZenonT(40), <1>3, <1>4, <1>5, <1>7, <1>10, <1>11 DEF launch_finished, Retire, KeptTemp, SetSlot, Held

-----------------------------------------------------------------------------
(* The releases and the shutdown.                                          *)

\* A releaser that begins or returns, and changes no slot that has a domain.
LEMMA ReleaseOwns ==
  ASSUME Inv, OwnInv, NEW r \in Releasers, NEW v, release' = [release EXCEPT ![r] = v],
         v.pc \notin Tears, v.pc = "pending" => Dropped(v.temp)', release[r].pc \notin Killing,
         StillDropped, \A g \in Gens : StillKept(g), UNCHANGED <<members, launch>>,
         \A s \in Sandboxes :
           \/ slots'[s] = slots[s]
           \/ ~Held(s) /\ ~Held(s)' /\ (slots'[s].tag = "CleanupPending" => Dropped(slots[s].temp)')
  PROVE  OwnInv'
<1>1. release'[r] = v /\ \A q \in Releasers \ {r} : release'[q] = release[q]
  BY Zenon DEF Inv, TypeInv
<1>2. ReleasePiece(r)'
  BY Zenon, <1>1 DEF ReleasePiece, Tearing, Tears
<1>3. NoneAdded
  BY Zenon DEF NoneAdded
<1>4. \A s \in Sandboxes : ~Held(s) => slots[s] # Deleting(0, 0, 0)
  BY DEF Held, Deleting
<1>5. \A s \in Sandboxes : ~Held(s)' /\ (slots'[s].tag = "CleanupPending" => Dropped(slots[s].temp)') => SlotPiece(s)'
  BY Zenon DEF SlotPiece
<1> QED
  BY ZenonT(40), <1>1, <1>2, <1>3, <1>4, <1>5, OwnFrame

\* A delete begins, the daemon is told to stop, the shutdown turns to its
\* next sandbox, a release returns.
LEMMA CallOwn ==
  ASSUME Inv, OwnInv,
         \/ \E d \in Deleters : DeleteBegin(d)
         \/ StopAccepting \/ ShutdownNext
         \/ \E r \in Releasers : ReleaseReturn(r) \/ (MarkDeleting(r) /\ Return(r, "err") /\ UNCHANGED <<slots, members>>)
  PROVE  OwnInv'
<1>1. UNCHANGED <<slots, gens, members, launch>> /\ StillDropped /\ \A g \in Gens : StillKept(g)
  BY Zenon, GensSame DEF DeleteBegin, StopAccepting, ShutdownNext, ReleaseReturn, MarkDeleting
<1>2. ASSUME NEW r \in Releasers, NEW v, release' = [release EXCEPT ![r] = v],
             v.pc \in {"wait", "stop", "ok", "err"}, release[r].pc \notin Killing
      PROVE  OwnInv'
  <2>1. v.pc \notin Tears /\ v.pc # "pending"
    BY Zenon, <1>2 DEF Tears
  <2> QED
    BY Zenon, <1>1, <1>2, <2>1, ReleaseOwns
<1>3. CASE \E d \in Deleters : DeleteBegin(d)
  <2>1. PICK d \in Deleters, s \in Sandboxes : release' = [release EXCEPT ![d] = Call(s)] /\ Idle(d)
    BY Zenon, <1>3 DEF DeleteBegin, GoRelease
  <2>2. d \in Releasers /\ Call(s).pc = "wait" /\ release[d].pc \notin Killing
    BY Zenon, <2>1, ReleaseValues DEF Releasers, Idle, Killing
  <2> QED
    BY Zenon, <1>2, <2>1, <2>2
<1>4. CASE StopAccepting
  <2>1. release[Shutdown].pc = "idle" /\ release' = [release EXCEPT ![Shutdown] = [pc |-> "stop"]]
    BY Zenon, <1>4 DEF StopAccepting, GoRelease, Inv, MarkerInv
  <2>2. Shutdown \in Releasers /\ [pc |-> "stop"].pc = "stop" /\ release[Shutdown].pc \notin Killing
    BY Zenon, <2>1 DEF Releasers, Killing
  <2> QED
    BY ZenonT(40), <1>2, <2>1, <2>2
<1>5. CASE ShutdownNext
  <2>1. PICK s \in todo : release' = [release EXCEPT ![Shutdown] = Call(s)] /\ release[Shutdown].pc \in {"next", "ok", "err"}
    BY Zenon, <1>5 DEF ShutdownNext, GoRelease
  <2>2. Shutdown \in Releasers /\ Call(s).pc = "wait" /\ release[Shutdown].pc \notin Killing
    BY Zenon, <2>1 DEF Releasers, Call, Killing
  <2> QED
    BY Zenon, <1>2, <2>1, <2>2
<1>6. CASE \E r \in Releasers : ReleaseReturn(r) \/ (MarkDeleting(r) /\ Return(r, "err") /\ UNCHANGED <<slots, members>>)
  <2>1. PICK r \in Releasers, p \in {"ok", "err"} : Return(r, p) /\ release[r].pc = "wait"
    BY Zenon, <1>6 DEF ReleaseReturn, MarkDeleting, In
  <2>2. PICK v : release' = [release EXCEPT ![r] = v] /\ v.pc = p
    <3>1. TypeInv /\ release[r].sandbox \in Sandboxes
      BY Zenon, <2>1, ReleaseAt DEF Inv, Works
    <3> QED
      BY <2>1, <3>1, Returned
  <2>3. release[r].pc \notin Killing
    BY Zenon, <2>1 DEF Killing
  <2> QED
    BY Zenon, <1>2, <2>2, <2>3
<1> QED
  BY ZenonT(40), <1>3, <1>4, <1>5, <1>6

\* Active slots are marked Deleting and what runs in them is killed.
LEMMA MarkOwn ==
  ASSUME Inv, OwnInv, (\E r \in Releasers : MarkDeleting(r)) \/ ShutdownSnapshot \/ ForceShutdown
  PROVE  OwnInv'
<1>1. TypeInv /\ PieceInv
  BY Zenon DEF Inv, OwnInv
<1>2. UNCHANGED <<gens, launch>> /\ StillDropped /\ \A g \in Gens : StillKept(g)
  BY Zenon, GensSame DEF MarkDeleting, ShutdownSnapshot, ForceShutdown
<1>3. \A r \in Releasers : release'[r] = release[r] \/ (ReleasePiece(r)' /\ release[r].pc \notin Killing)
      \/ \E q \in Releasers : MarkDeleting(q) /\ Return(q, "err") /\ UNCHANGED <<slots, members>>
  <2>1. CASE \E r \in Releasers : MarkDeleting(r)
    BY Zenon, <2>1 DEF MarkDeleting
  <2>2. CASE ForceShutdown
    BY Zenon, <2>2 DEF ForceShutdown
  <2>3. CASE ShutdownSnapshot
    <3>1. /\ release' = [release EXCEPT ![Shutdown] = [pc |-> "next"]] /\ release[Shutdown].pc = "stop"
          /\ release \in [Releasers -> ReleaseType]
      BY Zenon, <1>1, <2>3 DEF ShutdownSnapshot, In, GoRelease, TypeInv
    <3>2. release'[Shutdown].pc = "next" /\ \A r \in Releasers \ {Shutdown} : release'[r] = release[r]
      BY Zenon, <3>1 DEF Releasers
    <3>3. ReleasePiece(Shutdown)' /\ release[Shutdown].pc \notin Killing
      BY Zenon, <3>1, <3>2 DEF ReleasePiece, Tearing, Tears, Killing
    <3> QED
      BY Zenon, <3>2, <3>3
  <2> QED
    BY Zenon, <2>1, <2>2, <2>3
<1>4. CASE \E q \in Releasers : MarkDeleting(q) /\ Return(q, "err") /\ UNCHANGED <<slots, members>>
  BY Zenon, <1>4, CallOwn
<1>5. CASE ~\E q \in Releasers : MarkDeleting(q) /\ Return(q, "err") /\ UNCHANGED <<slots, members>>
  <2>1. NoneAdded
    <3>1. \A h, g \in Gens, m \in Members : kill_all(h)[g][m] # "none" => members[g][m] # "none"
      BY Zenon, <1>1 DEF kill_all, TypeInv
    <3>2. CASE \E r \in Releasers : MarkDeleting(r)
      <4>1. PICK r \in Releasers : MarkDeleting(r) /\ members' = kill_all(slots[release[r].sandbox].domain)
                                   /\ slots[release[r].sandbox].tag = "Active" /\ release[r].pc = "wait"
        BY Zenon, <1>5, <3>2 DEF MarkDeleting, In
      <4>2. slots[release[r].sandbox].domain \in Gens
        BY Zenon, <1>1, <4>1, ReleaseAt, SlotFacts DEF Works
      <4> QED
        BY Zenon, <3>1, <4>1, <4>2 DEF NoneAdded
    <3>3. CASE ShutdownSnapshot \/ ForceShutdown
      <4>1. PICK K : MarkAllDeleting(K)
        BY Zenon, <3>3 DEF ShutdownSnapshot, ForceShutdown
      <4>2. \A g \in Gens : members'[g] = kill_all(g)[g] \/ members'[g] = members[g]
        BY Zenon, <4>1 DEF MarkAllDeleting
      <4> QED
        BY Zenon, <3>1, <4>2 DEF NoneAdded
    <3> QED
      BY Zenon, <3>2, <3>3
  <2>2. \A s \in Sandboxes :
          \/ slots'[s] = slots[s]
          \/ slots[s].tag = "Active" /\ slots'[s] = Deleting(slots[s].in_flight, slots[s].domain, slots[s].temp)
    <3>1. CASE \E r \in Releasers : MarkDeleting(r)
      BY Zenon, <1>1, <1>5, <3>1 DEF MarkDeleting, SetSlot, TypeInv
    <3>2. CASE ShutdownSnapshot \/ ForceShutdown
      <4>1. PICK K : MarkAllDeleting(K)
        BY Zenon, <3>2 DEF ShutdownSnapshot, ForceShutdown
      <4> QED
        BY Zenon, <4>1 DEF MarkAllDeleting, Live
    <3> QED
      BY Zenon, <3>1, <3>2
  <2>3. ASSUME NEW s \in Sandboxes, slots[s].tag = "Active",
               slots'[s] = Deleting(slots[s].in_flight, slots[s].domain, slots[s].temp)
        PROVE  /\ slots[s] # Deleting(0, 0, 0) /\ SlotPiece(s)'
               /\ Held(s) /\ slots[s].domain # 0 => Held(s)' /\ slots'[s].domain = slots[s].domain
    <3>1. slots'[s].tag = "Deleting" /\ slots'[s].domain = slots[s].domain /\ slots'[s].temp = slots[s].temp
      BY <2>3 DEF Deleting
    <3>2. SlotPiece(s) /\ slots[s] # Deleting(0, 0, 0)
      BY <1>1, <2>3 DEF PieceInv, Deleting
    <3> QED
      BY Zenon, <1>2, <2>3, <3>1, <3>2 DEF SlotPiece, Held, Kept, Dropped
  <2> QED
    BY ZenonT(40), <1>2, <1>3, <1>5, <2>1, <2>2, <2>3, OwnFrame
<1> QED
  BY Zenon, <1>4, <1>5

\* A pending temp tree is removed, or goes back.
LEMMA PendingOwn ==
  ASSUME Inv, OwnInv, NEW r \in Releasers, FinishPendingBegin(r) \/ FinishPendingEnd(r)
  PROVE  OwnInv'
<1>1. TypeInv /\ PieceInv /\ MarkerInv
  BY Zenon DEF Inv, OwnInv
<1>2. /\ release[r].pc \in {"wait", "pending"} /\ release[r].pc \in Works /\ release[r].pc \notin Killing
      /\ UNCHANGED <<members, launch>>
  BY Zenon DEF FinishPendingBegin, FinishPendingEnd, In, Works, Killing
<1>3. PICK s \in Sandboxes : s = release[r].sandbox /\ slots[s] \in SlotType /\ release[r] \in ReleaseType
  BY Zenon, <1>1, <1>2, ReleaseAt
<1>4. CASE FinishPendingBegin(r)
  <2>1. /\ slots[s].tag = "CleanupPending" /\ Dropped(slots[s].temp) /\ slots[s].temp \in 0 .. MaxGen
        /\ slots' = [slots EXCEPT ![s] = Creating] /\ gens' = gens
    BY <1>1, <1>3, <1>4, SlotFacts DEF FinishPendingBegin, SetSlot, PieceInv, SlotPiece, Gens
  <2>2. PICK v : release' = [release EXCEPT ![r] = v] /\ v.pc = "pending" /\ v.temp = slots[s].temp
    <3> DEFINE v == [release[r] EXCEPT !.pc = "pending", !.temp = slots[s].temp]
    <3>1. release' = [release EXCEPT ![r] = v]
      BY Zenon, <1>3, <1>4 DEF FinishPendingBegin, GoRelease
    <3>2. v.pc = "pending" /\ v.temp = slots[s].temp
      BY Zenon, <1>2, <1>3 DEF ReleaseType, Works, Tears
    <3> HIDE DEF v
    <3> QED
      BY Zenon, <3>1, <3>2
  <2>3. slots'[s].tag = "Creating" /\ \A z \in Sandboxes \ {s} : slots'[z] = slots[z]
    BY <1>1, <2>1, SlotValues DEF TypeInv
  <2>4. ~Held(s) /\ ~Held(s)' /\ v.pc \notin Tears /\ Dropped(v.temp)'
    BY Zenon, <2>1, <2>2, <2>3 DEF Held, Tears, Dropped
  <2> QED
    BY ZenonT(40), <1>2, <2>1, <2>2, <2>3, <2>4, ReleaseOwns, GensSame
<1>5. CASE FinishPendingEnd(r)
  <2>1. release[r].pc = "pending" /\ slots[s].tag = "Creating" /\ Dropped(release[r].temp)
    BY Zenon, <1>1, <1>3, <1>5 DEF FinishPendingEnd, In, MarkerInv, PieceInv, ReleasePiece
  <2>2. PICK v : release' = [release EXCEPT ![r] = v] /\ v.pc \in {"ok", "err"}
    <3>1. PICK p \in {"ok", "err"} : Return(r, p)
      BY Zenon, <1>5 DEF FinishPendingEnd
    <3> QED
      BY Zenon, <1>1, <1>3, <3>1, Returned
  <2>3. /\ \/ gens' = [gens EXCEPT ![release[r].temp].temp = FALSE] /\ slots' = [slots EXCEPT ![s] = Absent]
           \/ gens' = gens /\ slots' = [slots EXCEPT ![s] = CleanupPending(release[r].temp)]
    BY Zenon, <1>3, <1>5, <2>1 DEF FinishPendingEnd, SetSlot
  <2>4. StillDropped /\ \A g \in Gens : StillKept(g)
    BY ZenonT(40), <1>1, <2>1, <2>3, TempGone, GensSame
  <2>5. PICK t \in Gens : t = release[r].temp /\ Dropped(t)'
    BY Zenon, <2>1, <2>4 DEF Dropped, StillDropped
  <2>6. /\ slots'[s].tag \in {"absent", "CleanupPending"} /\ \A z \in Sandboxes \ {s} : slots'[z] = slots[z]
        /\ slots'[s].tag = "CleanupPending" => slots'[s].temp = t
    BY <1>1, <2>3, <2>5, SlotValues DEF TypeInv
  <2>7. /\ ~Held(s) /\ ~Held(s)' /\ v.pc \notin Tears /\ v.pc # "pending"
        /\ slots'[s].tag = "CleanupPending" => Dropped(slots[s].temp)'
    BY Zenon, <2>1, <2>2, <2>5, <2>6 DEF Held, Tears, Dropped
  <2> QED
    BY ZenonT(40), <1>2, <2>2, <2>4, <2>6, <2>7, ReleaseOwns
<1> QED
  BY Zenon, <1>4, <1>5

\* A releaser takes over what the drained slot held.
LEMMA TakeOverOwn == ASSUME Inv, Apart, OwnInv, NEW r \in Releasers, TakeOver(r) PROVE OwnInv'
<1>1. TypeInv /\ PieceInv /\ MemberInv
  BY Zenon DEF Inv, OwnInv
<1>2. /\ release[r].pc = "wait" /\ release[r].pc \in Works /\ Working(r) /\ ~Tearing(r)
      /\ UNCHANGED <<gens, members, launch>> /\ StillDropped /\ \A g \in Gens : StillKept(g)
  BY Zenon, GensSame DEF TakeOver, In, Works, Working, Tearing, Tears
<1>3. PICK s \in Sandboxes : s = release[r].sandbox /\ slots[s] \in SlotType /\ release[r] \in ReleaseType
  BY Zenon, <1>1, <1>2, ReleaseAt
<1>4. /\ slots[s].tag = "Deleting" /\ Held(s) /\ SlotPiece(s)
      /\ slots[s].domain \in 0 .. MaxGen /\ slots[s].temp \in 0 .. MaxGen
  BY Zenon, <1>1, <1>3, SlotFacts DEF TakeOver, Held, PieceInv
<1>5. PICK v : /\ release' = [release EXCEPT ![r] = v] /\ v.sandbox = s
               /\ v.domain = slots[s].domain /\ v.temp = slots[s].temp
               /\ v.pc = IF slots[s].domain = 0 THEN "temp" ELSE "kill"
  <2> DEFINE p == IF slots[s].domain = 0 THEN "temp" ELSE "kill"
             v == [release[r] EXCEPT !.pc = p, !.domain = slots[s].domain, !.temp = slots[s].temp]
  <2>1. release' = [release EXCEPT ![r] = v]
    BY Zenon, <1>3 DEF TakeOver, GoRelease
  <2>2. v.sandbox = s /\ v.domain = slots[s].domain /\ v.temp = slots[s].temp /\ v.pc = p
    <3> HIDE DEF p
    <3> QED
      BY Zenon, <1>2, <1>3 DEF ReleaseType, Works, Tears
  <2> HIDE DEF v
  <2> QED
    BY Zenon, <2>1, <2>2
<1>6. /\ release'[r] = v /\ \A q \in Releasers \ {r} : release'[q] = release[q]
      /\ slots'[s] = Deleting(0, 0, 0) /\ \A z \in Sandboxes \ {s} : slots'[z] = slots[z]
  BY Zenon, <1>1, <1>3, <1>5 DEF TakeOver, SetSlot, TypeInv
<1>7. ReleasePiece(r)'
  <2>1. \A g, z : (Kept(g, z) => Kept(g, z)') /\ (Dropped(g) => Dropped(g)')
    BY Zenon, <1>2 DEF Kept, Dropped
  <2>2. v.pc \in {"temp", "kill"} /\ Tearing(r)'
    BY Zenon, <1>5, <1>6 DEF Tearing, Tears
  <2> QED
    BY ZenonT(40), <1>4, <1>5, <1>6, <2>1, <2>2 DEF ReleasePiece, SlotPiece
<1>8. \A q \in Releasers \ {r} : ReleasePiece(q)'
  <2>1. \A q \in Releasers \ {r} : Tearing(q) => release[q].sandbox \in Sandboxes \ {s}
    <3>1. \A q \in Releasers : Tearing(q) => Working(q) /\ release[q].pc \in Works
      BY Zenon DEF Tearing, Working, Works
    <3> QED
      BY ZenonT(40), <1>1, <1>2, <1>3, <3>1, Alone, Places
  <2>2. \A q \in Releasers : Tearing(q) /\ release[q].domain # 0 => release[q].domain \in Gens
    BY Zenon, <1>1 DEF PieceInv, ReleasePiece, Kept
  <2> QED
    BY ZenonT(40), <1>1, <1>2, <1>6, <2>1, <2>2, PieceFrame
<1>9. \A z \in Sandboxes : SlotPiece(z)'
  <2>1. SlotPiece(s)'
    BY <1>6 DEF SlotPiece, Deleting
  <2>2. \A z \in Sandboxes \ {s} : Held(z) /\ slots[z].domain # 0 => slots[z].domain \in Gens
    BY Zenon, <1>1 DEF PieceInv, SlotPiece, Kept
  <2>3. \A z \in Sandboxes \ {s} : SlotPiece(z)'
    BY ZenonT(40), <1>1, <1>2, <1>6, <2>2, PieceFrame
  <2> QED
    BY ZenonT(40), <2>1, <2>3
<1>10. \A l \in Launches : LaunchPiece(l)'
  <2>1. \A l \in Launches : launch[l].pc = "publish" /\ launch[l].gen # 0 => launch[l].gen \in Gens
    BY Zenon, <1>1 DEF PieceInv, LaunchPiece, Kept
  <2> QED
    BY ZenonT(40), <1>1, <1>2, <2>1, PieceFrame
<1>11. MemberInv'
  <2>1. ASSUME NEW g \in Gens, HasMembers(g) PROVE gens'[g].cgroup = "present" /\ (Owned(g) => Owned(g)')
    <3>1. gens'[g] = gens[g] /\ gens[g].cgroup = "present" /\ Owned(g) /\ g # 0
      BY <1>1, <1>2, <2>1 DEF MemberInv, Gens
    <3>2. gens[g].sandbox \in Sandboxes
      BY ZenonT(40), <1>1, <3>1, GenFacts DEF TypeInv
    <3>3. CASE gens[g].sandbox = s /\ slots[s].domain = g
      <4>1. Holds(r, g)'
        BY Zenon, <1>5, <1>6, <3>1, <3>3 DEF Holds
      <4> QED
        BY Zenon, <3>1, <4>1 DEF Owned
    <3>4. CASE ~(gens[g].sandbox = s /\ slots[s].domain = g)
      <4>1. \A q \in Releasers : Holds(q, g) => Holds(q, g)'
        BY Zenon, <1>2, <1>6 DEF Holds
      <4>2. Held(gens[g].sandbox) /\ slots[gens[g].sandbox].domain = g =>
              Held(gens[g].sandbox)' /\ slots'[gens[g].sandbox].domain = g
        BY ZenonT(40), <1>6, <3>1, <3>2, <3>4 DEF Held
      <4> QED
        BY Zenon, <3>1, <4>1, <4>2, OwnerKept
    <3> QED
      BY Zenon, <3>3, <3>4
  <2>2. NoneAdded
    BY Zenon, <1>2 DEF NoneAdded
  <2> QED
    BY ZenonT(40), <1>1, <1>2, <2>1, <2>2, MemberFrame
<1> QED
  BY ZenonT(40), <1>7, <1>8, <1>9, <1>10, <1>11 DEF OwnInv, PieceInv

\* The teardown works on the domain it took over.
LEMMA TeardownOwn ==
  ASSUME Inv, Apart, OwnInv, NEW r \in Releasers, TeardownKill(r) \/ TeardownRemove(r) \/ TeardownTemp(r)
  PROVE  OwnInv'
<1>1. TypeInv /\ PieceInv /\ MemberInv
  BY Zenon DEF Inv, OwnInv
<1>2. /\ release[r].pc \in {"kill", "empty", "temp"} /\ release[r].pc \in Works /\ Tearing(r) /\ Working(r)
      /\ UNCHANGED <<slots, launch>>
  BY Zenon DEF TeardownKill, TeardownRemove, TeardownTemp, In, Works, Tearing, Working, Tears
<1>3. /\ release[r] \in ReleaseType /\ ReleasePiece(r)
      /\ release[r].domain \in 0 .. MaxGen /\ release[r].temp \in 0 .. MaxGen
  BY Zenon, <1>1, <1>2, ReleaseAt DEF PieceInv
<1>4. ASSUME NEW p, release' = [release EXCEPT ![r] = [release[r] EXCEPT !.pc = p]], gens' = gens, NoneAdded,
             p \in {"empty", "restore"}, p = "empty" => release[r].pc = "kill"
      PROVE  OwnInv'
  <2>1. \A q \in Releasers \ {r} : release'[q] = release[q]
    BY Zenon, <1>1, <1>4 DEF TypeInv
  <2>2. /\ release'[r].pc = p /\ release'[r].sandbox = release[r].sandbox
        /\ release'[r].domain = release[r].domain /\ release'[r].temp = release[r].temp
    <3>1. release'[r] = [release[r] EXCEPT !.pc = p]
      BY Zenon, <1>1, <1>4 DEF TypeInv
    <3> QED
      BY Zenon, <1>2, <1>3, <3>1 DEF ReleaseType, Works, Tears
  <2>3. ReleasePiece(r)'
    <3>1. \A g, z : (Kept(g, z) => Kept(g, z)') /\ (Dropped(g) => Dropped(g)')
      BY Zenon, <1>4 DEF Kept, Dropped
    <3>2. (slots[release[r].sandbox] = Deleting(0, 0, 0))'
      BY ZenonT(40), <1>2, <1>3, <2>2 DEF ReleasePiece, Deleting
    <3> QED
      BY ZenonT(40), <1>2, <1>3, <1>4, <2>2, <3>1, <3>2 DEF ReleasePiece
  <2>4. release'[r].pc \in Killing
    BY Zenon, <1>4, <2>2 DEF Killing
  <2> QED
    BY ZenonT(40), <1>2, <1>4, <2>1, <2>2, <2>3, <2>4, OwnFrame, GensSame
<1>5. CASE TeardownKill(r)
  <2>1. release[r].pc = "kill" /\ gens' = gens
    BY Zenon, <1>5 DEF TeardownKill, In
  <2>2. NoneAdded
    BY <1>1, <1>5 DEF TeardownKill, NoneAdded, kill_all, TypeInv
  <2> QED
    BY ZenonT(40), <1>4, <1>5, <2>1, <2>2 DEF TeardownKill, GoRelease
<1>6. CASE TeardownTemp(r)
  <2>1. release[r].pc = "temp" /\ members' = members /\ release[r].domain = 0 /\ NoneAdded
    BY Zenon, <1>3, <1>6 DEF TeardownTemp, In, ReleasePiece, NoneAdded
  <2>2. CASE gens' = gens /\ release' = [release EXCEPT ![r] = [release[r] EXCEPT !.pc = "restore"]]
    BY Zenon, <1>4, <2>1, <2>2
  <2>3. CASE /\ gens' = IF release[r].temp = 0 THEN gens ELSE [gens EXCEPT ![release[r].temp].temp = FALSE]
             /\ release' = [release EXCEPT ![r] = [release[r] EXCEPT !.pc = "remove", !.temp = 0]]
    <3>1. StillDropped /\ \A g \in Gens : StillKept(g)
      <4>1. release[r].temp # 0 => Dropped(release[r].temp)
        BY ZenonT(40), <1>2, <1>3, <2>1 DEF ReleasePiece
      <4> QED
        BY ZenonT(40), <1>1, <2>3, <4>1, TempGone, GensSame
    <3>2. \A q \in Releasers \ {r} : release'[q] = release[q]
      BY Zenon, <1>1, <2>3 DEF TypeInv
    <3>3. /\ release'[r].pc = "remove" /\ release'[r].sandbox = release[r].sandbox
          /\ release'[r].domain = release[r].domain /\ release'[r].temp = 0
      <4>1. release'[r] = [release[r] EXCEPT !.pc = "remove", !.temp = 0]
        BY Zenon, <1>1, <2>3 DEF TypeInv
      <4> QED
        BY Zenon, <1>2, <1>3, <4>1 DEF ReleaseType, Works, Tears
    <3>4. ReleasePiece(r)'
      <4>1. (slots[release[r].sandbox] = Deleting(0, 0, 0))'
        BY ZenonT(40), <1>2, <1>3, <3>3 DEF ReleasePiece, Deleting
      <4> QED
        BY ZenonT(40), <2>1, <3>3, <4>1 DEF ReleasePiece
    <3> QED
      BY ZenonT(40), <1>2, <2>1, <3>1, <3>2, <3>4, OwnFrame
  <2> QED
    BY ZenonT(40), <1>6, <2>2, <2>3 DEF TeardownTemp, GoRelease
<1>7. CASE TeardownRemove(r)
  <2>1. release[r].pc = "empty" /\ members' = members /\ NoneAdded
    BY Zenon, <1>7 DEF TeardownRemove, In, NoneAdded
  <2>2. CASE gens' = gens /\ release' = [release EXCEPT ![r] = [release[r] EXCEPT !.pc = "restore"]]
    BY Zenon, <1>4, <2>1, <2>2
  <2>3. CASE /\ ~populated(release[r].domain)
             /\ gens' = [gens EXCEPT ![release[r].domain].cgroup = "removed"]
             /\ release' = [release EXCEPT ![r] = [release[r] EXCEPT !.pc = "temp", !.domain = 0]]
    <3>1. PICK d \in Gens : /\ d = release[r].domain /\ d # 0 /\ d = release[r].temp /\ ~HasMembers(d)
                            /\ gens[d] \in GenType /\ gens[d].cgroup = "present"
      BY ZenonT(40), <1>1, <1>2, <1>3, <2>1, <2>3 DEF ReleasePiece, Kept, populated, HasMembers, TypeInv
    <3>2. gens'[d].cgroup = "removed" /\ \A g \in Gens \ {d} : gens'[g] = gens[g]
      BY ZenonT(40), <1>1, <2>3, <3>1 DEF TypeInv, GenType
    <3>3. StillDropped /\ \A g \in Gens \ {d} : StillKept(g)
      BY Zenon, <3>2 DEF StillDropped, StillKept
    <3>4. \A q \in Releasers \ {r} : release'[q] = release[q]
      BY Zenon, <1>1, <2>3 DEF TypeInv
    <3>5. /\ release'[r].pc = "temp" /\ release'[r].sandbox = release[r].sandbox
          /\ release'[r].domain = 0 /\ release'[r].temp = d
      <4>1. release'[r] = [release[r] EXCEPT !.pc = "temp", !.domain = 0]
        BY Zenon, <1>1, <2>3 DEF TypeInv
      <4> QED
        BY ZenonT(40), <1>2, <1>3, <3>1, <4>1 DEF ReleaseType, Works, Tears
    <3>6. ReleasePiece(r)'
      <4>1. (slots[release[r].sandbox] = Deleting(0, 0, 0))'
        BY Zenon, <1>2, <1>3, <3>5 DEF ReleasePiece, Deleting
      <4>2. Dropped(d)'
        BY Zenon, <3>2 DEF Dropped
      <4> QED
        BY ZenonT(40), <3>1, <3>5, <4>1, <4>2 DEF ReleasePiece
    <3>7. \A q \in Releasers \ {r} : ReleasePiece(q)'
      <4>1. \A q \in Releasers \ {r} : Tearing(q) /\ release[q].domain # 0 => release[q].domain \in Gens \ {d}
        <5>1. \A q \in Releasers \ {r} : Tearing(q) => release[q].domain # d
          BY ZenonT(40), <1>1, <1>2, <3>1, Sole
        <5>2. \A q \in Releasers : Tearing(q) /\ release[q].domain # 0 => release[q].domain \in Gens
          BY Zenon, <1>1 DEF PieceInv, ReleasePiece, Kept
        <5> QED
          BY Zenon, <5>1, <5>2
      <4> QED
        BY ZenonT(40), <1>1, <1>2, <3>3, <3>4, <4>1, PieceFrame
    <3>8. \A s \in Sandboxes : SlotPiece(s)'
      <4>1. \A s \in Sandboxes : Held(s) /\ slots[s].domain # 0 => slots[s].domain \in Gens \ {d}
        <5>1. \A s \in Sandboxes : Held(s) /\ slots[s].domain # 0 => release[r].domain # slots[s].domain
          BY Zenon, <1>2, <1>1, Sole
        <5>2. \A s \in Sandboxes : Held(s) /\ slots[s].domain # 0 => slots[s].domain \in Gens
          BY Zenon, <1>1 DEF PieceInv, SlotPiece, Kept
        <5> QED
          BY ZenonT(40), <3>1, <5>1, <5>2
      <4> QED
        BY ZenonT(40), <1>1, <1>2, <3>3, <4>1, PieceFrame
    <3>9. \A l \in Launches : LaunchPiece(l)'
      <4>1. \A l \in Launches : launch[l].pc = "publish" /\ launch[l].gen # 0 => launch[l].gen \in Gens \ {d}
        BY ZenonT(40), <1>1, <1>2, <3>1, Sole DEF PieceInv, LaunchPiece, Kept
      <4> QED
        BY ZenonT(40), <1>1, <1>2, <3>3, <4>1, PieceFrame
    <3>10. MemberInv'
      <4>1. ASSUME NEW g \in Gens, HasMembers(g) PROVE gens'[g].cgroup = "present" /\ (Owned(g) => Owned(g)')
        <5>1. g # d /\ gens'[g] = gens[g] /\ gens[g].cgroup = "present"
          BY ZenonT(40), <1>1, <3>1, <3>2, <4>1 DEF MemberInv
        <5>2. \A q \in Releasers : Holds(q, g) => Holds(q, g)'
          BY Zenon, <3>1, <3>4, <5>1 DEF Holds
        <5>3. Held(gens[g].sandbox) /\ slots[gens[g].sandbox].domain = g =>
                Held(gens[g].sandbox)' /\ slots'[gens[g].sandbox].domain = g
          BY Zenon, <1>2, <5>1 DEF Held
        <5> QED
          BY Zenon, <5>1, <5>2, <5>3, OwnerKept
      <4> QED
        BY ZenonT(40), <1>1, <1>2, <2>1, <4>1, MemberFrame
    <3> QED
      BY ZenonT(40), <3>6, <3>7, <3>8, <3>9, <3>10 DEF OwnInv, PieceInv
  <2> QED
    BY Zenon, <1>7, <2>2, <2>3 DEF TeardownRemove, GoRelease, Empty
<1> QED
  BY Zenon, <1>5, <1>6, <1>7

\* The slot goes, or gets back what is left of the domain.
LEMMA ReleaseEndOwn == ASSUME Inv, Apart, OwnInv, NEW r \in Releasers, ReleaseEnd(r) PROVE OwnInv'
<1>1. TypeInv /\ PieceInv /\ MemberInv /\ MarkerInv
  BY Zenon DEF Inv, OwnInv
<1>2. /\ release[r].pc \in {"remove", "restore"} /\ release[r].pc \in Works /\ Tearing(r) /\ Working(r)
      /\ UNCHANGED <<gens, members, launch>> /\ StillDropped /\ \A g \in Gens : StillKept(g)
  BY Zenon, GensSame DEF ReleaseEnd, In, Works, Tearing, Working, Tears
<1>3. PICK s \in Sandboxes, d \in 0 .. MaxGen, t \in 0 .. MaxGen :
        s = release[r].sandbox /\ d = release[r].domain /\ t = release[r].temp
  BY ZenonT(40), <1>1, <1>2, ReleaseAt
<1>4. ReleasePiece(r) /\ slots[s] = Deleting(0, 0, 0) /\ slots[s].domain = 0
  BY <1>1, <1>2, <1>3 DEF PieceInv, ReleasePiece, Deleting
<1>5. PICK v : release' = [release EXCEPT ![r] = v] /\ v.pc \in {"ok", "err"}
  <2>1. PICK p \in {"ok", "err"} : Return(r, p)
    BY Zenon DEF ReleaseEnd
  <2> QED
    BY ZenonT(40), <1>1, <1>3, <2>1, Returned
<1>6. PICK w : /\ slots' = [slots EXCEPT ![s] = w]
               /\ \/ w.tag = "absent" /\ release[r].pc = "remove"
                  \/ w.tag = "Deleting" /\ w.domain = d /\ w.temp = t /\ release[r].pc = "restore"
  <2>1. \/ SetSlot(s, Absent) /\ release[r].pc = "remove"
        \/ SetSlot(s, Deleting(0, d, t)) /\ release[r].pc = "restore"
    BY Zenon, <1>3 DEF ReleaseEnd, Restored, In
  <2> QED
    BY <2>1, SlotValues DEF SetSlot
<1>7. /\ release'[r] = v /\ \A q \in Releasers \ {r} : release'[q] = release[q]
      /\ slots'[s] = w /\ \A z \in Sandboxes \ {s} : slots'[z] = slots[z]
  BY Zenon, <1>1, <1>5, <1>6 DEF TypeInv
<1>8. ReleasePiece(r)'
  BY Zenon, <1>5, <1>7 DEF ReleasePiece, Tearing, Tears
<1>9. \A q \in Releasers \ {r} : ReleasePiece(q)'
  <2>1. \A q \in Releasers \ {r} : Tearing(q) => release[q].sandbox \in Sandboxes \ {s}
    <3>1. \A q \in Releasers : Tearing(q) => Working(q) /\ release[q].pc \in Works
      BY Zenon DEF Tearing, Working, Works
    <3> QED
      BY ZenonT(40), <1>1, <1>2, <1>3, <3>1, Alone, Places
  <2>2. \A q \in Releasers : Tearing(q) /\ release[q].domain # 0 => release[q].domain \in Gens
    BY Zenon, <1>1 DEF PieceInv, ReleasePiece, Kept
  <2> QED
    BY ZenonT(40), <1>1, <1>2, <1>7, <2>1, <2>2, PieceFrame
<1>10. \A z \in Sandboxes : SlotPiece(z)'
  <2>1. SlotPiece(s)'
    <3>1. \A g, z : (Kept(g, z) => Kept(g, z)') /\ (Dropped(g) => Dropped(g)')
      BY Zenon, <1>2 DEF Kept, Dropped
    <3>2. (d # 0 => Kept(d, s) /\ t = d) /\ (d = 0 /\ t # 0 => Dropped(t))
      BY Zenon, <1>2, <1>3, <1>4 DEF ReleasePiece
    <3> QED
      BY ZenonT(40), <1>6, <1>7, <3>1, <3>2 DEF SlotPiece, Held
  <2>2. \A z \in Sandboxes \ {s} : Held(z) /\ slots[z].domain # 0 => slots[z].domain \in Gens
    BY Zenon, <1>1 DEF PieceInv, SlotPiece, Kept
  <2>3. \A z \in Sandboxes \ {s} : SlotPiece(z)'
    BY Zenon, <1>1, <1>2, <1>7, <2>2, PieceFrame
  <2> QED
    BY Zenon, <2>1, <2>3
<1>11. \A l \in Launches : LaunchPiece(l)'
  <2>1. \A l \in Launches : launch[l].pc = "publish" /\ launch[l].gen # 0 => launch[l].gen \in Gens
    BY Zenon, <1>1 DEF PieceInv, LaunchPiece, Kept
  <2> QED
    BY Zenon, <1>1, <1>2, <2>1, PieceFrame
<1>12. MemberInv'
  <2>1. ASSUME NEW g \in Gens, HasMembers(g) PROVE gens'[g].cgroup = "present" /\ (Owned(g) => Owned(g)')
    <3>1. gens'[g] = gens[g] /\ gens[g].cgroup = "present" /\ Owned(g) /\ g # 0
      BY <1>1, <1>2, <2>1 DEF MemberInv, Gens
    <3>2. gens[g].sandbox \in Sandboxes
      BY Zenon, <1>1, <3>1, GenFacts DEF TypeInv
    <3>3. CASE Holds(r, g)
      <4>1. d = g /\ release[r].pc = "restore" /\ gens[g].sandbox = s
        BY ZenonT(40), <1>2, <1>3, <1>4, <3>1, <3>3 DEF Holds, ReleasePiece, Kept
      <4>2. slots'[gens'[g].sandbox].tag = "Deleting" /\ slots'[gens'[g].sandbox].domain = g
        BY ZenonT(40), <1>6, <1>7, <3>1, <4>1
      <4> QED
        BY Zenon, <3>1, <4>2 DEF Owned, Held
    <3>4. CASE ~Holds(r, g)
      <4>1. \A q \in Releasers : Holds(q, g) => Holds(q, g)'
        BY Zenon, <1>7, <3>4 DEF Holds
      <4>2. Held(gens[g].sandbox) /\ slots[gens[g].sandbox].domain = g =>
              Held(gens[g].sandbox)' /\ slots'[gens[g].sandbox].domain = g
        BY Zenon, <1>4, <1>7, <3>1, <3>2 DEF Held
      <4> QED
        BY ZenonT(40), <3>1, <4>1, <4>2, OwnerKept
    <3> QED
      BY ZenonT(40), <3>3, <3>4
  <2>2. NoneAdded
    BY Zenon, <1>2 DEF NoneAdded
  <2> QED
    BY ZenonT(40), <1>1, <1>2, <2>1, <2>2, MemberFrame
<1> QED
  BY ZenonT(40), <1>8, <1>9, <1>10, <1>11, <1>12 DEF OwnInv, PieceInv

-----------------------------------------------------------------------------
(* The sweep.                                                              *)

\* Once the registry accepts no launch, no slot comes back by one.
LEMMA NoneReturns ==
  ASSUME Inv, ~accepting, NEW l \in Launches, LaunchStep(l), NEW z \in Sandboxes, slots[z].tag = "absent"
  PROVE  slots'[z] = slots[z]
<1>1. TypeInv /\ MarkerInv /\ LeaseInv
  BY Zenon DEF Inv
<1>2. CASE LaunchBegin(l) \/ JoinRefused(l) \/ Spawn(l) \/ Fork(l) \/ create_generation(l)
  BY Zenon, <1>2 DEF LaunchBegin, JoinRefused, Spawn, Fork, create_generation
<1>3. ~JoinCreate(l) /\ ~JoinActive(l)
  BY Zenon DEF JoinCreate, JoinActive
<1>4. CASE CleanPending(l) \/ Publish(l)
  <2>1. slots[launch[l].sandbox].tag = "Creating"
    BY Zenon, <1>1, <1>4 DEF CleanPending, Publish, At, MarkerInv, Opening, Opens
  <2>2. slots' = slots \/ \E w : slots' = [slots EXCEPT ![launch[l].sandbox] = w]
    BY Zenon, <1>4 DEF CleanPending, Publish, SetSlot
  <2> QED
    BY Zenon, <1>1, <2>1, <2>2 DEF TypeInv
<1>5. CASE launch_finished(l)
  <2>1. Held(launch[l].sandbox)
    BY Zenon, <1>1, <1>5 DEF launch_finished, At, LeaseInv, Leased
  <2>2. slots' = slots \/ \E w : slots' = [slots EXCEPT ![launch[l].sandbox] = w]
    BY Zenon, <1>5 DEF launch_finished, Retire, SetSlot
  <2>3. launch[l].sandbox # z
    BY Zenon, <2>1 DEF Held
  <2> QED
    BY Zenon, <1>1, <2>2, <2>3 DEF TypeInv
<1> QED
  BY Zenon, <1>2, <1>3, <1>4, <1>5 DEF LaunchStep

\* A release record keeps its sandbox while its other fields change.
LEMMA CarriedLabel ==
  ASSUME NEW v \in [pc : Works, sandbox : Sandboxes, domain : 0 .. MaxGen, temp : 0 .. MaxGen], NEW p
  PROVE  [v EXCEPT !.pc = p].pc = p /\ [v EXCEPT !.pc = p].sandbox = v.sandbox
  OBVIOUS

LEMMA CarriedTemp ==
  ASSUME NEW v \in [pc : Works, sandbox : Sandboxes, domain : 0 .. MaxGen, temp : 0 .. MaxGen], NEW p, NEW t
  PROVE  [v EXCEPT !.pc = p, !.temp = t].pc = p /\ [v EXCEPT !.pc = p, !.temp = t].sandbox = v.sandbox
  OBVIOUS

LEMMA CarriedDomain ==
  ASSUME NEW v \in [pc : Works, sandbox : Sandboxes, domain : 0 .. MaxGen, temp : 0 .. MaxGen], NEW p, NEW d
  PROVE  [v EXCEPT !.pc = p, !.domain = d].pc = p /\ [v EXCEPT !.pc = p, !.domain = d].sandbox = v.sandbox
  OBVIOUS

LEMMA CarriedBoth ==
  ASSUME NEW v \in [pc : Works, sandbox : Sandboxes, domain : 0 .. MaxGen, temp : 0 .. MaxGen],
         NEW p, NEW d, NEW t
  PROVE  /\ [v EXCEPT !.pc = p, !.domain = d, !.temp = t].pc = p
         /\ [v EXCEPT !.pc = p, !.domain = d, !.temp = t].sandbox = v.sandbox
  OBVIOUS

\* A step inside a release leaves it in one.
LEMMA GoesOn ==
  ASSUME TypeInv, NEW r \in Releasers,
         TakeOver(r) \/ FinishPendingBegin(r) \/ TeardownKill(r) \/ TeardownRemove(r) \/ TeardownTemp(r)
  PROVE  release'[r].pc \in Works /\ release'[r].sandbox = release[r].sandbox
<1>1. release[r].pc \in Works
  BY Zenon DEF TakeOver, FinishPendingBegin, TeardownKill, TeardownRemove, TeardownTemp, In, Works, Tears
<1>2. PICK v : v = release[r] /\ v \in [pc : Works, sandbox : Sandboxes, domain : 0 .. MaxGen, temp : 0 .. MaxGen]
  <2>1. release[r] \in ReleaseType
    BY Zenon, <1>1, ReleaseAt
  <2> QED
    BY Zenon, <1>1, <2>1 DEF ReleaseType, Works, Tears
<1>3. \A p \in {"temp", "kill", "pending", "empty", "restore", "remove"} : p \in Works
  BY Zenon DEF Works, Tears
<1>4. \A w : GoRelease(r, w) => release'[r] = w
  BY Zenon DEF TypeInv, GoRelease
<1>5. ASSUME NEW p \in Works, NEW x, x.pc = p, x.sandbox = v.sandbox, GoRelease(r, x)
      PROVE  release'[r].pc \in Works /\ release'[r].sandbox = release[r].sandbox
  BY Zenon, <1>2, <1>4, <1>5
<1>6. CASE TakeOver(r)
  <2>1. PICK p \in Works : p = IF slots[release[r].sandbox].domain = 0 THEN "temp" ELSE "kill"
    BY Zenon, <1>3
  <2>2. PICK d : d = slots[release[r].sandbox]
    BY Zenon
  <2>3. PICK x : x = [v EXCEPT !.pc = p, !.domain = d.domain, !.temp = d.temp]
    BY Zenon
  <2>4. GoRelease(r, x)
    BY ZenonT(40), <1>2, <1>6, <2>1, <2>2, <2>3 DEF TakeOver
  <2>5. x.pc = p /\ x.sandbox = v.sandbox
    BY <1>2, <2>3, CarriedBoth
  <2> QED
    BY Zenon, <1>5, <2>4, <2>5
<1>7. CASE FinishPendingBegin(r)
  <2>1. PICK x : x = [v EXCEPT !.pc = "pending", !.temp = slots[release[r].sandbox].temp]
    BY Zenon
  <2>2. GoRelease(r, x)
    BY Zenon, <1>2, <1>7, <2>1 DEF FinishPendingBegin
  <2>3. x.pc = "pending" /\ x.sandbox = v.sandbox
    BY <1>2, <2>1, CarriedTemp
  <2> QED
    BY ZenonT(40), <1>3, <1>5, <2>2, <2>3
<1>8. ASSUME NEW p \in {"empty", "restore"}, GoRelease(r, [v EXCEPT !.pc = p])
      PROVE  release'[r].pc \in Works /\ release'[r].sandbox = release[r].sandbox
  <2>1. PICK x : x = [v EXCEPT !.pc = p]
    BY Zenon
  <2>2. x.pc = p /\ x.sandbox = v.sandbox
    BY <1>2, <2>1, CarriedLabel
  <2>3. GoRelease(r, x)
    BY Zenon, <1>8, <2>1
  <2>4. p \in Works
    BY Zenon, <1>3
  <2> QED
    BY Zenon, <1>5, <2>2, <2>3, <2>4
<1>9. CASE TeardownKill(r)
  BY Zenon, <1>2, <1>8, <1>9 DEF TeardownKill
<1>10. CASE TeardownRemove(r)
  <2>1. PICK x : x = [v EXCEPT !.pc = "temp", !.domain = 0]
    BY Zenon
  <2>2. x.pc = "temp" /\ x.sandbox = v.sandbox
    BY <1>2, <2>1, CarriedDomain
  <2>3. GoRelease(r, x) \/ GoRelease(r, [v EXCEPT !.pc = "restore"])
    BY Zenon, <1>2, <1>10, <2>1 DEF TeardownRemove
  <2> QED
    BY ZenonT(40), <1>3, <1>5, <1>8, <2>2, <2>3
<1>11. CASE TeardownTemp(r)
  <2>1. PICK x : x = [v EXCEPT !.pc = "remove", !.temp = 0]
    BY Zenon
  <2>2. x.pc = "remove" /\ x.sandbox = v.sandbox
    BY <1>2, <2>1, CarriedTemp
  <2>3. GoRelease(r, x) \/ GoRelease(r, [v EXCEPT !.pc = "restore"])
    BY Zenon, <1>2, <1>11, <2>1 DEF TeardownTemp
  <2> QED
    BY ZenonT(40), <1>3, <1>5, <1>8, <2>2, <2>3
<1> QED
  BY ZenonT(40), <1>6, <1>7, <1>9, <1>10, <1>11

\* A release leaves its slot, or goes on, or has failed.
LEMMA ReleaseSweeps ==
  ASSUME Inv, NEW r \in Releasers, ReleaseStep(r)
  PROVE  /\ Working(r) /\ todo' = todo
         /\ \A z \in Sandboxes : slots[z].tag = "absent" /\ z # release[r].sandbox => slots'[z].tag = "absent"
         /\ \/ Working(r)' /\ release'[r].sandbox = release[r].sandbox /\ first_error' = first_error
            \/ slots'[release[r].sandbox].tag = "absent" /\ first_error' = first_error
            \/ r = Shutdown => first_error'
<1>1. TypeInv /\ MarkerInv
  BY Zenon DEF Inv
<1>2. /\ release[r].pc \in Works /\ Working(r) /\ todo' = todo
  BY Zenon DEF ReleaseStep, ReleaseReturn, MarkDeleting, TakeOver, FinishPendingBegin, FinishPendingEnd, TeardownKill,
         TeardownRemove, TeardownTemp, ReleaseEnd, Return, In, Working, Works, Tears, shutdownVars
<1>3. PICK s \in Sandboxes : s = release[r].sandbox /\ release[r] \in ReleaseType
  BY Zenon, <1>1, <1>2, ReleaseAt
<1>4. \A z \in Sandboxes : z # s => slots'[z] = slots[z]
  <2>1. slots' = slots \/ \E w : slots' = [slots EXCEPT ![s] = w]
    BY Zenon, <1>3 DEF ReleaseStep, ReleaseReturn, MarkDeleting, TakeOver, FinishPendingBegin, FinishPendingEnd,
                TeardownKill, TeardownRemove, TeardownTemp, ReleaseEnd, SetSlot
  <2> QED
    BY Zenon, <1>1, <2>1 DEF TypeInv
<1>5. ASSUME Return(r, "err") PROVE r = Shutdown => first_error'
  BY Zenon, <1>5 DEF Return
<1>6. ASSUME Return(r, "ok") PROVE first_error' = first_error
  BY Zenon, <1>1, <1>6 DEF Return, TypeInv
<1>7. CASE ReleaseReturn(r)
  BY ZenonT(40), <1>3, <1>5, <1>6, <1>7, <1>2, <1>4 DEF ReleaseReturn
<1>8. CASE MarkDeleting(r)
  <2>1. (release' = release /\ first_error' = first_error) \/ Return(r, "err")
    BY Zenon, <1>8 DEF MarkDeleting, shutdownVars
  <2> QED
    BY ZenonT(40), <1>2, <1>3, <1>4, <1>5, <2>1 DEF Working
<1>9. CASE TakeOver(r) \/ FinishPendingBegin(r) \/ TeardownKill(r) \/ TeardownRemove(r) \/ TeardownTemp(r)
  <2>1. first_error' = first_error
    BY Zenon, <1>9 DEF TakeOver, FinishPendingBegin, TeardownKill, TeardownRemove, TeardownTemp, shutdownVars
  <2>2. release'[r].pc \in Works /\ release'[r].sandbox = s
    BY Zenon, <1>3, <1>9, GoesOn DEF Inv
  <2> QED
    BY ZenonT(40), <1>2, <1>3, <1>4, <2>1, <2>2 DEF Working
<1>10. CASE FinishPendingEnd(r)
  <2>1. slots[s].tag = "Creating"
    BY ZenonT(40), <1>1, <1>3, <1>10 DEF FinishPendingEnd, In, MarkerInv
  <2>2. Return(r, "ok") => slots'[s].tag = "absent"
    <3>1. Return(r, "ok") => ~Return(r, "err")
      BY <1>1 DEF Return, GoRelease, TypeInv
    <3> QED
      BY <1>1, <1>3, <1>10, <2>1, <3>1, SlotValues DEF FinishPendingEnd, SetSlot, TypeInv
  <2> QED
    BY ZenonT(40), <1>2, <1>3, <1>4, <1>5, <1>6, <1>10, <2>2 DEF FinishPendingEnd
<1>11. CASE ReleaseEnd(r)
  <2>1. CASE Return(r, "err")
    BY ZenonT(40), <1>2, <1>3, <1>4, <1>5, <2>1
  <2>2. CASE Return(r, "ok") /\ slots' = [slots EXCEPT ![s] = Absent]
    <3>1. slots'[s].tag = "absent"
      BY <1>1, <2>2, SlotValues DEF TypeInv
    <3> QED
      BY ZenonT(40), <1>2, <1>3, <1>4, <1>6, <2>2, <3>1
  <2> QED
    BY ZenonT(40), <1>3, <1>11, <2>1, <2>2 DEF ReleaseEnd, SetSlot
<1> QED
  BY ZenonT(40), <1>7, <1>8, <1>9, <1>10, <1>11 DEF ReleaseStep

\* The sweep misses no slot.
LEMMA SweepInductive == ASSUME Deleters = {}, Inv, SweepInv, [Next]_vars PROVE SweepInv'
<1>1. TypeInv /\ MarkerInv
  BY Zenon DEF Inv
<1>2. ASSUME UNCHANGED <<release, todo, first_error>>,
             release[Shutdown].pc # "idle" => \A z \in Sandboxes : slots[z].tag = "absent" => slots'[z].tag = "absent"
      PROVE  SweepInv'
  BY Zenon, <1>2 DEF SweepInv, Working
<1>3. CASE \E l \in Launches : LaunchStep(l)
  <2>1. PICK l \in Launches : LaunchStep(l)
    BY Zenon, <1>3
  <2>2. UNCHANGED <<release, todo, first_error>>
    BY ZenonT(40), <2>1 DEF LaunchStep, LaunchBegin, JoinCreate, JoinActive, JoinRefused, CleanPending, create_generation,
                Publish, Spawn, Fork, launch_finished, shutdownVars
  <2>3. release[Shutdown].pc # "idle" => ~accepting
    BY Zenon, <1>1 DEF MarkerInv
  <2> QED
    BY ZenonT(40), <1>2, <2>1, <2>2, <2>3, NoneReturns
<1>4. CASE UNCHANGED vars \/ \E g \in Gens, m \in Members : Exit(g, m)
  BY Zenon, <1>2, <1>4 DEF vars, Exit, shutdownVars
<1>5. CASE \E d \in Deleters : DeleteBegin(d)
  BY Zenon, <1>5
<1>6. CASE \E r \in Releasers : ReleaseStep(r)
  <2>1. ReleaseStep(Shutdown) /\ Shutdown \in Releasers
    BY Zenon, <1>6 DEF Releasers
  <2>2. release[Shutdown].pc \notin {"idle", "stop"}
    BY Zenon, <2>1, ReleaseSweeps DEF Working, Works, Tears
  <2>3. /\ \A z \in Sandboxes : slots[z].tag = "absent" /\ z # release[Shutdown].sandbox => slots'[z].tag = "absent"
        /\ todo' = todo
        /\ \/ Working(Shutdown)' /\ release'[Shutdown].sandbox = release[Shutdown].sandbox /\ first_error' = first_error
           \/ slots'[release[Shutdown].sandbox].tag = "absent" /\ first_error' = first_error
           \/ first_error'
    BY Zenon, <2>1, ReleaseSweeps
  <2> QED
    BY <2>2, <2>3 DEF SweepInv
<1>7. CASE StopAccepting
  <2>1. release'[Shutdown].pc = "stop"
    BY Zenon, <1>1, <1>7 DEF StopAccepting, GoRelease, TypeInv, Releasers
  <2> QED
    BY Zenon, <2>1 DEF SweepInv
<1>8. ASSUME ShutdownSnapshot \/ ForceShutdown, NEW z \in Sandboxes, slots[z].tag = "absent"
      PROVE  slots'[z].tag = "absent"
  <2>1. PICK K : MarkAllDeleting(K)
    BY Zenon, <1>8 DEF ShutdownSnapshot, ForceShutdown
  <2> QED
    BY Zenon, <1>8, <2>1 DEF MarkAllDeleting, Live
<1>9. CASE ShutdownSnapshot
  <2>1. todo' = {z \in Sandboxes : slots[z].tag # "absent"}
    BY Zenon, <1>9 DEF ShutdownSnapshot, Present
  <2> QED
    BY Zenon, <1>8, <1>9, <2>1 DEF SweepInv
<1>10. CASE ForceShutdown
  <2>1. UNCHANGED <<release, todo, first_error>>
    BY Zenon, <1>10 DEF ForceShutdown
  <2> QED
    BY Zenon, <1>2, <1>8, <1>10, <2>1
<1>11. CASE ShutdownNext
  <2>1. PICK s \in todo : /\ todo' = todo \ {s} /\ release' = [release EXCEPT ![Shutdown] = Call(s)]
                          /\ release[Shutdown].pc \in {"next", "ok", "err"} /\ UNCHANGED <<slots, first_error>>
    BY Zenon, <1>11 DEF ShutdownNext, GoRelease
  <2>2. release'[Shutdown].pc = "wait" /\ release'[Shutdown].sandbox = s
    BY Zenon, <1>1, <2>1 DEF TypeInv, Releasers, Call
  <2>3. Working(Shutdown)' /\ ~Working(Shutdown)
    BY Zenon, <2>1, <2>2 DEF Working, Works, Tears
  <2> QED
    BY Zenon, <2>1, <2>2, <2>3 DEF SweepInv
<1> QED
  BY ZenonT(40), <1>3, <1>4, <1>5, <1>6, <1>7, <1>9, <1>10, <1>11 DEF Next

-----------------------------------------------------------------------------
(* The registry.                                                           *)

\* DomainRegistry::new has nothing to own.
LEMMA OwnInit == Init => OwnInv /\ SweepInv
<1> SUFFICES ASSUME Init PROVE OwnInv /\ SweepInv
  OBVIOUS
<1>1. \A s \in Sandboxes : SlotPiece(s)
  BY Zenon DEF Init, SlotPiece, Held, Absent
<1>2. \A l \in Launches : LaunchPiece(l)
  BY Zenon DEF Init, LaunchPiece
<1>3. \A r \in Releasers : release[r].pc = "idle"
  BY Zenon DEF Init
<1>4. \A r \in Releasers : ReleasePiece(r)
  BY Zenon, <1>3 DEF ReleasePiece, Tearing, Tears
<1>5. \A g \in Gens, m \in Members : members[g][m] = "none"
  BY Zenon DEF Init
<1>6. MemberInv
  BY Zenon, <1>5 DEF MemberInv, HasMembers, Members
<1>7. SweepInv
  BY Zenon, <1>3 DEF SweepInv, Releasers
<1> QED
  BY ZenonT(40), <1>1, <1>2, <1>4, <1>6, <1>7 DEF OwnInv, PieceInv

\* Every step keeps every domain with processes owned.
LEMMA OwnInductive == ASSUME Apart, Inv, OwnInv, [Next]_vars PROVE OwnInv'
<1>1. CASE \E l \in Launches : LaunchStep(l)
  BY ZenonT(40), <1>1, OpeningOwn, CreatingOwn, ProcessOwn, FinishedOwn DEF LaunchStep
<1>2. CASE UNCHANGED vars \/ \E g \in Gens, m \in Members : Exit(g, m)
  BY Zenon, <1>2, ProcessOwn
<1>3. CASE (\E d \in Deleters : DeleteBegin(d)) \/ StopAccepting \/ ShutdownNext
  BY Zenon, <1>3, CallOwn
<1>4. CASE (\E r \in Releasers : MarkDeleting(r)) \/ ShutdownSnapshot \/ ForceShutdown
  BY Zenon, <1>4, MarkOwn
<1>5. CASE \E r \in Releasers : ReleaseStep(r) /\ ~MarkDeleting(r)
  BY ZenonT(40), <1>5, CallOwn, PendingOwn, TakeOverOwn, TeardownOwn, ReleaseEndOwn DEF ReleaseStep
<1> QED
  BY ZenonT(40), <1>1, <1>2, <1>3, <1>4, <1>5 DEF Next

\* Who can still hold a domain with processes.
LEMMA Owner ==
  ASSUME Inv, OwnInv, NEW g \in Gens, HasMembers(g)
  PROVE  LET s == gens[g].sandbox
         IN /\ s \in Sandboxes /\ Kept(g, s)
            /\ \/ Held(s) /\ slots[s].domain = g
               \/ \E r \in Releasers : /\ Holds(r, g) /\ release[r].sandbox = s
                                       /\ slots[s] = Deleting(0, 0, 0) /\ Working(r)
<1>1. TypeInv /\ PieceInv /\ gens[g].cgroup = "present" /\ Owned(g) /\ g # 0
  BY DEF Inv, OwnInv, MemberInv, Gens
<1>2. gens[g].sandbox \in Sandboxes
  BY Zenon, <1>1, GenFacts DEF TypeInv
<1>3. CASE Held(gens[g].sandbox) /\ slots[gens[g].sandbox].domain = g
  BY Zenon, <1>1, <1>2, <1>3 DEF PieceInv, SlotPiece
<1>4. CASE \E r \in Releasers : Holds(r, g)
  <2>1. PICK r \in Releasers : Holds(r, g)
    BY Zenon, <1>4
  <2>2. Tearing(r) /\ Working(r) /\ release[r].domain = g
    BY Zenon, <2>1 DEF Holds, Tearing, Working, Works, Tears
  <2>3. Kept(g, release[r].sandbox) /\ slots[release[r].sandbox] = Deleting(0, 0, 0)
    BY Zenon, <1>1, <2>2 DEF PieceInv, ReleasePiece
  <2> QED
    BY Zenon, <1>2, <2>1, <2>2, <2>3 DEF Kept
<1> QED
  BY Zenon, <1>1, <1>3, <1>4 DEF Owned

\* No error path of create, launch or release drops the last reference to
\* running processes or to the temp tree they use, and a sandbox never runs
\* in two domains (DomainSlot::Active, CleanPending, the restore of
\* release_sandbox_resources).
THEOREM Owners == ASSUME Apart PROVE Spec => []PopulatedDomainIsOwned
<1>1. Inv /\ OwnInv => PopulatedDomainIsOwned
  <2> SUFFICES ASSUME Inv, OwnInv, NEW g \in Gens, HasMembers(g)
               PROVE  /\ \/ LET slot == slots[gens[g].sandbox]
                            IN slot.tag \in {"Active", "Deleting"} /\ slot.domain = g
                         \/ \E r \in Releasers : Holds(r, g)
                      /\ gens[g].temp
                      /\ \A h \in Gens : HasMembers(h) /\ gens[h].sandbox = gens[g].sandbox => h = g
    BY Zenon DEF PopulatedDomainIsOwned
  <2>1. /\ \/ LET slot == slots[gens[g].sandbox]
              IN slot.tag \in {"Active", "Deleting"} /\ slot.domain = g
           \/ \E r \in Releasers : Holds(r, g)
        /\ gens[g].temp
    BY Zenon, Owner DEF Held, Kept
  <2>2. ASSUME NEW h \in Gens, HasMembers(h), gens[h].sandbox = gens[g].sandbox PROVE h = g
    <3>1. PICK s : s = gens[g].sandbox
      OBVIOUS
    <3>2. Deleting(0, 0, 0).domain = 0 /\ g # 0 /\ h # 0
      BY DEF Deleting, Gens
    <3>3. /\ \/ Held(s) /\ slots[s].domain = g
             \/ \E r \in Releasers : /\ Holds(r, g) /\ release[r].sandbox = s
                                     /\ slots[s] = Deleting(0, 0, 0) /\ Working(r)
          /\ \/ Held(s) /\ slots[s].domain = h
             \/ \E r \in Releasers : /\ Holds(r, h) /\ release[r].sandbox = s
                                     /\ slots[s] = Deleting(0, 0, 0) /\ Working(r)
      BY ZenonT(40), <2>2, <3>1, Owner
    <3>4. CASE slots[s].domain # 0
      BY Zenon, <3>2, <3>3, <3>4
    <3>5. CASE slots[s].domain = 0
      <4>1. PICK q \in Releasers : Holds(q, g) /\ release[q].sandbox = s /\ Working(q)
        BY Zenon, <3>2, <3>3, <3>5
      <4>2. PICK r \in Releasers : Holds(r, h) /\ release[r].sandbox = s /\ Working(r)
        BY Zenon, <3>2, <3>3, <3>5
      <4>3. q = r
        BY Zenon, <4>1, <4>2, Alone
      <4> QED
        BY Zenon, <4>1, <4>2, <4>3 DEF Holds
    <3> QED
      BY Zenon, <3>4, <3>5
  <2> QED
    BY Zenon, <2>1, <2>2
<1>2. Init => Inv /\ OwnInv
  BY Zenon, InitInv, OwnInit
<1>3. Inv /\ OwnInv /\ [Next]_vars => (Inv /\ OwnInv)'
  BY Zenon, Inductive, OwnInductive
<1> QED
  BY <1>1, <1>2, <1>3, PTL DEF Spec

\* release_sandbox_resources reports success only once no process of the
\* sandbox is left.
THEOREM Gone == ASSUME Apart PROVE Spec => ReleaseMeansGone
<1>1. Inv /\ OwnInv /\ [Next]_vars =>
        [\A r \in Releasers, s \in Sandboxes :
           ~Idle(r) /\ In(r, "ok")' /\ release'[r].sandbox = s =>
             \A g \in Gens : HasMembers(g) => gens[g].sandbox # s]_vars
  <2> SUFFICES ASSUME Inv, OwnInv, [Next]_vars, NEW r \in Releasers, NEW s \in Sandboxes,
                      ~Idle(r), In(r, "ok")', release'[r].sandbox = s, NEW g \in Gens, HasMembers(g),
                      gens[g].sandbox = s
               PROVE  FALSE
    OBVIOUS
  <2>1. TypeInv /\ MarkerInv /\ PieceInv
    BY Zenon DEF Inv, OwnInv
  <2>2. release'[r].pc = "ok" /\ release[r].pc # "ok" /\ release'[r] # release[r]
    BY Zenon DEF Idle, In
  <2>3. ReleaseStep(r)
    <3>1. ~UNCHANGED vars
      BY Zenon, <2>2 DEF vars
    <3>2. ~\E l \in Launches : LaunchStep(l)
      BY Zenon, <2>2 DEF LaunchStep, LaunchBegin, JoinCreate, JoinActive, JoinRefused, CleanPending, create_generation,
                  Publish, Spawn, Fork, launch_finished
    <3>3. ~\E h \in Gens, m \in Members : Exit(h, m)
      BY Zenon, <2>2 DEF Exit
    <3>4. ~\E d \in Deleters : DeleteBegin(d)
      BY <2>1, <2>2, ReleaseValues DEF DeleteBegin, GoRelease, TypeInv
    <3>5. ~StopAccepting /\ ~ShutdownSnapshot /\ ~ForceShutdown
      BY <2>1, <2>2 DEF StopAccepting, ShutdownSnapshot, ForceShutdown, GoRelease, TypeInv
    <3>6. ~ShutdownNext
      BY <2>1, <2>2 DEF ShutdownNext, GoRelease, TypeInv, Call
    <3>7. PICK q \in Releasers : ReleaseStep(q)
      BY ZenonT(40), <3>1, <3>2, <3>3, <3>4, <3>5, <3>6 DEF Next
    <3>8. release' = release \/ \E v : release' = [release EXCEPT ![q] = v]
      BY Zenon, <3>7 DEF ReleaseStep, ReleaseReturn, MarkDeleting, TakeOver, FinishPendingBegin, FinishPendingEnd,
                  TeardownKill, TeardownRemove, TeardownTemp, ReleaseEnd, Return, GoRelease
    <3>9. q = r
      BY Zenon, <2>1, <2>2, <3>8 DEF TypeInv
    <3> QED
      BY Zenon, <3>7, <3>9
  <2>4. release[r].pc \in Works /\ Working(r) /\ release[r] \in ReleaseType
    BY Zenon, <2>1, <2>3, ReleaseSweeps DEF Working, TypeInv
  <2>5. release[r].sandbox = s /\
        (\/ slots[s].tag \in {"absent", "Creating"}
         \/ slots[s] = Deleting(0, 0, 0) /\ release[r].pc = "remove")
    <3>1. ASSUME NEW p, Return(r, p) PROVE p = "ok" /\ release[r].sandbox = s
      BY ZenonT(40), <2>1, <2>2, <3>1 DEF Return, GoRelease, TypeInv
    <3>2. CASE ReleaseReturn(r)
      BY <3>1, <3>2 DEF ReleaseReturn
    <3>3. CASE FinishPendingEnd(r)
      <4>1. release[r].sandbox = s
        BY Zenon, <3>1, <3>3 DEF FinishPendingEnd
      <4> QED
        BY ZenonT(40), <2>1, <3>3, <4>1 DEF FinishPendingEnd, In, MarkerInv
    <3>4. CASE ReleaseEnd(r)
      <4>1. release[r].sandbox = s /\ release[r].pc = "remove"
        BY <3>1, <3>4 DEF ReleaseEnd, In
      <4> QED
        BY ZenonT(40), <2>1, <4>1 DEF PieceInv, ReleasePiece, Tearing, Tears
    <3>5. CASE MarkDeleting(r)
      <4>1. release' = release \/ Return(r, "err")
        BY Zenon, <3>5 DEF MarkDeleting
      <4> QED
        BY <2>2, <3>1, <4>1
    <3>6. ~(TakeOver(r) \/ FinishPendingBegin(r) \/ TeardownKill(r) \/ TeardownRemove(r) \/ TeardownTemp(r))
      BY ZenonT(40), <2>1, <2>2, GoesOn DEF Works, Tears
    <3> QED
      BY ZenonT(40), <2>3, <3>2, <3>3, <3>4, <3>5, <3>6 DEF ReleaseStep
  <2>6. Deleting(0, 0, 0).tag = "Deleting" /\ Deleting(0, 0, 0).domain = 0 /\ g # 0
    BY DEF Deleting, Gens
  <2>7. PICK q \in Releasers : Holds(q, g) /\ release[q].sandbox = s /\ Working(q) /\ slots[s] = Deleting(0, 0, 0)
    BY Zenon, <2>5, <2>6, Owner DEF Held
  <2>8. q = r
    BY ZenonT(40), <2>4, <2>5, <2>7, Alone
  <2> QED
    BY ZenonT(40), <2>5, <2>6, <2>7, <2>8 DEF Holds
<1>2. Init => Inv /\ OwnInv
  BY Zenon, InitInv, OwnInit
<1>3. Inv /\ OwnInv /\ [Next]_vars => (Inv /\ OwnInv)'
  BY Zenon, Inductive, OwnInductive
<1> QED
  BY <1>1, <1>2, <1>3, PTL DEF Spec, ReleaseMeansGone

\* A shutdown that recorded no error leaves no slot and no process, also when
\* launches were creating domains while it began (shutdown_sandbox_resources).
THEOREM SweptClean == ASSUME Deleters = {} PROVE Spec => []ShutdownMeansGone
<1>1. Inv /\ OwnInv /\ SweepInv => ShutdownMeansGone
  <2> SUFFICES ASSUME Inv, OwnInv, SweepInv, release[Shutdown].pc \in {"next", "ok"}, todo = {}, ~first_error
               PROVE  (\A s \in Sandboxes : slots[s] = Absent) /\ \A g \in Gens : ~HasMembers(g)
    BY Zenon DEF ShutdownMeansGone
  <2>1. ~Working(Shutdown)
    BY Zenon DEF Working, Works, Tears
  <2>2. \A s \in Sandboxes : slots[s].tag = "absent" /\ slots[s] = Absent
    BY Zenon, <2>1, SlotFacts DEF SweepInv, Inv, TypeInv
  <2>3. Deleting(0, 0, 0).tag = "Deleting"
    BY Zenon DEF Deleting
  <2> QED
    BY Zenon, <2>2, <2>3, Owner DEF Held
<1>2. Init => Inv /\ OwnInv /\ SweepInv
  BY Zenon, InitInv, OwnInit
<1>3. Inv /\ OwnInv /\ SweepInv /\ [Next]_vars => (Inv /\ OwnInv /\ SweepInv)'
  BY Zenon, Inductive, OwnInductive, SweepInductive DEF Apart
<1> QED
  BY <1>1, <1>2, <1>3, PTL DEF Spec
=============================================================================
