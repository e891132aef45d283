---------------------------- MODULE DaemonProofs ----------------------------
(***************************************************************************)
(* For any number of daemons and connections: the locks admit one daemon   *)
(* at a time, a host key in place is never replaced, the connection        *)
(* counters are exact and within their caps, the shutdown leaves no host   *)
(* bridge that the registry accepted, and a forced stop leaves only those  *)
(* that join_all was already awaiting.                                     *)
(***************************************************************************)
EXTENDS Daemon, FiniteSetTheorems, TLAPS

USE SMTT(30), ZenonT(40)

Booting == {"off", "registry", "state", "config", "load", "link", "reload",
            "reconcile", "bind"}

DaemonType ==
  /\ lock \in [Roles -> Daemons \cup {Nobody}]
  /\ dm \in [Daemons -> [pc : Booting \cup Owning \cup {"exit"},
                         key : Daemons \cup {Nobody, Operator},
                         recon : {"none", "later", "running"}, signals : 0 .. 2]]
  /\ hostkey \in Daemons \cup {Nobody, Operator}

\* A daemon past the first lock holds it.
RegistryHeld ==
  \A d \in Daemons : dm[d].pc \in Locked \cup {"state"} => lock["registry"] = d

LockInv == DaemonType /\ RegistryHeld

ConnType ==
  conn \in [Conns -> [pc : {"none", "accepted", "total", "session", "loose", "gone"},
                      slot : BOOLEAN, principal : BOOLEAN, told : BOOLEAN,
                      host : {"none", "spawning", "tracked", "inline"}, live : BOOLEAN,
                      busy : BOOLEAN]]

Counted == {c \in Conns : conn[c].pc \notin {"none", "accepted"}}
Unauthenticated == {c \in Conns : conn[c].slot}

\* A connection has the flag of its slot only while it has the slot.
SlotInv ==
  /\ ConnType
  /\ Unauthenticated \subseteq Counted
  /\ \A c \in Conns : conn[c].slot => conn[c].pc # "total"
  /\ CountersExact

-----------------------------------------------------------------------------
(* The locks.                                                              *)

\* The bootstrap and the end of a daemon keep the lock discipline (run,
\* Locks::acquire): only the holder moves on, and what it drops was its own.
LEMMA LockStep ==
  ASSUME LockInv, NEW d \in Daemons,
         Start(d) \/ Boot(d) \/ Fail(d) \/ Reconciled(d) \/ signal(d) \/ Stop(d) \/ End(d)
  PROVE  LockInv'
<1> USE DaemonAssumption DEF DaemonAssumption, LockInv, DaemonType, RegistryHeld, Locked,
      Owning, Booting, Goto, At, Roles
<1>1. ASSUME Start(d) PROVE LockInv'
  BY <1>1 DEF Start
<1>2. ASSUME Boot(d) PROVE LockInv'
  <2>1. CASE Acquire(d, "registry", "registry", "state")
    BY <2>1 DEF Acquire, Nobody
  <2>2. CASE Acquire(d, "state", "state", "config")
    BY <2>2 DEF Acquire
  <2>3. CASE Configured(d) \/ LoadKey(d) \/ ReloadKey(d)
    BY <2>3 DEF Configured, LoadKey, ReloadKey
  <2>4. CASE CreateKey(d)
    BY <2>4 DEF CreateKey, Published
  <2>5. CASE Open(d) \/ Serve(d)
    BY <2>5 DEF Open, Serve
  <2> QED
    BY <1>2, <2>1, <2>2, <2>3, <2>4, <2>5 DEF Boot
<1>3. ASSUME Fail(d) \/ End(d) PROVE LockInv'
  BY <1>3 DEF Fail, End, Unlocked, Off
<1>4. ASSUME Reconciled(d) \/ signal(d) PROVE LockInv'
  BY <1>4 DEF Reconciled, signal
<1>5. ASSUME Stop(d) PROVE LockInv'
  <2>1. CASE StopAccepting(d) \/ Served(d) \/ ForceStop(d)
    BY <2>1 DEF StopAccepting, Served, ForceStop
  <2>2. CASE Joined(d) \/ Released(d)
    BY <2>2 DEF Joined, Released, Unlocked
  <2> QED
    BY <1>5, <2>1, <2>2 DEF Stop
<1> QED
  BY <1>1, <1>2, <1>3, <1>4, <1>5

\* Nothing a connection does touches the locks or the daemons.
LEMMA ConnectionKeepsLocks ==
  ASSUME NEW c \in Conns, Connection(c)
  PROVE  UNCHANGED <<lock, dm, hostkey>>
BY DEF Connection, accept, admit_total, admit_unauthenticated, authenticate, notified,
   deadline, session_ends, abandon, drop_connection, host_request, track, host_waits,
   host_resumes, host_exits, complete

\* The lock discipline holds at the start and over every step.
LEMMA LockInductive == (Init => LockInv) /\ (LockInv /\ [Next]_vars => LockInv')
<1>1. Init => LockInv
  BY DaemonAssumption DEF Init, LockInv, DaemonType, RegistryHeld, Off, Booting, Owning, Locked, Roles
<1>2. ASSUME LockInv, UNCHANGED <<lock, dm, hostkey>> PROVE LockInv'
  BY <1>2 DEF LockInv, DaemonType, RegistryHeld
<1>3. ASSUME LockInv, InstallKey PROVE LockInv'
  BY <1>3 DEF LockInv, DaemonType, RegistryHeld, InstallKey
<1> QED
  BY <1>1, <1>2, <1>3, LockStep, ConnectionKeepsLocks DEF Next, Drain, vars

\* Two daemons are never both past the locks of their common roots
\* (Locks::acquire), for any number of starts, failures and kills.
THEOREM Exclusive == Spec => []LocksExclusive
<1>1. LockInv => LocksExclusive
  BY DEF LockInv, RegistryHeld, LocksExclusive
<1> QED
  BY <1>1, LockInductive, PTL DEF Spec

\* A host key in place is never replaced (HostKey::create publishes with a
\* link, which fails when there is one).
THEOREM Stable == Spec => KeyStable
<1>1. ASSUME NEW d \in Daemons,
             Start(d) \/ Boot(d) \/ Fail(d) \/ Reconciled(d) \/ signal(d) \/ Stop(d) \/ End(d)
      PROVE  hostkey # Nobody => hostkey' = hostkey
  BY <1>1 DEF Start, Boot, Fail, Reconciled, signal, Stop, End, Acquire, Configured, LoadKey,
     CreateKey, Published, ReloadKey, Open, Serve, StopAccepting, Served, Joined, ForceStop, Released
<1>2. ASSUME [Next]_vars PROVE hostkey # Nobody => hostkey' = hostkey
  BY <1>1, <1>2, ConnectionKeepsLocks DEF Next, Drain, InstallKey, vars
<1>3. [Next]_vars => [hostkey # Nobody => hostkey' = hostkey]_vars
  BY <1>2
<1> QED
  BY <1>3, PTL DEF Spec, KeyStable

-----------------------------------------------------------------------------
(* The connection counters.                                                *)

\* Steps that take no slot, give none back and do not authenticate.
LEMMA SlotsKept ==
  ASSUME SlotInv, ConnType', UNCHANGED <<total, unauth>>,
         \A c \in Conns : /\ conn'[c].slot = conn[c].slot
                          /\ conn'[c].pc \in {"none", "accepted"} <=> conn[c].pc \in {"none", "accepted"}
                          /\ conn'[c].pc = "total" <=> conn[c].pc = "total"
  PROVE  SlotInv'
<1>1. Counted' = Counted /\ Unauthenticated' = Unauthenticated
  BY DEF Counted, Unauthenticated
<1> QED
  BY Zenon, <1>1 DEF SlotInv, CountersExact, Counted, Unauthenticated

\* The sets the counters count are finite, so their cardinalities are numbers.
LEMMA SlotsFinite ==
  ASSUME SlotInv
  PROVE  /\ IsFiniteSet(Counted) /\ IsFiniteSet(Unauthenticated)
         /\ total = Cardinality(Counted) /\ unauth = Cardinality(Unauthenticated)
         /\ total \in Nat /\ unauth \in Nat
<1>1. Counted \subseteq Conns /\ Unauthenticated \subseteq Conns
  BY DEF Counted, Unauthenticated
<1>2. IsFiniteSet(Counted) /\ IsFiniteSet(Unauthenticated)
  BY <1>1, DaemonAssumption, FS_Subset DEF DaemonAssumption
<1>3. total = Cardinality(Counted) /\ unauth = Cardinality(Unauthenticated)
  BY DEF SlotInv, CountersExact, Counted, Unauthenticated
<1> QED
  BY <1>2, <1>3, FS_CardinalityType

\* Limiter::admit, LimiterSlot::authenticated and the drop of a slot move one
\* connection in or out of each counted set, and the counter with it.
LEMMA SlotStep ==
  ASSUME SlotInv, NEW c \in Conns,
         admit_total(c) \/ admit_unauthenticated(c) \/ authenticate(c) \/ drop_connection(c)
  PROVE  SlotInv'
<1> DEFINE C == Counted
           U == Unauthenticated
<1> USE DaemonAssumption DEF DaemonAssumption
<1>0. /\ IsFiniteSet(C) /\ IsFiniteSet(U)
      /\ total = Cardinality(C) /\ unauth = Cardinality(U)
      /\ total \in Nat /\ unauth \in Nat
  BY SlotsFinite
<1>1. /\ c \notin C => Cardinality(C \cup {c}) = total + 1
      /\ c \in C => Cardinality(C \ {c}) = total - 1
      /\ c \notin U => Cardinality(U \cup {c}) = unauth + 1
      /\ c \in U => Cardinality(U \ {c}) = unauth - 1
  BY Zenon, <1>0, FS_AddElement, FS_RemoveElement
<1>2. SUFFICES /\ ConnType'
               /\ Unauthenticated' \subseteq Counted'
               /\ \A b \in Conns : conn'[b].slot => conn'[b].pc # "total"
               /\ total' = Cardinality(Counted') /\ unauth' = Cardinality(Unauthenticated')
               /\ total' <= max_connections /\ unauth' <= max_unauthenticated_connections
  BY DEF SlotInv, CountersExact, Counted, Unauthenticated
<1>3. ConnType /\ U \subseteq C /\ (\A b \in Conns : conn[b].slot => conn[b].pc # "total")
      /\ total <= max_connections /\ unauth <= max_unauthenticated_connections
  BY DEF SlotInv, CountersExact
<1>4. CASE admit_total(c) /\ conn' = [conn EXCEPT ![c].pc = "total"] /\ total' = total + 1
  <2>1. c \notin C /\ total < max_connections /\ unauth' = unauth /\ ~conn[c].slot
    BY <1>0, <1>3, <1>4 DEF admit_total, Counted, Unauthenticated, ConnType
  <2>2. Counted' = C \cup {c} /\ Unauthenticated' = U /\ ConnType'
    BY <1>3, <1>4 DEF Counted, Unauthenticated, ConnType
  <2> QED
    BY <1>0, <1>1, <1>3, <1>4, <2>1, <2>2 DEF ConnType
<1>5. CASE admit_total(c) /\ conn' = [conn EXCEPT ![c] = NoConn] /\ total' = total
  <2>1. c \notin C /\ c \notin U /\ unauth' = unauth
    BY <1>3, <1>5 DEF admit_total, Counted, Unauthenticated, ConnType
  <2>2. Counted' = C /\ Unauthenticated' = U /\ ConnType'
    BY <1>3, <1>5, <2>1 DEF Counted, Unauthenticated, ConnType, NoConn
  <2> QED
    BY <1>0, <1>3, <1>5, <2>1, <2>2 DEF ConnType, NoConn
<1>6. CASE admit_unauthenticated(c) /\ unauth < max_unauthenticated_connections
  <2>1. /\ conn[c].pc = "total" /\ c \in C /\ c \notin U
        /\ conn' = [conn EXCEPT ![c].pc = "session", ![c].slot = TRUE]
        /\ unauth' = unauth + 1 /\ total' = total
    BY <1>3, <1>6 DEF admit_unauthenticated, Counted, Unauthenticated, ConnType
  <2>2. Counted' = C /\ Unauthenticated' = U \cup {c} /\ ConnType'
    BY <1>3, <2>1 DEF Counted, Unauthenticated, ConnType
  <2> QED
    BY <1>0, <1>1, <1>3, <1>6, <2>1, <2>2 DEF ConnType
<1>7. CASE admit_unauthenticated(c) /\ ~(unauth < max_unauthenticated_connections)
  <2>1. /\ conn[c].pc = "total" /\ c \in C /\ c \notin U
        /\ conn' = [conn EXCEPT ![c] = NoConn]
        /\ unauth' = unauth /\ total' = total - 1
    BY <1>3, <1>7 DEF admit_unauthenticated, Counted, Unauthenticated, ConnType
  <2>2. Counted' = C \ {c} /\ Unauthenticated' = U /\ ConnType'
    BY <1>3, <2>1 DEF Counted, Unauthenticated, ConnType, NoConn
  <2> QED
    BY <1>0, <1>1, <1>3, <2>1, <2>2 DEF ConnType, NoConn
<1>8. CASE authenticate(c)
  <2>1. /\ conn[c].pc \in {"session", "loose"}
        /\ conn' = [conn EXCEPT ![c].slot = FALSE, ![c].principal = TRUE]
        /\ unauth' = (IF c \in U THEN unauth - 1 ELSE unauth) /\ total' = total
    BY <1>8 DEF authenticate, ReleasedOnce, Unauthenticated
  <2>2. Counted' = C /\ Unauthenticated' = U \ {c} /\ ConnType'
    <3>1. /\ conn'[c].pc = conn[c].pc /\ conn'[c].slot = FALSE
          /\ \A x \in Conns \ {c} : conn'[x] = conn[x]
      BY <1>3, <2>1 DEF ConnType
    <3>2. ConnType'
      <4> DEFINE x == [conn[c] EXCEPT !.slot = FALSE, !.principal = TRUE]
      <4>1. conn' = [conn EXCEPT ![c] = x]
        BY Zenon, <2>1
      <4>2. x \in [pc : {"none", "accepted", "total", "session", "loose", "gone"},
                   slot : BOOLEAN, principal : BOOLEAN, told : BOOLEAN,
                   host : {"none", "spawning", "tracked", "inline"}, live : BOOLEAN,
                   busy : BOOLEAN]
        BY Zenon, <1>3 DEF ConnType
      <4> HIDE DEF x
      <4> QED
        BY <1>3, <4>1, <4>2 DEF ConnType
    <3>3. Counted' = C
      BY <3>1 DEF Counted
    <3>4. Unauthenticated' = U \ {c}
      BY <3>1 DEF Unauthenticated
    <3> QED
      BY <3>2, <3>3, <3>4
  <2>3. unauth' = Cardinality(U \ {c})
    <3>1. CASE c \in U
      BY <3>1, <1>1, <2>1
    <3>2. CASE c \notin U
      <4>1. U \ {c} = U
        BY <3>2
      <4> QED
        BY Zenon, <3>2, <4>1, <1>0, <2>1
    <3> QED
      BY <3>1, <3>2
  <2> QED
    BY <1>0, <1>3, <2>1, <2>2, <2>3 DEF ConnType
<1>9. CASE drop_connection(c)
  <2>1. /\ conn[c].pc = "gone" /\ c \in C
        /\ conn' = [conn EXCEPT ![c] = NoConn]
        /\ unauth' = (IF c \in U THEN unauth - 1 ELSE unauth) /\ total' = total - 1
    BY <1>9 DEF drop_connection, DropSlot, ReleasedOnce, Unauthenticated, Counted
  <2>2. Counted' = C \ {c} /\ Unauthenticated' = U \ {c} /\ ConnType'
    BY <1>3, <2>1 DEF Counted, Unauthenticated, ConnType, NoConn
  <2>3. unauth' = Cardinality(U \ {c})
    <3>1. CASE c \in U
      BY <3>1, <1>1, <2>1
    <3>2. CASE c \notin U
      <4>1. U \ {c} = U
        BY <3>2
      <4> QED
        BY Zenon, <3>2, <4>1, <1>0, <2>1
    <3> QED
      BY <3>1, <3>2
  <2> QED
    BY <1>0, <1>1, <1>3, <2>1, <2>2, <2>3 DEF ConnType, NoConn
<1> QED
  BY <1>4, <1>5, <1>6, <1>7, <1>8, <1>9 DEF admit_total

\* Every other step of a connection keeps its slot.
LEMMA ConnectionStep ==
  ASSUME SlotInv, NEW c \in Conns, Connection(c)
  PROVE  SlotInv'
<1> USE DEF SlotInv, ConnType
<1>1. CASE accept(c)
  BY <1>1, SlotsKept DEF accept
<1>2. CASE notified(c)
  BY Zenon, <1>2, SlotsKept DEF notified
<1>3. CASE deadline(c)
  <2>1. PICK to \in {"loose", "gone"} : conn' = [conn EXCEPT ![c].pc = to]
    BY <1>3 DEF deadline
  <2>2. ConnType'
    BY <2>1
  <2> QED
    BY <1>3, <2>1, <2>2, SlotsKept DEF deadline
<1>4. CASE session_ends(c) \/ abandon(c)
  BY <1>4, SlotsKept DEF session_ends, abandon
<1>5. CASE host_request(c) \/ track(c)
  BY <1>5, SlotsKept DEF host_request, track
<1>6. CASE host_exits(c)
  BY Zenon, <1>6, SlotsKept DEF host_exits
<1>8. CASE host_waits(c)
  BY Zenon, <1>8, SlotsKept DEF host_waits
<1>9. CASE host_resumes(c)
  BY Zenon, <1>9, SlotsKept DEF host_resumes
<1>7. CASE complete(c)
  BY <1>7, SlotsKept DEF complete
<1> QED
  BY <1>1, <1>2, <1>3, <1>4, <1>5, <1>6, <1>7, <1>8, <1>9, SlotStep DEF Connection

\* No connection is left: both counters are zero.
LEMMA AllDropped == ASSUME Dropped PROVE SlotInv'
<1>1. Counted' = {} /\ Unauthenticated' = {} /\ ConnType'
  BY DEF Dropped, Counted, Unauthenticated, ConnType, NoConn
<1>2. total' = Cardinality(Counted') /\ unauth' = Cardinality(Unauthenticated')
      /\ total' = 0 /\ unauth' = 0
  BY <1>1, FS_EmptySet DEF Dropped
<1>3. CountersExact'
  BY <1>2, DaemonAssumption DEF CountersExact, Counted, Unauthenticated, DaemonAssumption
<1>4. \A c \in Conns : ~conn'[c].slot
  BY DEF Dropped, NoConn
<1> QED
  BY <1>1, <1>3, <1>4 DEF SlotInv

\* The counters stay exact over every step of every daemon and connection.
LEMMA SlotInductive == (Init => SlotInv) /\ (SlotInv /\ [Next]_vars => SlotInv')
<1>1. Init => SlotInv
  <2> SUFFICES ASSUME Init PROVE SlotInv
    OBVIOUS
  <2>1. Counted = {} /\ Unauthenticated = {} /\ ConnType
    BY DEF Init, Counted, Unauthenticated, ConnType, NoConn
  <2>2. total = Cardinality(Counted) /\ unauth = Cardinality(Unauthenticated)
        /\ total = 0 /\ unauth = 0
    BY <2>1, FS_EmptySet DEF Init
  <2>3. CountersExact
    BY <2>2, DaemonAssumption DEF CountersExact, Counted, Unauthenticated, DaemonAssumption
  <2>4. \A c \in Conns : ~conn[c].slot
    BY DEF Init, NoConn
  <2> QED
    BY <2>1, <2>3, <2>4 DEF SlotInv
<1>2. ASSUME SlotInv, UNCHANGED <<conn, total, unauth>> PROVE SlotInv'
  BY <1>2, SlotsKept DEF SlotInv, ConnType
<1>3. ASSUME SlotInv, NEW d \in Daemons, ForceStop(d) PROVE SlotInv'
  BY Zenon, <1>3, SlotsKept DEF SlotInv, ConnType, ForceStop
<1>4. ASSUME SlotInv, NEW d \in Daemons,
             Start(d) \/ Boot(d) \/ Fail(d) \/ Reconciled(d) \/ signal(d) \/ Stop(d) \/ End(d)
      PROVE  SlotInv'
  <2>1. UNCHANGED <<conn, total, unauth>> \/ ForceStop(d) \/ Dropped
    BY <1>4 DEF Start, Boot, Fail, Reconciled, signal, Stop, End, Acquire, Configured, LoadKey,
       CreateKey, ReloadKey, Open, Serve, StopAccepting, Served, Joined, Released, server
  <2> QED
    BY <1>2, <1>3, <1>4, <2>1, AllDropped
<1> QED
  BY <1>1, <1>2, <1>4, ConnectionStep DEF Next, Drain, InstallKey, server, vars

\* Connection admission is exact for any caps and any number of connections:
\* no order of authentication, deadline, disconnect, bridge end and shutdown
\* leaks a slot or frees one twice (Limiter, LimiterSlot).
THEOREM Counters == Spec => []CountersExact
<1>1. SlotInv => CountersExact
  BY DEF SlotInv
<1> QED
  BY <1>1, SlotInductive, PTL DEF Spec

-----------------------------------------------------------------------------
(* The host tasks.                                                         *)

\* A tracked bridge is in the registry or among the handles join_all awaits;
\* the registry is closed once serve is past its loop, and when serve has
\* returned by itself both are empty; only a daemon that owns the server is
\* past serving it.
HostInv ==
  /\ \A c \in Conns : conn[c].host = "tracked" => c \in tasks \cup joining
  /\ serve \in {"closed", "done"} => closed
  /\ \A d \in Daemons : dm[d].pc \in {"joining", "forced"} => serve = "done"
  /\ serve = "done" => (tasks = {} /\ joining = {}) \/ \E d \in Daemons : At(d, "forced")
  /\ \A d \in Daemons : \A c \in Conns :
       At(d, "forced") /\ conn[c].host = "tracked" /\ conn[c].live => c \in joining

\* The extent of what force_stop misses: a tracked process that runs on after
\* it is one whose handle join_all had drained.
OnlyDrainedSurvive ==
  \A d \in Daemons : \A c \in Conns :
    At(d, "forced") /\ conn[c].host = "tracked" /\ conn[c].live => c \in joining

\* What the promise needs: a daemon that joins its thread is the only owner,
\* so none is forced.
LEMMA HostInvSuffices == ASSUME LockInv, HostInv PROVE HostsJoined
<1>1. ASSUME NEW d \in Daemons, At(d, "joining") PROVE tasks = {} /\ joining = {}
  <2>1. serve = "done" /\ \A e \in Daemons : ~At(e, "forced")
    BY <1>1 DEF HostInv, LockInv, RegistryHeld, Locked, Owning, At
  <2> QED
    BY <2>1 DEF HostInv
<1> QED
  BY <1>1 DEF HostInv, HostsJoined

\* The bootstrap of a daemon finds no other one serving; the end of one drops
\* every task, and the two ways out of serving find what they need: all joined,
\* or all but the awaited ones killed.
LEMMA HostDaemonStep ==
  ASSUME LockInv, ConnType, HostInv, NEW d \in Daemons,
         Start(d) \/ Boot(d) \/ Fail(d) \/ Reconciled(d) \/ signal(d) \/ Stop(d) \/ End(d)
  PROVE  HostInv'
<1>1. dm \in [Daemons -> [pc : Booting \cup Owning \cup {"exit"},
                          key : Daemons \cup {Nobody, Operator},
                          recon : {"none", "later", "running"}, signals : 0 .. 2]]
  BY DEF LockInv, DaemonType
<1>2. \A e \in Daemons : dm[d].pc \in Locked /\ dm[e].pc \in Locked => e = d
  BY DEF LockInv, RegistryHeld
<1>3. ASSUME UNCHANGED server, \A e \in Daemons : dm'[e].pc \in {"joining", "forced"}
                \/ dm[e].pc \in {"joining", "forced"} => dm'[e].pc = dm[e].pc
      PROVE  HostInv'
  BY <1>3 DEF HostInv, server, At
<1>4. CASE Start(d) \/ Fail(d) \/ Reconciled(d) \/ signal(d)
  BY <1>1, <1>3, <1>4 DEF Start, Fail, Reconciled, signal, Goto, At, Off
<1>5. CASE Boot(d)
  <2>1. CASE Serve(d)
    <3>1. \A e \in Daemons : dm'[e].pc \notin {"joining", "forced"}
      BY <1>1, <1>2, <2>1 DEF Serve, At, Locked, Owning
    <3> QED
      BY Zenon, <2>1, <3>1 DEF HostInv, Serve, At
  <2>2. CASE ~Serve(d)
    BY <1>1, <1>3, <1>5, <2>2 DEF Boot, Acquire, Configured, LoadKey, CreateKey, ReloadKey, Open, Goto, At
  <2> QED
    BY <2>1, <2>2
<1>6. CASE StopAccepting(d)
  BY <1>6 DEF HostInv, StopAccepting, At
<1>7. CASE Served(d)
  BY <1>1, <1>7 DEF HostInv, Served, At, Goto, server
<1>8. ASSUME dm[d].pc \in Owning, Dropped, dm'[d].pc \notin Owning,
             \A e \in Daemons : e # d => dm'[e] = dm[e]
      PROVE  HostInv'
  <2>1. \A e \in Daemons : dm'[e].pc \notin {"joining", "forced"}
    BY <1>1, <1>2, <1>8 DEF Locked, Owning
  <2> QED
    BY <1>8, <2>1 DEF HostInv, Dropped, At, NoConn
<1>9. CASE Joined(d) \/ Released(d)
  BY <1>1, <1>8, <1>9 DEF Joined, Released, Goto, At, Owning
<1>10. CASE End(d)
  <2>1. CASE dm[d].pc \in Owning
    BY <1>1, <1>8, <1>10, <2>1 DEF End, Off, Owning
  <2>2. CASE dm[d].pc \notin Owning
    BY <1>1, <1>3, <1>10, <2>2 DEF End, Off, Owning
  <2> QED
    BY <2>1, <2>2
<1>11. CASE ForceStop(d)
  <2>1. /\ dm' = [dm EXCEPT ![d].pc = "forced"] /\ serve' = "done" /\ closed' = TRUE
        /\ tasks' = tasks /\ joining' = joining
        /\ \A c \in Conns : conn'[c].host = conn[c].host /\ (c \in tasks => ~conn'[c].live)
    BY <1>11 DEF ForceStop, Goto, Forced, ConnType
  <2>2. At(d, "forced")'
    BY <1>1, <2>1 DEF At
  <2> QED
    BY <2>1, <2>2 DEF HostInv
<1> QED
  BY <1>4, <1>5, <1>6, <1>7, <1>9, <1>10, <1>11 DEF Stop

\* A bridge enters the registry before it closes and leaves it, or the awaited
\* handles, when it is over.
LEMMA HostConnectionStep ==
  ASSUME LockInv, ConnType, HostInv, NEW c \in Conns, Connection(c)
  PROVE  HostInv'
<1>1. dm' = dm
  BY ConnectionKeepsLocks
<1>2. ASSUME UNCHANGED <<serve, closed, tasks, joining>>,
             \A b \in Conns : conn'[b].host = "tracked" =>
                  conn[b].host = "tracked" /\ (conn'[b].live => conn[b].live)
      PROVE  HostInv'
  BY <1>1, <1>2 DEF HostInv, At
<1>3. CASE track(c) /\ ~closed
  <2>1. /\ tasks' = tasks \cup {c} /\ joining' = joining /\ serve' = serve /\ closed' = closed
        /\ \A b \in Conns \ {c} : conn'[b] = conn[b]
    BY <1>3 DEF track, Refuses, ConnType
  <2>2. serve \notin {"closed", "done"} /\ \A d \in Daemons : dm[d].pc \notin {"joining", "forced"}
    BY <1>3 DEF HostInv
  <2> QED
    BY <1>1, <2>1, <2>2 DEF HostInv, At
<1>4. CASE track(c) /\ closed
  BY <1>2, <1>4 DEF track, Refuses, ConnType
<1>5. CASE complete(c)
  <2>1. /\ tasks' = tasks \ {c} /\ joining' = joining \ {c} /\ serve' = serve /\ closed' = closed
        /\ conn'[c].host = "none" /\ \A b \in Conns \ {c} : conn'[b] = conn[b]
    BY <1>5 DEF complete, ConnType
  <2> QED
    BY <1>1, <2>1 DEF HostInv, At
<1>6. CASE accept(c) \/ admit_total(c) \/ admit_unauthenticated(c) \/ drop_connection(c)
  BY <1>2, <1>6 DEF accept, admit_total, admit_unauthenticated, drop_connection, ConnType, NoConn
<1>7. CASE authenticate(c) \/ notified(c) \/ deadline(c) \/ session_ends(c) \/ abandon(c)
  BY <1>2, <1>7 DEF authenticate, notified, deadline, session_ends, abandon, ConnType
<1>8. CASE host_request(c) \/ host_exits(c) \/ host_waits(c) \/ host_resumes(c)
  BY <1>2, <1>8 DEF host_request, host_exits, host_waits, host_resumes, ConnType
<1> QED
  BY <1>3, <1>4, <1>5, <1>6, <1>7, <1>8 DEF Connection

\* The registry discipline holds at the start and over every step.
LEMMA HostInductive ==
  (Init => HostInv) /\ (LockInv /\ SlotInv /\ HostInv /\ [Next]_vars => HostInv')
<1>1. Init => HostInv
  BY DEF Init, HostInv, NoConn, Off, At
<1>2. ASSUME LockInv, SlotInv, HostInv, [Next]_vars PROVE HostInv'
  <2>0. ConnType
    BY <1>2 DEF SlotInv
  <2>1. CASE Drain
    BY <1>2, <2>1 DEF HostInv, Drain, At
  <2>2. CASE InstallKey \/ UNCHANGED vars
    BY <1>2, <2>2 DEF HostInv, InstallKey, server, vars, At
  <2> QED
    BY <1>2, <2>0, <2>1, <2>2, HostDaemonStep, HostConnectionStep DEF Next
<1> QED
  BY <1>1, <1>2

\* For any number of connections and in any order of signals, track, exits and
\* joins: no accepted bridge outlives a serve that returned by itself
\* (HostTaskRegistry::close, track, join_all).
THEOREM Joins == Spec => []HostsJoined
BY HostInductive, LockInductive, SlotInductive, HostInvSuffices, PTL DEF Spec

\* A second signal leaves at most the tracked processes that join_all was
\* already awaiting (HostTaskRegistry::force_stop iterates over the registry
\* that join_all drains).
THEOREM ForcedLeavesDrained == Spec => []OnlyDrainedSurvive
<1>1. HostInv => OnlyDrainedSurvive
  BY DEF HostInv, OnlyDrainedSurvive
<1> QED
  BY <1>1, HostInductive, LockInductive, SlotInductive, PTL DEF Spec

=============================================================================
