----------------------------- MODULE MCIdentity -----------------------------
(***************************************************************************)
(* Small instances of SubidLedger and of IdmapBroker, which share no state *)
(* and are checked one after the other: the ledger moves once the launches *)
(* are over that never reached the broker.                                 *)
(*                                                                         *)
(* The ledger: the worker w1 with another thread of its daemon, w2, or     *)
(* with the one thread of another daemon, w3.                              *)
(*                                                                         *)
(* The broker: three launches and fewer permits.  The user namespace and   *)
(* the directories of c1 may be wrong, those of c2 are right, and c3 was   *)
(* leased the daemon's own GID, which the broker must refuse.              *)
(***************************************************************************)
EXTENDS SubidLedger, IdmapBroker, TLC

CONSTANTS w1, w2, w3, p1, p2, s1, s2, c1, c2, c3

VARIABLE partner   \* who w1 shares the ledger with, or w1 before it is chosen

ThreadsAndProcess == w1 :> p1 @@ w2 :> p1 @@ w3 :> p2

(* A ledger left by an earlier daemon: one legacy Reserved record.         *)
Legacy == {[lease_id |-> 1, sandbox |-> s1, uid |-> 10, gid |-> 20, state |-> "Reserved"]}

OwnIds == [uid |-> 1, gid |-> 2]
LeasedIds == c1 :> [uid |-> 3, gid |-> 5] @@ c2 :> [uid |-> 4, gid |-> 6] @@ c3 :> [uid |-> 7, gid |-> 2]

IdentityInit ==
    /\ Init /\ BrokerInit
    /\ userns[c2] = Lease[c2] /\ userns[c3] = Lease[c3]
    /\ partner = w1

(* The daemon died before any launch asked: the broker has nothing to do.  *)
Quiet ==
    /\ userns = Lease
    /\ \A c \in Clients : launch[c] = "dead" /\ conn[c] = Nil /\ source[c] = [d \in Dirs |-> "private"]

LedgerNext ==
    /\ Quiet /\ Next
    /\ partner' \in IF partner = w1 THEN {w2, w3} ELSE {partner}
    /\ \A w \in {w2, w3} \ {partner'} : pc'[w] = "idle"
    /\ UNCHANGED broker_vars

OneDisturbed ==
    BrokerNext /\ UNCHANGED <<source[c2], source[c3], vars, partner>>

IdentityNext == LedgerNext \/ OneDisturbed

IdentitySpec ==
    IdentityInit /\ [][IdentityNext]_<<vars, broker_vars, partner>> /\ BrokerFairness
=============================================================================
