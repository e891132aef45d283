---------------------------- MODULE MCSnapshots ----------------------------
(* The three components that answer from a reading of host files: the        *)
(* accepted keys (KeyStore), the delegated ranges (DelegationCache) and the  *)
(* ids selected from them (AvailableIds).  They share no variable and no     *)
(* property relates two of them, so a behaviour of this instance is one of   *)
(* one component, the other two at rest: their sum, not their product.       *)
EXTENDS AvailableIds, DelegationCache, TLC

CONSTANTS Requests, Boot, Keys, NsecRange, MaxInvalidations

VARIABLES file, now, store, writer, revalidate, request, obs, got, ghost, invals

\* A good key file and one that does not parse; Chmod makes them unsafe.
GoodAndBad == {[safe |-> TRUE, well |-> TRUE, keys |-> Keys],
               [safe |-> TRUE, well |-> FALSE, keys |-> {}]}

KS == INSTANCE KeyStore WITH Contents <- GoodAndBad, pc <- request

keyVars == <<file, now, store, writer, revalidate, request, obs, got, ghost, invals>>

AllIds == 0 .. IdSpace - 1
NarrowCounts == 0 .. IdSpace

\* A component at rest is in its initial state.
IdsAtRest == phase = "parse" /\ parsed = 0
RangesAtRest == edits = 0 /\ cached = None /\ \A t \in Threads : pc[t] = "idle"
KeysAtRest == request[Boot] = "validate_host" /\ \A s \in DOMAIN file : ~file[s].here

SumInit == IdsInit /\ Init /\ KS!Init
SumNext ==
    \/ KeysAtRest /\ RangesAtRest /\ IdsNext /\ UNCHANGED <<keyVars, vars>>
    \/ KeysAtRest /\ IdsAtRest /\ Next /\ UNCHANGED <<keyVars, idVars>>
    \/ RangesAtRest /\ IdsAtRest /\ KS!Next /\ UNCHANGED <<vars, idVars>>
SumSpec == SumInit /\ [][SumNext]_<<idVars, keyVars, vars>>

Symmetry == Permutations(Requests) \cup Permutations(Threads)

\* See KeyStore: a request never misses an earlier edit or SIGHUP.
FreshAnswer == KS!FreshAnswer
=============================================================================
