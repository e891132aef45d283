----------------------------- MODULE LeaseTable -----------------------------
(***************************************************************************)
(* What the durable subordinate-ID ledger promises (sandbox/subid): free   *)
(* is the absence of a record, a record's pair is nobody else's, states    *)
(* only move forward, and only a verified release frees a pair.            *)
(***************************************************************************)
CONSTANTS Sandboxes, Uids, Gids, LeaseIds, InitialRecords

VARIABLES records,  \* the lease records on disk
          issued    \* lease ids ever drawn

vars == <<records, issued>>

LeaseStates == {"Reserved", "Active", "Releasing", "Quarantined"}

LeaseRecord == [lease_id : LeaseIds, sandbox : Sandboxes, uid : Uids, gid : Gids,
                state : LeaseStates]

(* Two records that may not both exist (validate_uniqueness).                *)
Clash(r, q) == r.uid = q.uid \/ r.gid = q.gid \/ r.sandbox = q.sandbox

(* The state changes the allocator's operations may publish.                 *)
Forward == {<<"Reserved", "Active">>, <<"Reserved", "Releasing">>, <<"Active", "Releasing">>}
             \union {<<state, "Quarantined">> : state \in LeaseStates}

Init == records = InitialRecords /\ issued = {r.lease_id : r \in InitialRecords}

Draw == \E id \in LeaseIds \ issued : issued' = issued \union {id} /\ UNCHANGED records

(* A claim publishes a record under a drawn id, already Active.              *)
Issue(r) ==
    /\ r.state = "Active" /\ r.lease_id \in issued
    /\ \A q \in records : ~Clash(r, q) /\ r.lease_id # q.lease_id
    /\ records' = records \union {r}
    /\ UNCHANGED issued

Advance(r, state) ==
    /\ <<r.state, state>> \in Forward
    /\ records' = (records \ {r}) \union {[r EXCEPT !.state = state]}
    /\ UNCHANGED issued

(* finish_release frees a Releasing lease; free_reserved_absent a Reserved   *)
(* one whose sandbox was never published.                                    *)
Free(r) ==
    /\ r.state \in {"Releasing", "Reserved"}
    /\ records' = records \ {r}
    /\ UNCHANGED issued

Next ==
    \/ Draw
    \/ \E r \in LeaseRecord : Issue(r)
    \/ \E r \in records : Free(r) \/ \E state \in LeaseStates : Advance(r, state)

Spec == Init /\ [][Next]_vars

(* No subordinate UID or GID is leased twice and no sandbox holds two leases *)
(* (the ambiguity validate_uniqueness treats as corruption).                 *)
UniqueLeases == \A r, q \in records : Clash(r, q) => r = q
=============================================================================
