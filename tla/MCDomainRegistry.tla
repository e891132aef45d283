-------------------------- MODULE MCDomainRegistry --------------------------
(* Small instances of DomainRegistry, in which a deletion and a shutdown do  *)
(* not meet: the launcher's promises are made for either alone.              *)
EXTENDS DomainRegistry

Deleted == \E d \in Deleters : release[d].pc # "idle"
ApartNext == Next /\ ~(Deleted' /\ stopped' # {})

ApartSpec == Init /\ [][ApartNext]_vars /\ Fairness
=============================================================================
