------------------------------ MODULE MCDaemon ------------------------------
(* Two daemons started on the same roots, and two connections to the first *)
(* one, made while the second is off: the locks and the key are about two  *)
(* daemons, the counters, the host tasks and the shutdown about one.       *)
EXTENDS Daemon

CONSTANT Second

ApartNext == Next /\ (dm'[Second].pc = "off" \/ conn' = [c \in Conns |-> NoConn])

ApartSpec == Init /\ [][ApartNext]_vars /\ Fairness

=============================================================================
