---------------------------- MODULE MCSubidLedger ----------------------------
(* SubidLedger with all three kinds of sharing at once: two threads of one   *)
(* daemon, w1 and w2, and the one thread of another, w3.                     *)
EXTENDS SubidLedger, TLC
CONSTANTS w1, w2, w3, p1, p2, s1, s2

ThreadsAndProcess == w1 :> p1 @@ w2 :> p1 @@ w3 :> p2
=============================================================================
