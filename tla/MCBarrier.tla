------------------------------ MODULE MCBarrier ------------------------------
(* Barriers of three participants, with as many users and with more.        *)
EXTENDS Barrier
=============================================================================
