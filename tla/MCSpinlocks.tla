----------------------------- MODULE MCSpinlocks ----------------------------
(* Three threads on two queue locks, or on two flags. *)
EXTENDS Spinlocks
=============================================================================
