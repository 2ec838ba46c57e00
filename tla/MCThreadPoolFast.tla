-------------------------- MODULE MCThreadPoolFast --------------------------
(* ThreadPoolFast with the symmetry of its submissions. *)
EXTENDS ThreadPoolFast, TLC

TaskSymmetry == Permutations(Task)
=============================================================================
