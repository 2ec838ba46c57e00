------------------------- MODULE MCThreadPoolNormal -------------------------
(* ThreadPoolNormal with the symmetry of its submissions. *)
EXTENDS ThreadPoolNormal, TLC

TaskSymmetry == Permutations(Task)
=============================================================================
