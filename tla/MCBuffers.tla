----------------------------- MODULE MCBuffers -----------------------------
(* Two buffers with blocks of two bytes, and bytes for two blocks and, by   *)
(* copies, for more.                                                        *)
EXTENDS Buffers

Symmetry == Permutations(Name)
=============================================================================
