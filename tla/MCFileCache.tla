---------------------------- MODULE MCFileCache ----------------------------
(* Three files in a cache with room for two of them: all of one size, as in *)
(* the concurrent test of the repository, or of three sizes, of which the   *)
(* largest does not fit into the cache, and changing while they are read.   *)
EXTENDS FileCache, TLC

CONSTANTS a, b, c
Equal == [size |-> [f \in File |-> 2], resizes |-> FALSE]
Unequal == [size |-> (a :> 1) @@ (b :> 3) @@ (c :> 6), resizes |-> TRUE]
Both == {Equal, Unequal}
OnlyEqual == {Equal}
=============================================================================
