--------------------------- MODULE MCTwoLayerAlloc ---------------------------
(* Pages of 128 bytes and a threshold of two pages: requests of 16 and 80   *)
(* bytes go to the caches (totals of 48 and 112, refilled with one and two  *)
(* pages), those of 256 as well (288, refilled with three pages), and those *)
(* of 272 and more to the central heap.                                     *)
EXTENDS TwoLayerAlloc, TLC

CONSTANTS t1, t2, c1, c2

Program(threads, second, request, heapBound) ==
    [threads |-> threads, cacheOf |-> (t1 :> c1) @@ (t2 :> second),
     request |-> request, heapBound |-> heapBound]

(* Two threads with caches of their own, two that share one, and one thread *)
(* that works mostly on the central heap and lets it cut blocks.            *)
Mixed == { Program({t1, t2}, c2, {16, 80, 272}, 128),
           Program({t1, t2}, c1, {16, 80}, 128),
           Program({t1}, c2, {272, 400, 528}, 1024) }
Small == { Program({t1, t2}, c2, {16}, 128) }
=============================================================================
