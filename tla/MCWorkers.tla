------------------------------ MODULE MCWorkers ------------------------------
(* Pools of two workers, a second of seven ticks in three slots of two,    *)
(* room for two threads.                                                   *)
(* A run is of one of these kinds: one worker over a second and a half; two *)
(* that disturb each other; two pools one after the other, the second of    *)
(* which takes more slots than there are, with one fault; and workers and a *)
(* main thread of which two may fault, one of them while a worker is        *)
(* leaving.                                                                 *)
EXTENDS Workers

Bounds(threads, stops, ticks, requests, queries, faults) ==
    [threads |-> threads, stops |-> stops, ticks |-> ticks,
     requests |-> requests, queries |-> queries, faults |-> faults]

MCLoad == {
    Bounds(1, 0, 9, 3, 1, 0),
    Bounds(2, 0, 4, 2, 1, 0),
    Bounds(4, 4, 0, 1, 0, 1),
    Bounds(2, 2, 0, 0, 0, 2)}
=============================================================================
