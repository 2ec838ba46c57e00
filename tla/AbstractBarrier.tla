--------------------------- MODULE AbstractBarrier ---------------------------
(***************************************************************************)
(* What a reusable barrier promises: participants gather until there are   *)
(* N of them, then all of them leave, then the next batch may gather.      *)
(***************************************************************************)
EXTENDS Naturals, FiniteSets

CONSTANTS Thread, N

VARIABLES
    waiting,   \* the participants inside the barrier
    open       \* may they leave?

Init == waiting = {} /\ open = FALSE

Arrive(t) ==
    /\ ~open
    /\ t \notin waiting
    /\ waiting' = waiting \cup {t}
    /\ open' = (Cardinality(waiting') = N)

Leave(t) ==
    /\ open
    /\ t \in waiting
    /\ waiting' = waiting \ {t}
    /\ open' = (waiting' # {})

Next == \E t \in Thread : Arrive(t) \/ Leave(t)

Spec == Init /\ [][Next]_<<waiting, open>>
=============================================================================
