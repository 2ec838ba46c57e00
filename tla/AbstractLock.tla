---------------------------- MODULE AbstractLock ----------------------------
(* What locks promise: each has one holder at a time, who releases it.     *)
CONSTANTS Thread, Lock, None

VARIABLE holder

Init == holder = [l \in Lock |-> None]

Acquire(t, l) == holder[l] = None /\ holder' = [holder EXCEPT ![l] = t]
Release(t, l) == holder[l] = t /\ holder' = [holder EXCEPT ![l] = None]

Next == \E t \in Thread, l \in Lock : Acquire(t, l) \/ Release(t, l)

Spec == Init /\ [][Next]_holder
=============================================================================
