------------------------------ MODULE Spinlock ------------------------------
(***************************************************************************)
(* spinlock.hpp: a lock that is a flag.  One step is one access to         *)
(* locked_.  A turn of a loop that finds the lock taken changes nothing:   *)
(* it is a step that stutters.                                             *)
(***************************************************************************)
CONSTANTS
    Thread,
    Lock,     \* the Spinlock instances
    NULL

VARIABLES
    locked_,  \* of each lock
    using,    \* the lock that each thread is on
    pc        \* where each thread is

vars == <<locked_, using, pc>>

Init ==
    /\ locked_ = [l \in Lock |-> FALSE]
    /\ using = [t \in Thread |-> NULL]
    /\ pc = [t \in Thread |-> "idle"]

Goto(t, label) == pc' = [pc EXCEPT ![t] = label]

(* lock: loadLockState() *)
Load(t, l) ==
    /\ pc[t] = "idle"
    /\ using' = [using EXCEPT ![t] = l]
    /\ Goto(t, IF locked_[l] THEN "spin" ELSE "test")
    /\ UNCHANGED locked_

(* Mutant: a load and a store in the place of the test-and-set. *)
TestThenSet(t) ==
    /\ pc[t] = "test"
    /\ locked_' = [locked_ EXCEPT ![using[t]] = TRUE]
    /\ Goto(t, "critical")
    /\ UNCHANGED using

TestAndSet(t) ==
    /\ pc[t] = "test"
    /\ locked_' = [locked_ EXCEPT ![using[t]] = TRUE]
    /\ Goto(t, IF locked_[using[t]] THEN "spin" ELSE "critical")
    /\ UNCHANGED using

(* The loop ends when the lock is seen free or after 1000 turns, which may *)
(* be at any time.                                                         *)
Spin(t) ==
    /\ pc[t] = "spin"
    /\ Goto(t, "sleep")
    /\ UNCHANGED <<locked_, using>>

(* The test-and-set that succeeds at last; one that fails sets what is set *)
(* already, and sleeps.                                                    *)
Sleep(t) ==
    /\ pc[t] = "sleep"
    /\ ~locked_[using[t]]
    /\ locked_' = [locked_ EXCEPT ![using[t]] = TRUE]
    /\ Goto(t, "critical")
    /\ UNCHANGED using

Unlock(t) ==
    /\ pc[t] = "critical"
    /\ locked_' = [locked_ EXCEPT ![using[t]] = FALSE]
    /\ using' = [using EXCEPT ![t] = NULL]
    /\ Goto(t, "idle")

-----------------------------------------------------------------------------
Step(t) == TestAndSet(t) \/ Spin(t) \/ Sleep(t) \/ Unlock(t)

Next == \E t \in Thread : Step(t) \/ \E l \in Lock : Load(t, l)

Spec == Init /\ [][Next]_vars

-----------------------------------------------------------------------------
Holds(t, l) == using[t] = l /\ pc[t] = "critical"

HolderOf(l) ==
    IF \E t \in Thread : Holds(t, l) THEN CHOOSE t \in Thread : Holds(t, l) ELSE NULL
Locks == INSTANCE AbstractLock WITH holder <- [l \in Lock |-> HolderOf(l)], None <- NULL

(* The instances implement abstract locks. *)
ImplementsLock == Locks!Spec

(* A lock that is wanted is taken, again and again, although the same      *)
(* threads may always win.                                                 *)
SomeoneEnters ==
    \A l \in Lock :
      (\E t \in Thread : using[t] = l) ~> (\E t \in Thread : Holds(t, l))
=============================================================================
