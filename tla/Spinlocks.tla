----------------------------- MODULE Spinlocks ------------------------------
(***************************************************************************)
(* Threads on locks of one of the two kinds: SpinlockMCS instances (Lock), *)
(* or Spinlock instances (Flag).  The kinds share no state.                *)
(***************************************************************************)
EXTENDS SpinlockMCS

CONSTANT Flag

VARIABLES
    kind,              \* "queue" or "flag": the locks that are used
    locked_, on, at    \* the state of the Spinlock instances

flags == <<locked_, on, at>>

S == INSTANCE Spinlock WITH Lock <- Flag, using <- on, pc <- at

BothInit == kind \in {"queue", "flag"} /\ Init /\ S!Init

QueueLock(t) ==
    /\ kind = "queue"
    /\ \/ \E l \in Lock : PrepareNode(t, l)
       \/ Step(t)
       \/ DestroyLock(t)
    /\ UNCHANGED <<kind, flags>>

FlagLock(t) ==
    /\ kind = "flag"
    /\ \/ \E l \in Flag : S!Load(t, l)
       \/ S!Step(t)
    /\ UNCHANGED <<kind, vars>>

BothNext == \E t \in Thread : QueueLock(t) \/ FlagLock(t)

(* Threads are scheduled, and critical sections end. *)
BothSpec ==
    /\ BothInit /\ [][BothNext]_<<kind, vars, flags>>
    /\ \A t \in Thread : /\ WF_vars(Step(t) /\ UNCHANGED <<kind, flags>>)
                         /\ WF_flags(S!Step(t) /\ UNCHANGED <<kind, vars>>)

-----------------------------------------------------------------------------
(* Properties *)

(* Both kinds of locks implement abstract locks: no two threads are ever   *)
(* between lock() and unlock() of one instance.                            *)
ImplementsLocks == ImplementsLock /\ S!ImplementsLock

(* No thread starves on a SpinlockMCS: every lock() call gets the lock, so *)
(* no unlock() before it waits for ever on a successor.  A Spinlock that   *)
(* is wanted is taken by someone.                                          *)
EveryoneEnters ==
    /\ \A t \in Thread : (pc[t] = "swap") ~> (pc[t] = "critical")
    /\ S!SomeoneEnters
=============================================================================
