----------------------------- MODULE SpinlockMCS -----------------------------
(***************************************************************************)
(* spinlock_mcs.hpp: a queue lock.  Every thread has one queue node,       *)
(* qnode_, for all the SpinlockMCS instances; so a thread uses one lock at *)
(* a time, and a node is named by its thread.  One step is one access to   *)
(* shared memory, in program order: the stores of locked and next are in   *)
(* the order that the comment at lines 27-38 says the build keeps.         *)
(***************************************************************************)
EXTENDS Naturals, Sequences

CONSTANTS
    Thread,
    Lock,     \* the SpinlockMCS instances
    NULL

ASSUME NullAssumption == NULL \notin Thread

VARIABLES
    tail_,         \* of each lock
    qnode_,        \* the threads that have a node
    next, locked,  \* the fields of each node
    previous,      \* the local of each lock()
    using,         \* the lock that each thread is on
    pc,            \* where each thread is
    order          \* the threads that swapped tail_ of each lock and have not
                   \* handed it on, in order (history)

vars == <<tail_, qnode_, next, locked, previous, using, pc, order>>

Init ==
    /\ tail_ = [l \in Lock |-> NULL]
    /\ qnode_ = {}
    /\ next = [t \in Thread |-> NULL]
    /\ locked = [t \in Thread |-> TRUE]
    /\ previous = [t \in Thread |-> NULL]
    /\ using = [t \in Thread |-> NULL]
    /\ pc = [t \in Thread |-> "idle"]
    /\ order = [l \in Lock |-> <<>>]

Goto(t, label) == pc' = [pc EXCEPT ![t] = label]

-----------------------------------------------------------------------------
(* lock *)

(* The first lock() of a thread makes its node. *)
PrepareNode(t, l) ==
    /\ pc[t] = "idle"
    /\ using' = [using EXCEPT ![t] = l]
    /\ qnode_' = qnode_ \cup {t}
    /\ locked' = IF t \in qnode_ THEN locked ELSE [locked EXCEPT ![t] = TRUE]
    /\ next' = [next EXCEPT ![t] = NULL]
    /\ Goto(t, "swap")
    /\ UNCHANGED <<tail_, previous, order>>

SwapTail(t) ==
    LET l == using[t]
    IN  /\ pc[t] = "swap"
        /\ previous' = [previous EXCEPT ![t] = tail_[l]]
        /\ tail_' = [tail_ EXCEPT ![l] = t]
        /\ order' = [order EXCEPT ![l] = Append(order[l], t)]
        /\ Goto(t, IF tail_[l] = NULL THEN "critical" ELSE "mark")
        /\ UNCHANGED <<qnode_, next, locked, using>>

MarkLocked(t) ==
    /\ pc[t] = "mark"
    /\ locked' = [locked EXCEPT ![t] = TRUE]
    /\ Goto(t, "link")
    /\ UNCHANGED <<tail_, qnode_, next, previous, using, order>>

LinkNode(t) ==
    /\ pc[t] = "link"
    /\ next' = [next EXCEPT ![previous[t]] = t]
    /\ Goto(t, "spin")
    /\ UNCHANGED <<tail_, qnode_, locked, previous, using, order>>

Spin(t) ==
    /\ pc[t] = "spin"
    /\ ~locked[t]
    /\ Goto(t, "critical")
    /\ UNCHANGED <<tail_, qnode_, next, locked, previous, using, order>>

-----------------------------------------------------------------------------
(* unlock *)

Unlock(t) ==
    /\ pc[t] = "critical"
    /\ Goto(t, IF next[t] = NULL THEN "cas" ELSE "release")
    /\ UNCHANGED <<tail_, qnode_, next, locked, previous, using, order>>

Leave(t) ==
    /\ using' = [using EXCEPT ![t] = NULL]
    /\ previous' = [previous EXCEPT ![t] = NULL]
    /\ order' = [order EXCEPT ![using[t]] = Tail(order[using[t]])]

(* Mutant: a store in the place of the compare-and-swap. *)
StoreForCas(t) ==
    /\ pc[t] = "cas"
    /\ tail_' = [tail_ EXCEPT ![using[t]] = NULL]
    /\ Leave(t)
    /\ Goto(t, "idle")
    /\ UNCHANGED <<qnode_, next, locked>>

CasSucceeds(t) ==
    /\ pc[t] = "cas"
    /\ tail_[using[t]] = t
    /\ tail_' = [tail_ EXCEPT ![using[t]] = NULL]
    /\ Leave(t)
    /\ Goto(t, "idle")
    /\ UNCHANGED <<qnode_, next, locked>>

(* Mutant: the successor is not awaited. *)
CasFailsNoAwait(t) ==
    /\ pc[t] = "cas"
    /\ tail_[using[t]] # t
    /\ Goto(t, "release")
    /\ UNCHANGED <<tail_, qnode_, next, locked, previous, using, order>>

CasFails(t) ==
    /\ pc[t] = "cas"
    /\ tail_[using[t]] # t
    /\ Goto(t, "await")
    /\ UNCHANGED <<tail_, qnode_, next, locked, previous, using, order>>

(* A successor that has swapped the tail links itself. *)
AwaitNext(t) ==
    /\ pc[t] = "await"
    /\ next[t] # NULL
    /\ Goto(t, "release")
    /\ UNCHANGED <<tail_, qnode_, next, locked, previous, using, order>>

Release(t) ==
    /\ pc[t] = "release"
    /\ locked' = [locked EXCEPT ![next[t]] = FALSE]
    /\ Leave(t)
    /\ Goto(t, "idle")
    /\ UNCHANGED <<tail_, qnode_, next>>

(* The destructor of some lock, run by a thread that is on no lock: it     *)
(* deletes the node of that thread, which may make another later.          *)
DestroyLock(t) ==
    /\ pc[t] = "idle"
    /\ t \in qnode_
    /\ qnode_' = qnode_ \ {t}
    /\ UNCHANGED <<tail_, next, locked, previous, using, pc, order>>

-----------------------------------------------------------------------------
Step(t) ==
    SwapTail(t) \/ MarkLocked(t) \/ LinkNode(t) \/ Spin(t) \/ Unlock(t) \/ CasSucceeds(t)
      \/ CasFails(t) \/ AwaitNext(t) \/ Release(t)

Next ==
    \E t \in Thread : \/ \E l \in Lock : PrepareNode(t, l)
                      \/ Step(t)
                      \/ DestroyLock(t)

Spec == Init /\ [][Next]_vars

-----------------------------------------------------------------------------
(* Properties *)

(* In the critical section, or on the way out of it. *)
Holds(t, l) == using[t] = l /\ pc[t] \in {"critical", "cas", "await", "release"}

(* The lock is given in the order in which lock() calls swapped tail_: the *)
(* holder is the oldest of those that swapped and did not leave.  And      *)
(* every node that a pointer of a thread at work may follow belongs to a   *)
(* thread that is still in that queue: previous->next and next->locked are *)
(* never written to a node that its owner deleted or uses for a later      *)
(* lock().                                                                 *)
FirstComeFirstServed ==
    \A t \in Thread :
      /\ \A l \in Lock : Holds(t, l) => (order[l] # <<>> /\ Head(order[l]) = t)
      /\ (pc[t] = "link") => /\ previous[t] \in qnode_
                             /\ using[previous[t]] = using[t]
                             /\ next[previous[t]] = NULL
      /\ (pc[t] = "release") => /\ next[t] \in qnode_
                                /\ using[next[t]] = using[t]
                                /\ previous[next[t]] = t
                                /\ pc[next[t]] = "spin"

HolderOf(l) ==
    IF \E t \in Thread : Holds(t, l) THEN CHOOSE t \in Thread : Holds(t, l) ELSE NULL
Locks == INSTANCE AbstractLock WITH holder <- [l \in Lock |-> HolderOf(l)], None <- NULL

(* The instances implement abstract locks. *)
ImplementsLock == Locks!Spec
=============================================================================
