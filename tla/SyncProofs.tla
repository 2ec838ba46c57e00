----------------------------- MODULE SyncProofs -----------------------------
(***************************************************************************)
(* The locks and the barrier implement their abstract forms, for any       *)
(* threads and any instances.                                              *)
(*                                                                         *)
(* First the queue of a SpinlockMCS: its invariant describes the list that *)
(* the nodes form; `order' is that list, and the pointers of its threads   *)
(* agree with it as far as the steps that they have made.  Then the flags  *)
(* of a Spinlock, and the two together.  Last the Barrier, whose counter_  *)
(* is known in each phase of a batch.                                      *)
(***************************************************************************)
EXTENDS Spinlocks, Barrier, FiniteSetTheorems, TLAPS

Waiting == {"mark", "link", "spin"}
Holding == {"critical", "cas", "await", "release"}

(* The threads that have swapped the tail. *)
Queued(t) == pc[t] \in Waiting \cup Holding

TypeOK ==
    /\ tail_ \in [Lock -> Thread \cup {NULL}]
    /\ qnode_ \in SUBSET Thread
    /\ next \in [Thread -> Thread \cup {NULL}]
    /\ locked \in [Thread -> BOOLEAN]
    /\ previous \in [Thread -> Thread \cup {NULL}]
    /\ using \in [Thread -> Lock \cup {NULL}]
    /\ pc \in [Thread -> {"idle", "swap"} \cup Waiting \cup Holding]
    /\ order \in [Lock -> Seq(Thread)]

(* A thread inside lock() or unlock() has a lock and a node, and a node    *)
(* that is about to be queued has no successor.                            *)
ThreadInv ==
    \A t \in Thread :
      /\ (pc[t] # "idle") => (using[t] \in Lock /\ t \in qnode_)
      /\ (pc[t] = "swap") => (next[t] = NULL)

(* The queue of a lock holds each thread that is queued on it, once. *)
Members(l) ==
    /\ \A i \in 1..Len(order[l]) : using[order[l][i]] = l /\ Queued(order[l][i])
    /\ \A i, j \in 1..Len(order[l]) : (order[l][i] = order[l][j]) => (i = j)
    /\ \A t \in Thread :
         (using[t] = l /\ Queued(t)) => (\E i \in 1..Len(order[l]) : order[l][i] = t)

(* tail_ is the last of the queue, which has no successor yet. *)
TailInv(l) ==
    /\ (Len(order[l]) = 0) => (tail_[l] = NULL)
    /\ (Len(order[l]) > 0) => /\ tail_[l] = order[l][Len(order[l])]
                              /\ next[order[l][Len(order[l])]] = NULL

(* All but the first wait, and each knows the one before it, which knows   *)
(* its successor from the step that links the two.                         *)
Links(l) ==
    \A i \in 1..Len(order[l]) : i > 1 =>
      /\ previous[order[l][i]] = order[l][i - 1]
      /\ pc[order[l][i]] \in Waiting
      /\ (pc[order[l][i]] # "mark") => locked[order[l][i]]
      /\ (pc[order[l][i]] = "spin") => (next[order[l][i - 1]] = order[l][i])
      /\ (pc[order[l][i]] # "spin") => (next[order[l][i - 1]] = NULL)

(* The first has the lock or has been told that it does. *)
HeadInv(l) ==
    (Len(order[l]) > 0) =>
      /\ (pc[order[l][1]] \notin Holding) =>
           (pc[order[l][1]] = "spin" /\ locked[order[l][1]] = FALSE)
      /\ (pc[order[l][1]] = "await") => (Len(order[l]) > 1)
      /\ (pc[order[l][1]] = "release") => (next[order[l][1]] # NULL)

QueueInv(l) == Members(l) /\ TailInv(l) /\ Links(l) /\ HeadInv(l)

MCSInv == TypeOK /\ ThreadInv /\ \A l \in Lock : QueueInv(l)

-----------------------------------------------------------------------------
(* The initial state satisfies it. *)
LEMMA InitInv == Init => MCSInv
  BY NullAssumption DEF Init, MCSInv, TypeOK, ThreadInv, QueueInv, Members, TailInv, Links,
                        HeadInv, Queued, Waiting, Holding

(* Where a queued thread is in its queue. *)
LEMMA Position ==
  ASSUME MCSInv, NEW t \in Thread, Queued(t)
  PROVE  /\ using[t] \in Lock
         /\ \E i \in 1..Len(order[using[t]]) : order[using[t]][i] = t
  BY DEF MCSInv, TypeOK, ThreadInv, QueueInv, Members, Queued, Waiting, Holding

(* The holder is the first. *)
LEMMA HolderIsFirst ==
  ASSUME MCSInv, NEW t \in Thread, pc[t] \in Holding
  PROVE  /\ using[t] \in Lock
         /\ Len(order[using[t]]) > 0
         /\ order[using[t]][1] = t
  <1>1. Queued(t)
    BY Zenon DEF Queued
  <1>2. PICK i \in 1..Len(order[using[t]]) : order[using[t]][i] = t
    BY Zenon, <1>1, Position
  <1>3. using[t] \in Lock /\ order[using[t]] \in Seq(Thread)
    BY Zenon, <1>1, Position DEF MCSInv, TypeOK
  <1>4. ~ (i > 1)
    BY Zenon, <1>2, <1>3 DEF MCSInv, QueueInv, Links, Waiting, Holding
  <1> QED
    BY <1>2, <1>3, <1>4

(* A waiting thread that has not been told is not the first. *)
LEMMA WaiterIsBehind ==
  ASSUME MCSInv, NEW t \in Thread, pc[t] \in {"mark", "link"}
  PROVE  /\ using[t] \in Lock
         /\ \E i \in 2..Len(order[using[t]]) :
              /\ order[using[t]][i] = t
              /\ previous[t] = order[using[t]][i - 1]
              /\ next[order[using[t]][i - 1]] = NULL
  <1>1. Queued(t)
    BY Zenon DEF Queued, Waiting
  <1>2. PICK i \in 1..Len(order[using[t]]) : order[using[t]][i] = t
    BY Zenon, <1>1, Position
  <1>3. using[t] \in Lock /\ order[using[t]] \in Seq(Thread)
    BY Zenon, <1>1, Position DEF MCSInv, TypeOK
  <1>4. i # 1
    BY <1>2, <1>3 DEF MCSInv, QueueInv, HeadInv, Holding
  <1>5. i \in 2..Len(order[using[t]])
    BY <1>2, <1>3, <1>4
  <1>6. Links(using[t]) /\ i > 1 /\ pc[order[using[t]][i]] # "spin"
    BY <1>2, <1>3, <1>5 DEF MCSInv, QueueInv
  <1>7. previous[t] = order[using[t]][i - 1] /\ next[order[using[t]][i - 1]] = NULL
    BY Zenon, <1>2, <1>6 DEF Links
  <1> QED
    BY Zenon, <1>2, <1>3, <1>5, <1>7

(* A step that leaves a queue and the threads in it alone, and puts none   *)
(* in it, keeps the invariant of that queue.                               *)
LEMMA Frame ==
  ASSUME MCSInv, NEW l \in Lock,
         order'[l] = order[l],
         tail_'[l] = tail_[l],
         \A i \in 1..Len(order[l]) :
           /\ pc'[order[l][i]] = pc[order[l][i]]
           /\ using'[order[l][i]] = using[order[l][i]]
           /\ next'[order[l][i]] = next[order[l][i]]
           /\ previous'[order[l][i]] = previous[order[l][i]]
           /\ locked'[order[l][i]] = locked[order[l][i]],
         \A u \in Thread : (using'[u] = l /\ Queued(u)') => (using[u] = l /\ Queued(u))
  PROVE  QueueInv(l)'
  <1>0. QueueInv(l) /\ order[l] \in Seq(Thread)
    BY Zenon DEF MCSInv, TypeOK
  <1>1. Members(l)'
    BY <1>0 DEF QueueInv, Members, Queued
  <1>2. TailInv(l)'
    BY <1>0 DEF QueueInv, TailInv
  <1>3. Links(l)'
    BY SMTT(30), <1>0 DEF QueueInv, Links
  <1>4. HeadInv(l)'
    BY <1>0 DEF QueueInv, HeadInv
  <1> QED
    BY Zenon, <1>1, <1>2, <1>3, <1>4 DEF QueueInv

-----------------------------------------------------------------------------
(* Steps of a thread that is in no queue. *)
LEMMA IdleSteps ==
  ASSUME MCSInv, NEW t \in Thread,
         (\E l \in Lock : PrepareNode(t, l)) \/ DestroyLock(t)
  PROVE  MCSInv'
  <1>0. pc[t] = "idle" /\ ~ Queued(t)
    BY Zenon DEF PrepareNode, DestroyLock, Queued, Waiting, Holding
  <1>1. TypeOK'
    <2>1. CASE DestroyLock(t)
      BY Zenon, <2>1 DEF MCSInv, TypeOK, DestroyLock
    <2>2. ASSUME NEW l \in Lock, PrepareNode(t, l) PROVE TypeOK'
      BY Zenon, <2>2 DEF MCSInv, TypeOK, PrepareNode, Goto
    <2> QED
      BY Zenon, <2>1, <2>2
  <1>2. ThreadInv'
    BY Zenon DEF MCSInv, TypeOK, ThreadInv, PrepareNode, DestroyLock, Goto
  <1>3. ASSUME NEW l \in Lock PROVE QueueInv(l)'
    <2>1. order[l] \in Seq(Thread) /\ Members(l)
      BY Zenon DEF MCSInv, TypeOK, QueueInv
    <2>2. \A i \in 1..Len(order[l]) : order[l][i] \in Thread /\ order[l][i] # t
      BY <1>0, <2>1 DEF Members
    <2>3. order'[l] = order[l] /\ tail_'[l] = tail_[l]
      BY Zenon DEF PrepareNode, DestroyLock
    <2>4. \A i \in 1..Len(order[l]) :
            /\ pc'[order[l][i]] = pc[order[l][i]]
            /\ using'[order[l][i]] = using[order[l][i]]
            /\ next'[order[l][i]] = next[order[l][i]]
            /\ previous'[order[l][i]] = previous[order[l][i]]
            /\ locked'[order[l][i]] = locked[order[l][i]]
      BY Zenon, <2>2 DEF MCSInv, TypeOK, PrepareNode, DestroyLock, Goto
    <2>5. \A u \in Thread : (using'[u] = l /\ Queued(u)') => (using[u] = l /\ Queued(u))
      BY ZenonT(60), <1>0 DEF MCSInv, TypeOK, PrepareNode, DestroyLock, Goto, Queued, Waiting, Holding
    <2> QED
      BY Zenon, <2>3, <2>4, <2>5, Frame
  <1> QED
    BY Zenon, <1>1, <1>2, <1>3 DEF MCSInv

(* A step of a thread on one lock that writes its own variables, and next  *)
(* or locked of a thread on the same lock, keeps the other queues.         *)
LEMMA OtherQueues ==
  ASSUME MCSInv, NEW t \in Thread, NEW l \in Lock, using[t] # l,
         \A u \in Thread : (using'[u] = using[u]) \/ (u = t /\ ~ Queued(u)'),
         \A u \in Thread \ {t} : pc'[u] = pc[u] /\ previous'[u] = previous[u],
         \A u \in Thread : using[u] = l => (next'[u] = next[u] /\ locked'[u] = locked[u]),
         order'[l] = order[l],
         tail_'[l] = tail_[l]
  PROVE  QueueInv(l)'
  <1>1. order[l] \in Seq(Thread) /\ Members(l)
    BY Zenon DEF MCSInv, TypeOK, QueueInv
  <1>2. \A i \in 1..Len(order[l]) : /\ order[l][i] \in Thread \ {t}
                                    /\ using[order[l][i]] = l
    BY <1>1 DEF Members
  <1>3. \A i \in 1..Len(order[l]) :
          /\ pc'[order[l][i]] = pc[order[l][i]]
          /\ using'[order[l][i]] = using[order[l][i]]
          /\ next'[order[l][i]] = next[order[l][i]]
          /\ previous'[order[l][i]] = previous[order[l][i]]
          /\ locked'[order[l][i]] = locked[order[l][i]]
    BY Zenon, <1>2
  <1>4. \A u \in Thread : (using'[u] = l /\ Queued(u)') => (using[u] = l /\ Queued(u))
    BY Zenon DEF Queued
  <1> QED
    BY Zenon, <1>3, <1>4, Frame

-----------------------------------------------------------------------------
LEMMA MarkLockedInv ==
  ASSUME MCSInv, NEW t \in Thread, MarkLocked(t)
  PROVE  MCSInv'
  <1> DEFINE k == using[t]
  <1>0. k \in Lock /\ TypeOK /\ QueueInv(k) /\ order[k] \in Seq(Thread)
    BY Zenon, WaiterIsBehind DEF MCSInv, TypeOK, MarkLocked
  <1>1. TypeOK'
    BY Zenon, <1>0 DEF TypeOK, MarkLocked, Goto, Waiting
  <1>2. ThreadInv'
    BY Zenon, <1>0 DEF MCSInv, TypeOK, ThreadInv, MarkLocked, Goto
  <1>3. ASSUME NEW l \in Lock, l # k PROVE QueueInv(l)'
    BY Zenon, <1>0, <1>3, OtherQueues DEF TypeOK, MarkLocked, Goto
  <1>4. QueueInv(k)'
    <2>1. PICK p \in 2..Len(order[k]) : order[k][p] = t
      BY Zenon, WaiterIsBehind DEF MarkLocked
    <2>2. \A i \in 1..Len(order[k]) : order[k][i] \in Thread /\ (order[k][i] = t => i = p)
      BY <1>0, <2>1 DEF QueueInv, Members
    <2>3. Members(k)'
      BY <1>0 DEF QueueInv, Members, Queued, Waiting, TypeOK, MarkLocked, Goto
    <2>4. TailInv(k)'
      BY Zenon, <1>0 DEF QueueInv, TailInv, MarkLocked
    <2>5. Links(k)'
      BY <1>0, <2>1, <2>2 DEF QueueInv, Links, TypeOK, MarkLocked, Goto, Waiting
    <2>6. HeadInv(k)'
      BY <1>0, <2>1, <2>2 DEF QueueInv, HeadInv, TypeOK, MarkLocked, Goto
    <2> QED
      BY Zenon, <2>3, <2>4, <2>5, <2>6 DEF QueueInv
  <1> QED
    BY Zenon, <1>1, <1>2, <1>3, <1>4 DEF MCSInv, MarkLocked

LEMMA LinkNodeInv ==
  ASSUME MCSInv, NEW t \in Thread, LinkNode(t)
  PROVE  MCSInv'
  <1> DEFINE k == using[t]
  <1>0. k \in Lock /\ TypeOK /\ QueueInv(k) /\ order[k] \in Seq(Thread)
    BY Zenon, WaiterIsBehind DEF MCSInv, TypeOK, LinkNode
  <1>a. PICK p \in 2..Len(order[k]) : /\ order[k][p] = t
                                      /\ previous[t] = order[k][p - 1]
                                      /\ next[order[k][p - 1]] = NULL
    BY Zenon, WaiterIsBehind DEF LinkNode
  <1>b. previous[t] \in Thread /\ using[previous[t]] = k /\ Queued(previous[t])
    <2>1. p - 1 \in 1..Len(order[k]) /\ order[k][p - 1] \in Thread
      BY <1>0
    <2>2. Members(k)
      BY Zenon, <1>0 DEF QueueInv
    <2>3. using[order[k][p - 1]] = k /\ Queued(order[k][p - 1])
      BY Zenon, <2>1, <2>2 DEF Members
    <2> QED
      BY Zenon, <1>a, <2>1, <2>3
  <1>1. TypeOK'
    BY Zenon, <1>0 DEF TypeOK, LinkNode, Goto, Waiting
  <1>2. ThreadInv'
    BY Zenon, <1>0, <1>b DEF MCSInv, TypeOK, ThreadInv, LinkNode, Goto, Queued, Waiting, Holding
  <1>3. ASSUME NEW l \in Lock, l # k PROVE QueueInv(l)'
    BY Zenon, <1>0, <1>3, <1>b, OtherQueues DEF TypeOK, LinkNode, Goto
  <1>4. QueueInv(k)'
    <2>2. \A i \in 1..Len(order[k]) : /\ order[k][i] \in Thread
                                      /\ order[k][i] = t => i = p
                                      /\ order[k][i] = previous[t] => i = p - 1
      BY <1>0, <1>a DEF QueueInv, Members
    <2>3. Members(k)'
      BY <1>0 DEF QueueInv, Members, Queued, Waiting, TypeOK, LinkNode, Goto
    <2>4. TailInv(k)'
      BY <1>0, <1>a, <2>2 DEF QueueInv, TailInv, TypeOK, LinkNode
    <2>5. Links(k)'
      BY <1>0, <1>a, <2>2 DEF QueueInv, Links, TypeOK, LinkNode, Goto, Waiting
    <2>6. HeadInv(k)'
      <3>1. PICK h \in Thread : h = order[k][1] /\ h # t
        BY <1>0, <1>a, <2>2
      <3>2. UNCHANGED <<order, using, locked>> /\ pc'[h] = pc[h] /\ h = order'[k][1]
        BY Zenon, <3>1 DEF TypeOK, MCSInv, LinkNode, Goto
      <3>3. next'[h] = next[h] \/ next'[h] = t
        BY Zenon, <1>0, <3>1 DEF TypeOK, LinkNode
      <3>4. t # NULL /\ HeadInv(k)
        BY Zenon, <1>0, NullAssumption DEF QueueInv
      <3> QED
        BY Zenon, <3>1, <3>2, <3>3, <3>4 DEF HeadInv
    <2> QED
      BY Zenon, <2>3, <2>4, <2>5, <2>6 DEF QueueInv
  <1> QED
    BY Zenon, <1>1, <1>2, <1>3, <1>4 DEF MCSInv, LinkNode

(* The steps of a thread that is told, or that has the lock. *)
LEMMA FirstSteps ==
  ASSUME MCSInv, NEW t \in Thread,
         Spin(t) \/ Unlock(t) \/ CasFails(t) \/ AwaitNext(t)
  PROVE  MCSInv'
  <1> DEFINE k == using[t]
  <1>0. k \in Lock /\ TypeOK /\ QueueInv(k) /\ order[k] \in Seq(Thread)
    BY Zenon, Position DEF MCSInv, TypeOK, Spin, Unlock, CasFails, AwaitNext, Queued, Waiting,
                           Holding
  <1>a. Len(order[k]) > 0 /\ order[k][1] = t
    <2>1. CASE Spin(t)
      <3>1. PICK i \in 1..Len(order[k]) : order[k][i] = t
        BY Zenon, <2>1, Position DEF Spin, Queued, Waiting
      <3>2. ~ (i > 1)
        BY Zenon, <1>0, <2>1, <3>1 DEF Spin, QueueInv, Links
      <3> QED
        BY <1>0, <3>1, <3>2
    <2>2. CASE Unlock(t) \/ CasFails(t) \/ AwaitNext(t)
      BY Zenon, <2>2, HolderIsFirst DEF Unlock, CasFails, AwaitNext, Holding
    <2> QED
      BY Zenon, <2>1, <2>2
  <1>b. /\ pc[t] \in {"spin"} \cup Holding
        /\ UNCHANGED <<tail_, qnode_, next, locked, previous, using, order>>
    BY Zenon DEF Spin, Unlock, CasFails, AwaitNext, Holding
  <1>c. /\ pc' = [pc EXCEPT ![t] = pc'[t]]
        /\ pc'[t] \in Holding
        /\ pc'[t] = "release" => next[t] # NULL
        /\ pc'[t] = "await" => tail_[k] # t
    BY Zenon, <1>0 DEF TypeOK, Spin, Unlock, CasFails, AwaitNext, Goto, Holding
  <1>1. TypeOK'
    BY Zenon, <1>0, <1>b, <1>c DEF TypeOK
  <1>2. ThreadInv'
    BY Zenon, <1>0, <1>b, <1>c DEF MCSInv, TypeOK, ThreadInv, Holding
  <1>3. ASSUME NEW l \in Lock, l # k PROVE QueueInv(l)'
    BY Zenon, <1>0, <1>3, <1>b, <1>c, OtherQueues DEF TypeOK
  <1>4. QueueInv(k)'
    <2>2. \A i \in 1..Len(order[k]) : order[k][i] \in Thread /\ (order[k][i] = t => i = 1)
      BY <1>0, <1>a DEF QueueInv, Members
    <2>3. Members(k)'
      <3>1. \A u \in Thread : Queued(u)' <=> Queued(u)
        BY Zenon, <1>0, <1>b, <1>c DEF TypeOK, Queued, Waiting
      <3> QED
        BY ZenonT(60), <1>0, <1>b, <2>2, <3>1 DEF QueueInv, Members
    <2>4. TailInv(k)'
      BY Zenon, <1>0, <1>b DEF QueueInv, TailInv
    <2>5. Links(k)'
      <3>1. \A i \in 1..Len(order[k]) : i > 1 => pc'[order[k][i]] = pc[order[k][i]]
        BY <1>0, <1>a, <1>c, <2>2 DEF TypeOK
      <3> QED
        BY <1>0, <1>b, <3>1 DEF QueueInv, Links
    <2>6. HeadInv(k)'
      <3>1. pc'[order[k][1]] = pc'[t]
        BY Zenon, <1>a
      <3>2. pc'[t] = "await" => Len(order[k]) > 1
        BY <1>0, <1>a, <1>c DEF QueueInv, TailInv
      <3> QED
        BY Zenon, <1>a, <1>b, <1>c, <3>1, <3>2 DEF HeadInv
    <2> QED
      BY Zenon, <2>3, <2>4, <2>5, <2>6 DEF QueueInv
  <1> QED
    BY Zenon, <1>1, <1>2, <1>3, <1>4, <1>b DEF MCSInv

-----------------------------------------------------------------------------
(* The steps that change a queue. *)

LEMMA SwapTailInv ==
  ASSUME MCSInv, NEW t \in Thread, SwapTail(t)
  PROVE  MCSInv'
  <1>k. PICK k \in Lock : using[t] = k
    BY Zenon DEF MCSInv, ThreadInv, SwapTail
  <1>n. PICK n \in Nat : Len(order[k]) = n
    BY DEF MCSInv, TypeOK
  <1>0. using[t] = k /\ n = Len(order[k]) /\ TypeOK /\ QueueInv(k) /\ order[k] \in Seq(Thread)
    BY Zenon, <1>k, <1>n DEF MCSInv, TypeOK
  <1>a. pc[t] = "swap" /\ next[t] = NULL /\ ~ Queued(t)
    BY Zenon DEF MCSInv, ThreadInv, SwapTail, Queued, Waiting, Holding
  <1>b. /\ UNCHANGED <<qnode_, next, locked, using>>
        /\ order'[k] = Append(order[k], t)
        /\ tail_'[k] = t
        /\ previous' = [previous EXCEPT ![t] = tail_[k]]
        /\ pc' = [pc EXCEPT ![t] = IF tail_[k] = NULL THEN "critical" ELSE "mark"]
    BY Zenon, <1>0 DEF SwapTail, Goto, TypeOK
  <1>c. /\ Len(order'[k]) = n + 1
        /\ order'[k][n + 1] = t
        /\ \A i \in 1..n : order'[k][i] = order[k][i]
    BY <1>0, <1>b
  <1>d. \A i \in 1..n : order[k][i] \in Thread \ {t}
    BY <1>0, <1>a DEF QueueInv, Members
  <1>1. TypeOK'
    BY <1>0 DEF TypeOK, SwapTail, Goto, Waiting, Holding
  <1>2. ThreadInv'
    BY Zenon, <1>0, <1>a DEF MCSInv, TypeOK, ThreadInv, SwapTail, Goto
  <1>3. ASSUME NEW l \in Lock, l # k PROVE QueueInv(l)'
    BY Zenon, <1>0, <1>3, OtherQueues DEF TypeOK, SwapTail, Goto
  <1>4. QueueInv(k)'
    <2>1. \A i \in 1..n : /\ pc'[order[k][i]] = pc[order[k][i]]
                          /\ previous'[order[k][i]] = previous[order[k][i]]
      BY Zenon, <1>0, <1>b, <1>d DEF TypeOK
    <2>2. pc'[t] = (IF tail_[k] = NULL THEN "critical" ELSE "mark") /\ Queued(t)'
      BY Zenon, <1>0, <1>b DEF TypeOK, Queued, Waiting, Holding
    <2>3. Members(k)'
      <3>1. \A u \in Thread \ {t} : Queued(u)' <=> Queued(u)
        BY Zenon, <1>0, <1>b DEF TypeOK, Queued
      <3>2. ASSUME NEW i \in 1..Len(order'[k])
            PROVE  (using[order[k][i]] = k /\ Queued(order[k][i]))'
        <4>1. CASE i = n + 1
          BY Zenon, <1>0, <1>b, <1>c, <2>2, <4>1
        <4>2. CASE i \in 1..n
          BY <1>0, <1>b, <1>c, <2>1, <4>2 DEF QueueInv, Members, Queued
        <4> QED
          BY <1>0, <1>c, <4>1, <4>2
      <3>3. ASSUME NEW i \in 1..Len(order'[k]), NEW j \in 1..Len(order'[k]),
                   order'[k][i] = order'[k][j]
            PROVE  i = j
        <4>1. CASE i \in 1..n /\ j \in 1..n
          BY Zenon, <1>0, <1>c, <3>3, <4>1 DEF QueueInv, Members
        <4>2. \A m \in 1..n : order'[k][m] # t
          BY Zenon, <1>c, <1>d
        <4>3. CASE i = n + 1 /\ j \in 1..n
          BY Zenon, <1>c, <3>3, <4>2, <4>3
        <4>4. CASE j = n + 1 /\ i \in 1..n
          BY Zenon, <1>c, <3>3, <4>2, <4>4
        <4>5. (i \in 1..n \/ i = n + 1) /\ (j \in 1..n \/ j = n + 1)
          BY <1>c
        <4> QED
          BY Zenon, <4>1, <4>3, <4>4, <4>5
      <3>4. ASSUME NEW u \in Thread, using'[u] = k, Queued(u)'
            PROVE  \E i \in 1..Len(order'[k]) : order'[k][i] = u
        <4>1. CASE u = t
          BY <1>0, <1>c, <4>1
        <4>2. CASE u # t
          <5>1. PICK i \in 1..n : order[k][i] = u
            BY Zenon, <1>0, <1>b, <3>1, <3>4, <4>2 DEF QueueInv, Members
          <5> QED
            BY <1>0, <1>c, <5>1
        <4> QED
          BY Zenon, <4>1, <4>2
      <3> QED
        BY Zenon, <3>2, <3>3, <3>4 DEF Members
    <2>4. TailInv(k)'
      BY <1>0, <1>a, <1>b, <1>c DEF TailInv
    <2>5. Links(k)'
      <3>1. ASSUME NEW i \in 1..n, i > 1
            PROVE  /\ previous'[order'[k][i]] = order'[k][i - 1]
                   /\ pc'[order'[k][i]] \in Waiting
                   /\ (pc'[order'[k][i]] # "mark") => locked'[order'[k][i]]
                   /\ (pc'[order'[k][i]] = "spin") => (next'[order'[k][i - 1]] = order'[k][i])
                   /\ (pc'[order'[k][i]] # "spin") => (next'[order'[k][i - 1]] = NULL)
        <4>1. order'[k][i] = order[k][i] /\ order'[k][i - 1] = order[k][i - 1]
          BY <1>0, <1>c, <3>1
        <4> QED
          BY <1>0, <1>b, <2>1, <3>1, <4>1 DEF QueueInv, Links
      <3>2. n > 0 => /\ previous'[t] = order'[k][n]
                     /\ pc'[t] = "mark"
                     /\ next'[order'[k][n]] = NULL
        <4>1. n > 0 => tail_[k] = order[k][n] /\ next[order[k][n]] = NULL
          BY Zenon, <1>0 DEF QueueInv, TailInv
        <4>2. n > 0 => order[k][n] \in Thread /\ order'[k][n] = order[k][n]
          BY <1>0, <1>c, <1>d
        <4> QED
          BY Zenon, <1>0, <1>b, <2>2, <4>1, <4>2, NullAssumption DEF TypeOK
      <3>3. ASSUME NEW i \in 1..Len(order'[k]), i > 1
            PROVE  /\ previous'[order'[k][i]] = order'[k][i - 1]
                   /\ pc'[order'[k][i]] \in Waiting
                   /\ (pc'[order'[k][i]] # "mark") => locked'[order'[k][i]]
                   /\ (pc'[order'[k][i]] = "spin") => (next'[order'[k][i - 1]] = order'[k][i])
                   /\ (pc'[order'[k][i]] # "spin") => (next'[order'[k][i - 1]] = NULL)
        <4>1. CASE i \in 1..n
          BY Zenon, <3>1, <3>3, <4>1
        <4>2. CASE i = n + 1
          BY <1>0, <1>c, <3>2, <3>3, <4>2 DEF Waiting
        <4> QED
          BY <1>0, <1>c, <3>3, <4>1, <4>2
      <3> QED
        BY Zenon, <3>3 DEF Links
    <2>6. HeadInv(k)'
      <3>1. CASE n = 0
        BY <1>0, <1>b, <1>c, <2>2, <3>1 DEF QueueInv, TailInv, HeadInv, Holding
      <3>2. CASE n > 0
        BY <1>0, <1>b, <1>c, <2>1, <3>2 DEF QueueInv, HeadInv
      <3> QED
        BY <1>0, <3>1, <3>2
    <2> QED
      BY Zenon, <2>3, <2>4, <2>5, <2>6 DEF QueueInv
  <1> QED
    BY Zenon, <1>1, <1>2, <1>3, <1>4, <1>b DEF MCSInv

LEMMA CasSucceedsInv ==
  ASSUME MCSInv, NEW t \in Thread, CasSucceeds(t)
  PROVE  MCSInv'
  <1>k. PICK k \in Lock : using[t] = k
    BY Zenon DEF MCSInv, ThreadInv, CasSucceeds
  <1>0. using[t] = k /\ TypeOK /\ QueueInv(k) /\ order[k] \in Seq(Thread)
    BY Zenon, <1>k DEF MCSInv, TypeOK
  <1>a. Len(order[k]) > 0 /\ order[k][1] = t
    BY Zenon, <1>k, HolderIsFirst DEF CasSucceeds, Holding
  <1>b. Len(order[k]) = 1
    <2>1. order[k][Len(order[k])] = order[k][1]
      BY Zenon, <1>0, <1>a DEF CasSucceeds, QueueInv, TailInv
    <2>2. Len(order[k]) \in 1..Len(order[k]) /\ 1 \in 1..Len(order[k])
      BY <1>0, <1>a
    <2> QED
      BY Zenon, <1>0, <2>1, <2>2 DEF QueueInv, Members
  <1>c. order'[k] = <<>> /\ tail_'[k] = NULL /\ ~ Queued(t)'
    BY <1>0, <1>b DEF CasSucceeds, Leave, Goto, TypeOK, Queued, Waiting, Holding
  <1>1. TypeOK'
    <2>1. order' \in [Lock -> Seq(Thread)]
      <3>1. Tail(order[k]) \in Seq(Thread)
        BY <1>0, <1>a
      <3>2. order' = [order EXCEPT ![k] = Tail(order[k])] /\ order \in [Lock -> Seq(Thread)]
        BY Zenon, <1>0 DEF TypeOK, CasSucceeds, Leave
      <3> QED
        BY Zenon, <3>1, <3>2
    <2> QED
      BY Zenon, <1>0, <2>1 DEF TypeOK, CasSucceeds, Leave, Goto
  <1>2. ThreadInv'
    BY Zenon, <1>0 DEF MCSInv, TypeOK, ThreadInv, CasSucceeds, Leave, Goto
  <1>3. ASSUME NEW l \in Lock, l # k PROVE QueueInv(l)'
    BY Zenon, <1>0, <1>3, <1>c, OtherQueues DEF TypeOK, CasSucceeds, Leave, Goto
  <1>4. QueueInv(k)'
    <2>1. \A u \in Thread : using[u] = k /\ Queued(u) => u = t
      BY <1>0, <1>a, <1>b DEF QueueInv, Members
    <2>2. \A u \in Thread : u # t => (using'[u] = using[u] /\ pc'[u] = pc[u])
      BY Zenon, <1>0 DEF TypeOK, CasSucceeds, Leave, Goto
    <2>3. \A u \in Thread : ~ (using'[u] = k /\ Queued(u)')
      BY Zenon, <1>c, <2>1, <2>2 DEF Queued
    <2> QED
      BY <1>c, <2>3 DEF QueueInv, Members, TailInv, Links, HeadInv
  <1> QED
    BY Zenon, <1>1, <1>2, <1>3, <1>4 DEF MCSInv

LEMMA ReleaseInv ==
  ASSUME MCSInv, NEW t \in Thread, Release(t)
  PROVE  MCSInv'
  <1>k. PICK k \in Lock : using[t] = k
    BY Zenon DEF MCSInv, ThreadInv, Release
  <1>n. PICK n \in Nat : Len(order[k]) = n
    BY DEF MCSInv, TypeOK
  <1>0. using[t] = k /\ n = Len(order[k]) /\ TypeOK /\ QueueInv(k) /\ order[k] \in Seq(Thread)
    BY Zenon, <1>k, <1>n DEF MCSInv, TypeOK
  <1>a. n > 0 /\ order[k][1] = t /\ pc[t] = "release"
    BY Zenon, <1>k, <1>n, HolderIsFirst DEF Release, Holding
  <1>b. n > 1 /\ next[t] = order[k][2] /\ pc[order[k][2]] = "spin"
    <2>1. next[t] # NULL
      BY Zenon, <1>0, <1>a DEF QueueInv, HeadInv
    <2>2. n > 1
      BY <1>0, <1>a, <2>1 DEF QueueInv, TailInv
    <2>3. /\ (pc[order[k][2]] = "spin") => (next[order[k][2 - 1]] = order[k][2])
          /\ (pc[order[k][2]] # "spin") => (next[order[k][2 - 1]] = NULL)
      <3>1. 2 \in 1..Len(order[k]) /\ 2 > 1
        BY <1>0, <2>2
      <3> QED
        BY Zenon, <1>0, <3>1 DEF QueueInv, Links
    <2> QED
      BY <1>a, <2>1, <2>2, <2>3
  <1>c. \A i \in 1..n : order[k][i] \in Thread /\ using[order[k][i]] = k /\ (i > 1 => order[k][i] # t)
    BY <1>0, <1>a DEF QueueInv, Members
  <1>d. /\ order'[k] = Tail(order[k])
        /\ Len(order'[k]) = n - 1
        /\ \A i \in 1..(n - 1) : order'[k][i] = order[k][i + 1]
    BY <1>0, <1>a DEF Release, Leave, TypeOK
  <1>e. /\ UNCHANGED <<tail_, qnode_, next>>
        /\ locked' = [locked EXCEPT ![order[k][2]] = FALSE]
        /\ \A u \in Thread \ {t} : /\ using'[u] = using[u]
                                   /\ previous'[u] = previous[u]
                                   /\ pc'[u] = pc[u]
        /\ pc'[t] = "idle"
    BY Zenon, <1>0, <1>b DEF Release, Leave, Goto, TypeOK
  <1>f. ~ Queued(t)'
    BY Zenon, <1>e DEF Queued, Waiting, Holding
  <1>1. TypeOK'
    BY <1>0, <1>a, <1>b DEF TypeOK, Release, Leave, Goto
  <1>2. ThreadInv'
    BY Zenon, <1>0, <1>e DEF MCSInv, TypeOK, ThreadInv
  <1>3. ASSUME NEW l \in Lock, l # k PROVE QueueInv(l)'
    <2>1. order'[l] = order[l]
      BY Zenon, <1>0, <1>3 DEF TypeOK, Release, Leave
    <2>2. \A u \in Thread : using[u] = l => next'[u] = next[u] /\ locked'[u] = locked[u]
      <3>1. using[order[k][2]] # l
        BY <1>3, <1>b, <1>c
      <3>2. locked \in [Thread -> BOOLEAN]
        BY Zenon, <1>0 DEF TypeOK
      <3> QED
        BY Zenon, <1>e, <3>1, <3>2
    <2>3. \A u \in Thread : (using'[u] = using[u]) \/ (u = t /\ ~ Queued(u)')
      BY Zenon, <1>e, <1>f
    <2> QED
      BY Zenon, <1>0, <1>3, <1>e, <2>1, <2>2, <2>3, OtherQueues
  <1>4. QueueInv(k)'
    <2>1. ASSUME NEW i \in 1..(n - 1)
          PROVE  /\ order'[k][i] = order[k][i + 1]
                 /\ order[k][i + 1] \in Thread \ {t}
                 /\ using'[order[k][i + 1]] = k
                 /\ pc'[order[k][i + 1]] = pc[order[k][i + 1]]
                 /\ previous'[order[k][i + 1]] = previous[order[k][i + 1]]
      BY <1>0, <1>c, <1>d, <1>e
    <2>2. \A i \in 1..n : i > 2 => locked'[order[k][i]] = locked[order[k][i]]
      <3>1. \A i \in 1..n : i > 2 => order[k][i] # order[k][2]
        BY <1>0, <1>b DEF QueueInv, Members
      <3>2. locked \in [Thread -> BOOLEAN]
        BY Zenon, <1>0 DEF TypeOK
      <3> QED
        BY Zenon, <1>c, <1>e, <3>1, <3>2
    <2>3. Members(k)'
      <3>1. ASSUME NEW i \in 1..Len(order'[k])
            PROVE  (using[order[k][i]] = k /\ Queued(order[k][i]))'
        <4>1. i \in 1..(n - 1) /\ i + 1 \in 1..Len(order[k])
          BY <1>0, <1>d
        <4>2. Queued(order[k][i + 1])
          BY Zenon, <1>0, <4>1 DEF QueueInv, Members
        <4> QED
          BY Zenon, <2>1, <4>1, <4>2 DEF Queued
      <3>2. ASSUME NEW i \in 1..Len(order'[k]), NEW j \in 1..Len(order'[k]),
                   order'[k][i] = order'[k][j]
            PROVE  i = j
        <4>1. i + 1 \in 1..n /\ j + 1 \in 1..n /\ order[k][i + 1] = order[k][j + 1]
          BY <1>0, <1>d, <2>1, <3>2
        <4>2. i + 1 = j + 1
          BY Zenon, <1>0, <4>1 DEF QueueInv, Members
        <4> QED
          BY <1>d, <4>2
      <3>3. ASSUME NEW u \in Thread, using'[u] = k, Queued(u)'
            PROVE  \E i \in 1..Len(order'[k]) : order'[k][i] = u
        <4>1. u # t /\ using[u] = k /\ Queued(u)
          BY Zenon, <1>e, <1>f, <3>3 DEF Queued
        <4>2. PICK i \in 1..n : order[k][i] = u
          BY Zenon, <1>0, <4>1 DEF QueueInv, Members
        <4>3. i # 1 /\ i - 1 \in 1..(n - 1) /\ i - 1 + 1 = i
          BY <1>a, <4>1, <4>2
        <4>4. order'[k][i - 1] = order[k][i - 1 + 1]
          BY Zenon, <1>d, <4>3
        <4> QED
          BY Zenon, <1>d, <4>2, <4>3, <4>4
      <3> QED
        BY Zenon, <3>1, <3>2, <3>3 DEF Members
    <2>4. TailInv(k)'
      <3>1. order'[k][n - 1] = order[k][n]
        BY <1>b, <1>d
      <3> QED
        BY <1>0, <1>b, <1>d, <1>e, <3>1 DEF QueueInv, TailInv
    <2>5. Links(k)'
      <3>1. ASSUME NEW i \in 1..Len(order'[k]), i > 1
            PROVE  (/\ previous[order[k][i]] = order[k][i - 1]
                    /\ pc[order[k][i]] \in Waiting
                    /\ (pc[order[k][i]] # "mark") => locked[order[k][i]]
                    /\ (pc[order[k][i]] = "spin") => (next[order[k][i - 1]] = order[k][i])
                    /\ (pc[order[k][i]] # "spin") => (next[order[k][i - 1]] = NULL))'
        <4>1. i + 1 \in 1..n /\ i + 1 > 2 /\ i - 1 \in 1..(n - 1) /\ i \in 1..(n - 1)
          BY <1>d, <3>1
        <4>2. order'[k][i] = order[k][i + 1] /\ order'[k][i - 1] = order[k][i]
          BY <1>d, <4>1
        <4>3. /\ previous[order[k][i + 1]] = order[k][i]
              /\ pc[order[k][i + 1]] \in Waiting
              /\ (pc[order[k][i + 1]] # "mark") => locked[order[k][i + 1]]
              /\ (pc[order[k][i + 1]] = "spin") => (next[order[k][i]] = order[k][i + 1])
              /\ (pc[order[k][i + 1]] # "spin") => (next[order[k][i]] = NULL)
          <5>1. i + 1 \in 1..Len(order[k]) /\ i + 1 > 1 /\ (i + 1) - 1 = i
            BY <1>0, <4>1
          <5> QED
            BY <1>0, <5>1 DEF QueueInv, Links
        <4>4. /\ pc'[order[k][i + 1]] = pc[order[k][i + 1]]
              /\ previous'[order[k][i + 1]] = previous[order[k][i + 1]]
              /\ locked'[order[k][i + 1]] = locked[order[k][i + 1]]
          BY Zenon, <2>1, <2>2, <4>1
        <4> QED
          BY Zenon, <1>e, <4>2, <4>3, <4>4
      <3> QED
        BY Zenon, <3>1 DEF Links
    <2>6. HeadInv(k)'
      <3>1. order'[k][1] = order[k][2] /\ pc'[order[k][2]] = "spin"
        BY <1>b, <1>c, <1>d, <1>e
      <3>2. locked'[order[k][2]] = FALSE
        BY <1>0, <1>b, <1>c, <1>e DEF TypeOK
      <3> QED
        BY Zenon, <3>1, <3>2 DEF HeadInv
    <2> QED
      BY Zenon, <2>3, <2>4, <2>5, <2>6 DEF QueueInv
  <1> QED
    BY Zenon, <1>1, <1>2, <1>3, <1>4 DEF MCSInv

-----------------------------------------------------------------------------
LEMMA NextInv == MCSInv /\ [Next]_vars => MCSInv'
  <1> SUFFICES ASSUME MCSInv, [Next]_vars PROVE MCSInv'
    OBVIOUS
  <1>1. CASE UNCHANGED vars
    BY <1>1 DEF vars, MCSInv, TypeOK, ThreadInv, QueueInv, Members, TailInv, Links, HeadInv,
                Queued
  <1>2. ASSUME NEW t \in Thread,
               (\E l \in Lock : PrepareNode(t, l)) \/ Step(t) \/ DestroyLock(t)
        PROVE  MCSInv'
    BY Zenon, <1>2, IdleSteps, SwapTailInv, MarkLockedInv, LinkNodeInv, FirstSteps, CasSucceedsInv,
       ReleaseInv DEF Step
  <1> QED
    BY Zenon, <1>1, <1>2 DEF Next

(* The list of nodes is as MCSInv says, in every reachable state. *)
THEOREM MCSTheorem == Spec => []MCSInv
  BY InitInv, NextInv, PTL DEF Spec

LEMMA InvImpliesFCFS == MCSInv => FirstComeFirstServed
  <1> SUFFICES ASSUME MCSInv, NEW t \in Thread
      PROVE  /\ \A l \in Lock : Holds(t, l) => (order[l] # <<>> /\ Head(order[l]) = t)
             /\ (pc[t] = "link") => /\ previous[t] \in qnode_
                                    /\ using[previous[t]] = using[t]
                                    /\ next[previous[t]] = NULL
             /\ (pc[t] = "release") => /\ next[t] \in qnode_
                                       /\ using[next[t]] = using[t]
                                       /\ previous[next[t]] = t
                                       /\ pc[next[t]] = "spin"
    BY Zenon DEF FirstComeFirstServed
  <1>1. ASSUME NEW l \in Lock, Holds(t, l)
        PROVE  order[l] # <<>> /\ Head(order[l]) = t
    <2>1. order[l] \in Seq(Thread) /\ Len(order[l]) > 0 /\ order[l][1] = t
      BY Zenon, <1>1, HolderIsFirst DEF Holds, Holding, MCSInv, TypeOK
    <2> QED
      BY <2>1
  <1>2. ASSUME pc[t] = "link"
        PROVE  previous[t] \in qnode_ /\ using[previous[t]] = using[t] /\ next[previous[t]] = NULL
    <2>1. PICK k \in Lock : using[t] = k
      BY Zenon, <1>2, WaiterIsBehind
    <2>2. PICK i \in 2..Len(order[k]) :
            previous[t] = order[k][i - 1] /\ next[order[k][i - 1]] = NULL
      BY Zenon, <1>2, <2>1, WaiterIsBehind
    <2>3. order[k] \in Seq(Thread) /\ Members(k) /\ i - 1 \in 1..Len(order[k])
      BY <2>1, <2>2 DEF MCSInv, TypeOK, QueueInv
    <2>4. previous[t] \in Thread /\ using[previous[t]] = k /\ Queued(previous[t])
      BY <2>2, <2>3 DEF Members
    <2> QED
      BY Zenon, <2>1, <2>2, <2>4 DEF MCSInv, ThreadInv, Queued, Waiting, Holding
  <1>3. ASSUME pc[t] = "release"
        PROVE  /\ next[t] \in qnode_
               /\ using[next[t]] = using[t]
               /\ previous[next[t]] = t
               /\ pc[next[t]] = "spin"
    <2>1. PICK k \in Lock : using[t] = k /\ Len(order[k]) > 0 /\ order[k][1] = t
      BY Zenon, <1>3, HolderIsFirst DEF Holding
    <2>2. order[k] \in Seq(Thread) /\ QueueInv(k) /\ next[t] # NULL
      BY Zenon, <1>3, <2>1 DEF MCSInv, TypeOK, QueueInv, HeadInv
    <2>3. Len(order[k]) > 1
      BY <2>1, <2>2 DEF QueueInv, TailInv
    <2>4. /\ previous[order[k][2]] = order[k][2 - 1]
          /\ (pc[order[k][2]] = "spin") => (next[order[k][2 - 1]] = order[k][2])
          /\ (pc[order[k][2]] # "spin") => (next[order[k][2 - 1]] = NULL)
      BY <2>2, <2>3 DEF QueueInv, Links
    <2>5. order[k][2] \in Thread /\ using[order[k][2]] = k
      BY <2>2, <2>3 DEF QueueInv, Members
    <2> QED
      BY <2>1, <2>2, <2>4, <2>5 DEF MCSInv, ThreadInv
  <1> QED
    BY Zenon, <1>1, <1>2, <1>3

(* lock() is given in the order of the swaps of tail_, and no pointer that *)
(* lock() or unlock() follows is to a node that left the queue, for any    *)
(* number of threads and of instances.                                     *)
THEOREM FCFSTheorem == Spec => []FirstComeFirstServed
  BY MCSTheorem, InvImpliesFCFS, PTL

-----------------------------------------------------------------------------
(* The refinement: what a step does to the holders. *)

LEMMA OneHolder ==
  ASSUME MCSInv, NEW l \in Lock, NEW t \in Thread, NEW u \in Thread, Holds(t, l), Holds(u, l)
  PROVE  t = u
  BY Zenon, HolderIsFirst DEF Holds, Holding

LEMMA HolderIs ==
  ASSUME MCSInv, NEW l \in Lock
  PROVE  /\ \A t \in Thread : Holds(t, l) => HolderOf(l) = t
         /\ (\A t \in Thread : ~ Holds(t, l)) => HolderOf(l) = NULL
  BY Zenon, OneHolder DEF HolderOf

LEMMA SameHolder ==
  ASSUME MCSInv, NEW l \in Lock, \A u \in Thread : Holds(u, l)' <=> Holds(u, l)
  PROVE  HolderOf(l)' = HolderOf(l)
  <1>1. ASSUME NEW t \in Thread, Holds(t, l) PROVE HolderOf(l)' = t /\ HolderOf(l) = t
    <2>1. \A u \in Thread : Holds(u, l)' => u = t
      BY Zenon, <1>1, OneHolder
    <2> QED
      BY Zenon, <1>1, <2>1, HolderIs DEF HolderOf
  <1>2. CASE \A t \in Thread : ~ Holds(t, l)
    BY Zenon, <1>2, HolderIs DEF HolderOf
  <1> QED
    BY Zenon, <1>1, <1>2

LEMMA AcquireStep ==
  ASSUME MCSInv, NEW t \in Thread, NEW k \in Lock,
         \A u \in Thread : ~ Holds(u, k),
         \A u \in Thread : Holds(u, k)' <=> (u = t),
         \A l \in Lock \ {k} : \A u \in Thread : Holds(u, l)' <=> Holds(u, l)
  PROVE  Locks!Next
  <1>1. HolderOf(k) = NULL /\ HolderOf(k)' = t
    BY Zenon, HolderIs DEF HolderOf
  <1>2. \A l \in Lock \ {k} : HolderOf(l)' = HolderOf(l)
    BY Zenon, SameHolder
  <1> QED
    BY Zenon, <1>1, <1>2 DEF Locks!Next, Locks!Acquire

LEMMA ReleaseStep ==
  ASSUME MCSInv, NEW t \in Thread, NEW k \in Lock,
         Holds(t, k),
         \A u \in Thread : ~ Holds(u, k)',
         \A l \in Lock \ {k} : \A u \in Thread : Holds(u, l)' <=> Holds(u, l)
  PROVE  Locks!Next
  <1>1. HolderOf(k) = t /\ HolderOf(k)' = NULL
    BY Zenon, HolderIs DEF HolderOf
  <1>2. \A l \in Lock \ {k} : HolderOf(l)' = HolderOf(l)
    BY Zenon, SameHolder
  <1> QED
    BY Zenon, <1>1, <1>2 DEF Locks!Next, Locks!Release

LEMMA NoStep ==
  ASSUME MCSInv, \A l \in Lock : \A u \in Thread : Holds(u, l)' <=> Holds(u, l)
  PROVE  UNCHANGED [l \in Lock |-> HolderOf(l)]
  BY Zenon, SameHolder

LEMMA NextRefines == MCSInv /\ [Next]_vars => [Locks!Next]_([l \in Lock |-> HolderOf(l)])
  <1> SUFFICES ASSUME MCSInv, [Next]_vars
               PROVE  Locks!Next \/ UNCHANGED [l \in Lock |-> HolderOf(l)]
    OBVIOUS
  <1> USE DEF MCSInv, TypeOK
  <1>1. CASE UNCHANGED vars
    BY Zenon, <1>1, NoStep DEF vars, Holds
  <1>2. ASSUME NEW t \in Thread, (\E l \in Lock : PrepareNode(t, l)) \/ DestroyLock(t)
        PROVE  UNCHANGED [l \in Lock |-> HolderOf(l)]
    <2>1. \A l \in Lock : \A u \in Thread : Holds(u, l)' <=> Holds(u, l)
      BY Zenon, <1>2 DEF PrepareNode, DestroyLock, Goto, Holds
    <2> QED
      BY Zenon, <2>1, NoStep
  <1>3. ASSUME NEW t \in Thread,
               MarkLocked(t) \/ LinkNode(t) \/ Unlock(t) \/ CasFails(t) \/ AwaitNext(t)
        PROVE  UNCHANGED [l \in Lock |-> HolderOf(l)]
    <2>1. \A l \in Lock : \A u \in Thread : Holds(u, l)' <=> Holds(u, l)
      BY ZenonT(60), <1>3 DEF MarkLocked, LinkNode, Unlock, CasFails, AwaitNext, Goto, Holds
    <2> QED
      BY Zenon, <2>1, NoStep
  <1>4. ASSUME NEW t \in Thread, SwapTail(t)
        PROVE  Locks!Next \/ UNCHANGED [l \in Lock |-> HolderOf(l)]
    <2>1. PICK k \in Lock : using[t] = k
      BY Zenon, <1>4 DEF ThreadInv, SwapTail
    <2>2. CASE tail_[k] = NULL
      <3>1. Len(order[k]) = 0
        <4>1. order[k] \in Seq(Thread) /\ TailInv(k)
          BY Zenon DEF QueueInv
        <4> QED
          BY <2>2, <4>1, NullAssumption DEF TailInv
      <3>2. \A u \in Thread : ~ Holds(u, k)
        BY <3>1, HolderIsFirst DEF Holds, Holding
      <3>3. \A u \in Thread : Holds(u, k)' <=> (u = t)
        BY Zenon, <1>4, <2>1, <2>2, <3>2 DEF SwapTail, Goto, Holds
      <3>4. \A l \in Lock \ {k} : \A u \in Thread : Holds(u, l)' <=> Holds(u, l)
        BY Zenon, <1>4, <2>1 DEF SwapTail, Goto, Holds
      <3> QED
        BY Zenon, <3>2, <3>3, <3>4, AcquireStep
    <2>3. CASE tail_[k] # NULL
      <3>1. \A l \in Lock : \A u \in Thread : Holds(u, l)' <=> Holds(u, l)
        BY Zenon, <1>4, <2>1, <2>3 DEF SwapTail, Goto, Holds
      <3> QED
        BY Zenon, <3>1, NoStep
    <2> QED
      BY Zenon, <2>2, <2>3
  <1>5. ASSUME NEW t \in Thread, Spin(t) PROVE Locks!Next
    <2>1. PICK k \in Lock : using[t] = k
      BY Zenon, <1>5 DEF ThreadInv, Spin
    <2>2. order[k] \in Seq(Thread) /\ Len(order[k]) > 0 /\ order[k][1] = t
      <3>1. PICK i \in 1..Len(order[k]) : order[k][i] = t
        BY Zenon, <1>5, <2>1, Position DEF Spin, Queued, Waiting
      <3>2. ~ (i > 1)
        BY Zenon, <1>5, <3>1 DEF Spin, QueueInv, Links
      <3> QED
        BY <3>1, <3>2
    <2>3. \A u \in Thread : ~ Holds(u, k)
      BY Zenon, <1>5, <2>2, HolderIsFirst DEF Holds, Holding, Spin
    <2>4. \A u \in Thread : Holds(u, k)' <=> (u = t)
      BY Zenon, <1>5, <2>1, <2>3 DEF Spin, Goto, Holds
    <2>5. \A l \in Lock \ {k} : \A u \in Thread : Holds(u, l)' <=> Holds(u, l)
      BY Zenon, <1>5, <2>1 DEF Spin, Goto, Holds
    <2> QED
      BY Zenon, <2>3, <2>4, <2>5, AcquireStep
  <1>6. ASSUME NEW t \in Thread, CasSucceeds(t) \/ Release(t) PROVE Locks!Next
    <2>1. PICK k \in Lock : using[t] = k
      BY Zenon, <1>6 DEF ThreadInv, CasSucceeds, Release
    <2>2. Holds(t, k) /\ pc'[t] = "idle"
      BY Zenon, <1>6, <2>1 DEF CasSucceeds, Release, Goto, Holds
    <2>3. \A u \in Thread \ {t} : pc'[u] = pc[u] /\ using'[u] = using[u]
      BY Zenon, <1>6 DEF CasSucceeds, Release, Leave, Goto
    <2>4. \A u \in Thread : ~ Holds(u, k)'
      <3>1. \A u \in Thread : Holds(u, k) => u = t
        BY Zenon, <2>2, OneHolder
      <3> QED
        BY Zenon, <2>2, <2>3, <3>1 DEF Holds
    <2>5. \A l \in Lock \ {k} : \A u \in Thread : Holds(u, l)' <=> Holds(u, l)
      BY Zenon, <2>1, <2>2, <2>3 DEF Holds
    <2> QED
      BY Zenon, <2>2, <2>4, <2>5, ReleaseStep
  <1> QED
    BY Zenon, <1>1, <1>2, <1>3, <1>4, <1>5, <1>6 DEF Next, Step

LEMMA InitRefines == Init => Locks!Init
  BY Zenon DEF Init, Locks!Init, HolderOf, Holds

(* Any number of SpinlockMCS instances, used by any number of threads,     *)
(* implement abstract locks: one holder each, from the end of lock() to    *)
(* the step of unlock() that hands the lock on.                            *)
THEOREM RefinementTheorem == Spec => ImplementsLock
  BY MCSTheorem, InitRefines, NextRefines, PTL DEF Spec, ImplementsLock, Locks!Spec

-----------------------------------------------------------------------------
(* The flags *)

(* A flag is set while a thread holds it, and one thread does. *)
FlagInv ==
    /\ locked_ \in [Flag -> BOOLEAN]
    /\ on \in [Thread -> Flag \cup {NULL}]
    /\ at \in [Thread -> {"idle", "test", "spin", "sleep", "critical"}]
    /\ \A t \in Thread : (at[t] # "idle") => (on[t] \in Flag)
    /\ \A t \in Thread : (at[t] = "critical") => (locked_[on[t]] = TRUE)
    /\ \A l \in Flag : (locked_[l] = TRUE) => (\E t \in Thread : S!Holds(t, l))
    /\ \A t, u \in Thread :
         (at[t] = "critical" /\ at[u] = "critical" /\ on[t] = on[u]) => (t = u)

FlagNext == \E t \in Thread : S!Step(t) \/ \E l \in Flag : S!Load(t, l)

LEMMA FlagInit == S!Init => FlagInv
  BY Zenon DEF S!Init, FlagInv

(* A step that leaves the flags and their holders alone. *)
LEMMA FlagWaits ==
  ASSUME FlagInv, NEW t \in Thread,
         (\E l \in Flag : S!Load(t, l)) \/ S!Spin(t)
           \/ (S!TestAndSet(t) /\ locked_[on[t]] = TRUE)
  PROVE  /\ FlagInv'
         /\ \A l \in Flag : \A u \in Thread : S!Holds(u, l)' <=> S!Holds(u, l)
  <1>1. locked_' = locked_
    <2>1. CASE (\E l \in Flag : S!Load(t, l)) \/ S!Spin(t)
      BY Zenon, <2>1 DEF S!Load, S!Spin
    <2>2. CASE S!TestAndSet(t) /\ locked_[on[t]] = TRUE
      <3>1. locked_ \in [Flag -> BOOLEAN] /\ on[t] \in Flag
        BY Zenon, <2>2 DEF FlagInv, S!TestAndSet
      <3>2. locked_' = [locked_ EXCEPT ![on[t]] = TRUE]
        BY Zenon, <2>2 DEF S!TestAndSet
      <3> QED
        BY Zenon, <2>2, <3>1, <3>2
    <2> QED
      BY Zenon, <2>1, <2>2
  <1>2. /\ at' = [at EXCEPT ![t] = at'[t]]
        /\ at[t] # "critical"
        /\ at'[t] \in {"test", "spin", "sleep"}
    BY Zenon DEF FlagInv, S!Load, S!Spin, S!TestAndSet, S!Goto
  <1>3. on' \in [Thread -> Flag \cup {NULL}] /\ on'[t] \in Flag
    BY DEF FlagInv, S!Load, S!Spin, S!TestAndSet
  <1>4. \A u \in Thread \ {t} : on'[u] = on[u] /\ at'[u] = at[u]
    BY Zenon DEF FlagInv, S!Load, S!Spin, S!TestAndSet, S!Goto
  <1>5. \A l \in Flag : \A u \in Thread : S!Holds(u, l)' <=> S!Holds(u, l)
    BY Zenon, <1>2, <1>4 DEF S!Holds
  <1>6. /\ \A u \in Thread : (at'[u] # "idle") => (on'[u] \in Flag)
        /\ \A u \in Thread : (at'[u] = "critical") => (locked_'[on'[u]] = TRUE)
        /\ \A v, u \in Thread :
             (at'[v] = "critical" /\ at'[u] = "critical" /\ on'[v] = on'[u]) => (v = u)
    BY <1>1, <1>2, <1>3, <1>4 DEF FlagInv
  <1>7. \A l \in Flag : (locked_'[l] = TRUE) => (\E u \in Thread : S!Holds(u, l)')
    BY Zenon, <1>1, <1>5 DEF FlagInv
  <1>8. at' \in [Thread -> {"idle", "test", "spin", "sleep", "critical"}]
    BY Zenon, <1>2 DEF FlagInv
  <1>9. locked_' \in [Flag -> BOOLEAN]
    BY Zenon, <1>1 DEF FlagInv
  <1> QED
    BY Zenon, <1>3, <1>5, <1>6, <1>7, <1>8, <1>9 DEF FlagInv

(* A test-and-set that finds the flag clear takes a lock that none holds. *)
LEMMA FlagTaken ==
  ASSUME FlagInv, NEW t \in Thread,
         S!Sleep(t) \/ (S!TestAndSet(t) /\ locked_[on[t]] # TRUE)
  PROVE  /\ FlagInv'
         /\ on[t] \in Flag
         /\ \A u \in Thread : ~ S!Holds(u, on[t])
         /\ at' = [at EXCEPT ![t] = "critical"]
         /\ on' = on
  <1>1. PICK k \in Flag : on[t] = k
    BY Zenon DEF FlagInv, S!Sleep, S!TestAndSet
  <1>2. /\ at' = [at EXCEPT ![t] = "critical"]
        /\ on' = on
        /\ locked_' = [locked_ EXCEPT ![k] = TRUE]
        /\ locked_[k] # TRUE
        /\ at[t] # "critical"
    BY Zenon, <1>1 DEF FlagInv, S!Sleep, S!TestAndSet, S!Goto
  <1>3. \A u \in Thread : at[u] = "critical" => on[u] # k
    BY Zenon, <1>2 DEF FlagInv
  <1>4. \A u \in Thread : at'[u] = IF u = t THEN "critical" ELSE at[u]
    BY Zenon, <1>2 DEF FlagInv
  <1>5. \A l \in Flag : locked_'[l] = IF l = k THEN TRUE ELSE locked_[l]
    BY Zenon, <1>2 DEF FlagInv
  <1>6. /\ locked_' \in [Flag -> BOOLEAN]
        /\ on' \in [Thread -> Flag \cup {NULL}]
        /\ at' \in [Thread -> {"idle", "test", "spin", "sleep", "critical"}]
    BY Zenon, <1>2 DEF FlagInv
  <1>7. /\ \A u \in Thread : (at'[u] # "idle") => (on'[u] \in Flag)
        /\ \A u \in Thread : (at'[u] = "critical") => (locked_'[on'[u]] = TRUE)
        /\ \A v, u \in Thread :
             (at'[v] = "critical" /\ at'[u] = "critical" /\ on'[v] = on'[u]) => (v = u)
    BY <1>1, <1>2, <1>3, <1>4, <1>5 DEF FlagInv
  <1>8. \A l \in Flag : (locked_'[l] = TRUE) => (\E u \in Thread : S!Holds(u, l)')
    <2>1. S!Holds(t, k)'
      BY Zenon, <1>1, <1>2, <1>4 DEF S!Holds
    <2>2. \A l \in Flag : \A u \in Thread : S!Holds(u, l) => S!Holds(u, l)'
      <3>1. \A u \in Thread : at[u] = "critical" => at'[u] = "critical"
        BY Zenon, <1>4
      <3> QED
        BY Zenon, <1>2, <3>1 DEF S!Holds
    <2>3. ASSUME NEW l \in Flag, locked_'[l] = TRUE, l # k
          PROVE  \E u \in Thread : S!Holds(u, l)'
      <3>1. locked_[l] = TRUE
        BY Zenon, <1>5, <2>3
      <3>2. \E u \in Thread : S!Holds(u, l)
        BY Zenon, <3>1 DEF FlagInv
      <3> QED
        BY Zenon, <2>2, <3>2
    <2> QED
      BY Zenon, <2>1, <2>3
  <1> QED
    BY Zenon, <1>1, <1>2, <1>3, <1>6, <1>7, <1>8 DEF FlagInv, S!Holds

LEMMA FlagReleased ==
  ASSUME FlagInv, NEW t \in Thread, S!Unlock(t)
  PROVE  /\ FlagInv'
         /\ on[t] \in Flag
         /\ at[t] = "critical"
         /\ at'[t] = "idle"
         /\ \A u \in Thread \ {t} : at'[u] = at[u] /\ on'[u] = on[u]
  <1>1. PICK k \in Flag : on[t] = k
    BY Zenon DEF FlagInv, S!Unlock
  <1>2. /\ at' = [at EXCEPT ![t] = "idle"]
        /\ on' = [on EXCEPT ![t] = NULL]
        /\ locked_' = [locked_ EXCEPT ![k] = FALSE]
        /\ at[t] = "critical"
    BY Zenon, <1>1 DEF S!Unlock, S!Goto
  <1>3. \A u \in Thread \ {t} : at'[u] = at[u] /\ on'[u] = on[u]
    BY Zenon, <1>2 DEF FlagInv
  <1>4. at'[t] = "idle" /\ \A u \in Thread \ {t} : at[u] = "critical" => on[u] # k
    BY Zenon, <1>1, <1>2 DEF FlagInv
  <1>5. \A l \in Flag : locked_'[l] = IF l = k THEN FALSE ELSE locked_[l]
    BY Zenon, <1>2 DEF FlagInv
  <1>6. /\ locked_' \in [Flag -> BOOLEAN]
        /\ on' \in [Thread -> Flag \cup {NULL}]
        /\ at' \in [Thread -> {"idle", "test", "spin", "sleep", "critical"}]
    BY Zenon, <1>2 DEF FlagInv
  <1>7. /\ \A u \in Thread : (at'[u] # "idle") => (on'[u] \in Flag)
        /\ \A u \in Thread : (at'[u] = "critical") => (locked_'[on'[u]] = TRUE)
        /\ \A v, u \in Thread :
             (at'[v] = "critical" /\ at'[u] = "critical" /\ on'[v] = on'[u]) => (v = u)
    <2>1. \A u \in Thread : (at'[u] # "idle") => /\ u # t
                                                 /\ at'[u] = at[u]
                                                 /\ on'[u] = on[u]
                                                 /\ on[u] \in Flag
      BY Zenon, <1>3, <1>4 DEF FlagInv
    <2>2. \A u \in Thread : (at'[u] = "critical") => locked_'[on[u]] = locked_[on[u]]
      <3>1. \A l \in Flag : (l # k) => locked_'[l] = locked_[l]
        BY Zenon, <1>5
      <3>2. \A u \in Thread : (at'[u] = "critical") => (on[u] \in Flag /\ on[u] # k)
        <4>1. "critical" # "idle"
          OBVIOUS
        <4> QED
          BY Zenon, <1>4, <2>1, <4>1
      <3> QED
        BY Zenon, <3>1, <3>2
    <2> QED
      BY <2>1, <2>2 DEF FlagInv
  <1>8. ASSUME NEW l \in Flag, locked_'[l] = TRUE PROVE \E u \in Thread : S!Holds(u, l)'
    <2>1. l # k /\ locked_[l] = TRUE
      BY Zenon, <1>5, <1>8
    <2>2. PICK u \in Thread : S!Holds(u, l)
      BY Zenon, <2>1 DEF FlagInv
    <2>3. u # t
      BY Zenon, <1>1, <2>1, <2>2 DEF S!Holds
    <2> QED
      BY Zenon, <1>3, <2>2, <2>3 DEF S!Holds
  <1> QED
    BY Zenon, <1>1, <1>2, <1>3, <1>4, <1>6, <1>7, <1>8 DEF FlagInv

-----------------------------------------------------------------------------
LEMMA FlagHolderIs ==
  ASSUME FlagInv, NEW l \in Flag
  PROVE  /\ \A t \in Thread : S!Holds(t, l) => S!HolderOf(l) = t
         /\ (\A t \in Thread : ~ S!Holds(t, l)) => S!HolderOf(l) = NULL
  <1>1. \A t, u \in Thread : (S!Holds(t, l) /\ S!Holds(u, l)) => t = u
    BY Zenon DEF FlagInv, S!Holds
  <1> QED
    BY Zenon, <1>1 DEF S!HolderOf

LEMMA SameFlagHolder ==
  ASSUME FlagInv, NEW l \in Flag, \A u \in Thread : S!Holds(u, l)' <=> S!Holds(u, l)
  PROVE  S!HolderOf(l)' = S!HolderOf(l)
  <1>1. ASSUME NEW t \in Thread, S!Holds(t, l) PROVE S!HolderOf(l)' = t /\ S!HolderOf(l) = t
    <2>1. \A u \in Thread : S!Holds(u, l)' => u = t
      BY Zenon, <1>1 DEF FlagInv, S!Holds
    <2> QED
      BY Zenon, <1>1, <2>1, FlagHolderIs DEF S!HolderOf
  <1>2. CASE \A t \in Thread : ~ S!Holds(t, l)
    BY Zenon, <1>2, FlagHolderIs DEF S!HolderOf
  <1> QED
    BY Zenon, <1>1, <1>2

LEMMA FlagStep ==
  FlagInv /\ [FlagNext]_flags
    => FlagInv' /\ [S!Locks!Next]_([l \in Flag |-> S!HolderOf(l)])
  <1> SUFFICES ASSUME FlagInv, [FlagNext]_flags
               PROVE  /\ FlagInv'
                      /\ S!Locks!Next \/ UNCHANGED [l \in Flag |-> S!HolderOf(l)]
    OBVIOUS
  <1>1. CASE UNCHANGED flags
    BY <1>1 DEF flags, FlagInv, S!Holds, S!HolderOf
  <1>2. ASSUME NEW t \in Thread,
               (\E l \in Flag : S!Load(t, l)) \/ S!Spin(t)
                 \/ (S!TestAndSet(t) /\ locked_[on[t]] = TRUE)
        PROVE  FlagInv' /\ UNCHANGED [l \in Flag |-> S!HolderOf(l)]
    <2>1. /\ FlagInv'
          /\ \A l \in Flag : \A u \in Thread : S!Holds(u, l)' <=> S!Holds(u, l)
      BY Zenon, <1>2, FlagWaits
    <2> QED
      BY Zenon, <2>1, SameFlagHolder
  <1>3. ASSUME NEW t \in Thread,
               S!Sleep(t) \/ (S!TestAndSet(t) /\ locked_[on[t]] # TRUE)
        PROVE  FlagInv' /\ S!Locks!Next
    <2>1. PICK k \in Flag : on[t] = k
      BY Zenon, <1>3, FlagTaken
    <2>2. /\ FlagInv'
          /\ \A u \in Thread : ~ S!Holds(u, k)
          /\ at' = [at EXCEPT ![t] = "critical"]
          /\ on' = on
      BY Zenon, <1>3, <2>1, FlagTaken
    <2>3. \A u \in Thread : S!Holds(u, k)' <=> (u = t)
      BY <2>1, <2>2 DEF FlagInv, S!Holds
    <2>4. \A l \in Flag \ {k} : \A u \in Thread : S!Holds(u, l)' <=> S!Holds(u, l)
      BY Zenon, <2>1, <2>2 DEF FlagInv, S!Holds
    <2>5. S!HolderOf(k) = NULL /\ S!HolderOf(k)' = t
      BY Zenon, <2>2, <2>3, FlagHolderIs DEF S!HolderOf
    <2>6. \A l \in Flag \ {k} : S!HolderOf(l)' = S!HolderOf(l)
      BY Zenon, <2>4, SameFlagHolder
    <2> QED
      BY Zenon, <2>2, <2>5, <2>6 DEF S!Locks!Next, S!Locks!Acquire
  <1>4. ASSUME NEW t \in Thread, S!Unlock(t) PROVE FlagInv' /\ S!Locks!Next
    <2>1. PICK k \in Flag : on[t] = k
      BY Zenon, <1>4, FlagReleased
    <2>2. /\ FlagInv'
          /\ at[t] = "critical"
          /\ at'[t] = "idle"
          /\ \A u \in Thread \ {t} : at'[u] = at[u] /\ on'[u] = on[u]
      BY Zenon, <1>4, FlagReleased
    <2>3. S!Holds(t, k) /\ \A u \in Thread : S!Holds(u, k) => u = t
      BY Zenon, <2>1, <2>2 DEF FlagInv, S!Holds
    <2>4. \A u \in Thread : ~ S!Holds(u, k)'
      BY Zenon, <2>2, <2>3 DEF S!Holds
    <2>5. \A l \in Flag \ {k} : \A u \in Thread : S!Holds(u, l)' <=> S!Holds(u, l)
      BY Zenon, <2>1, <2>2 DEF S!Holds
    <2>6. S!HolderOf(k) = t /\ S!HolderOf(k)' = NULL
      BY Zenon, <2>3, <2>4, FlagHolderIs DEF S!HolderOf
    <2>7. \A l \in Flag \ {k} : S!HolderOf(l)' = S!HolderOf(l)
      BY Zenon, <2>5, SameFlagHolder
    <2> QED
      BY Zenon, <2>2, <2>6, <2>7 DEF S!Locks!Next, S!Locks!Release
  <1> QED
    BY Zenon, <1>1, <1>2, <1>3, <1>4 DEF FlagNext, S!Step

LEMMA FlagInitRefines == S!Init => S!Locks!Init
  BY Zenon DEF S!Init, S!Locks!Init, S!HolderOf, S!Holds

(* Spinlock and SpinlockMCS instances implement abstract locks, for any    *)
(* number of threads and of instances: the test-and-set of one and the     *)
(* queue of the other let one thread at a time past lock().                *)
THEOREM LocksTheorem == BothSpec => ImplementsLocks
  <1>1. BothInit => Init /\ S!Init
    BY Zenon DEF BothInit
  <1>2. [BothNext]_<<kind, vars, flags>> => [Next]_vars /\ [FlagNext]_flags
    BY Zenon DEF BothNext, QueueLock, FlagLock, Next, FlagNext
  <1>3. BothSpec => ImplementsLock
    <2>1. BothSpec => Spec
      BY <1>1, <1>2, PTL DEF BothSpec, Spec
    <2> QED
      BY <2>1, RefinementTheorem, PTL
  <1>4. BothSpec => S!ImplementsLock
    <2>1. BothSpec => S!Init /\ [][FlagNext]_flags
      BY <1>1, <1>2, PTL DEF BothSpec
    <2> QED
      BY <2>1, FlagInit, FlagInitRefines, FlagStep, PTL DEF S!ImplementsLock, S!Locks!Spec
  <1> QED
    BY Zenon, <1>3, <1>4 DEF ImplementsLocks

(* The order of the queue locks holds in the composition as well. *)
THEOREM BothFCFSTheorem == BothSpec => []FirstComeFirstServed
  <1>1. BothInit => Init
    BY Zenon DEF BothInit
  <1>2. [BothNext]_<<kind, vars, flags>> => [Next]_vars
    BY Zenon DEF BothNext, QueueLock, FlagLock, Next
  <1>3. BothSpec => Spec
    BY <1>1, <1>2, PTL DEF BothSpec, Spec
  <1> QED
    BY <1>3, FCFSTheorem, PTL

-----------------------------------------------------------------------------
(* The barrier *)

(* In which phase the token finds counter_ and the arrivals of the batch. *)
PhaseInv ==
    /\ (arrival_ > 0) => (arrived = counter_ /\ counter_ < num_participants_)
    /\ (departure_ > 0) => (arrived = num_participants_ /\ counter_ > 0)
    /\ \A t \in Caller :
         /\ (place[t] = "arriving") => (arrived = counter_ /\ counter_ < num_participants_)
         /\ (place[t] = "counted") => (arrived = counter_ /\ counter_ > 0
                                     /\ counter_ <= num_participants_)
         /\ (place[t] = "departing") => (arrived = num_participants_ /\ counter_ > 0)
         /\ (place[t] = "uncounted") =>
              IF counter_ = 0 THEN arrived = 0 ELSE arrived = num_participants_

(* The inductive invariant: OneToken and FullBatchDeparts are not          *)
(* inductive without the value of counter_ in each phase.                  *)
TokenInv == BarrierTypeOK /\ OneToken /\ PhaseInv

(* The initial state: the token is in arrival_ and nobody has arrived. *)
LEMMA TokenInit == BarrierInit => TokenInv
  BY ParticipantsAssumption DEF BarrierInit, TokenInv, BarrierTypeOK, OneToken, PhaseInv, HasToken, PlaceType

(* Every step of wait() takes, carries or puts down the token. *)
LEMMA TokenNext == TokenInv /\ [BarrierNext]_barrierVars => TokenInv'
<1> SUFFICES ASSUME TokenInv, [BarrierNext]_barrierVars
             PROVE  TokenInv'
  OBVIOUS
<1> USE ParticipantsAssumption DEF TokenInv, BarrierTypeOK, OneToken, PhaseInv, HasToken, PlaceType, Advance
<1>1. ASSUME NEW t \in Caller, WaitArrival(t)
      PROVE  TokenInv'
  BY <1>1 DEF WaitArrival
<1>2. ASSUME NEW t \in Caller, CountIn(t)
      PROVE  TokenInv'
  BY <1>2 DEF CountIn
<1>3. ASSUME NEW t \in Caller, PostArrival(t)
      PROVE  TokenInv'
  BY <1>3 DEF PostArrival
<1>4. ASSUME NEW t \in Caller, WaitDeparture(t)
      PROVE  TokenInv'
  BY <1>4 DEF WaitDeparture
<1>5. ASSUME NEW t \in Caller, CountOut(t)
      PROVE  TokenInv'
  BY <1>5 DEF CountOut
<1>6. ASSUME NEW t \in Caller, PostDeparture(t)
      PROVE  TokenInv'
  BY <1>6 DEF PostDeparture
<1>7. ASSUME NEW t \in Caller, CallWait(t)
      PROVE  TokenInv'
  BY <1>7 DEF CallWait
<1>8. CASE UNCHANGED barrierVars
  BY <1>8 DEF barrierVars
<1> QED
  BY <1>1, <1>2, <1>3, <1>4, <1>5, <1>6, <1>7, <1>8 DEF BarrierNext, wait

(* OneToken, for any number of threads: counter_ of thread_barrier.hpp is  *)
(* only touched by the thread that took the one token, so its plain        *)
(* increment and decrement do not race.                                    *)
THEOREM TokenTheorem == BarrierSpec => []OneToken
<1>1. TokenInv => OneToken
  BY DEF TokenInv
<1> QED
  BY <1>1, TokenInit, TokenNext, PTL DEF BarrierSpec

(* FullBatchDeparts, for any number of threads and participants: wait()    *)
(* lets a thread depart only after num_participants_ arrivals, and lets    *)
(* none arrive while a batch departs.                                      *)
THEOREM BatchTheorem == BarrierSpec => []FullBatchDeparts
<1>1. TokenInv => FullBatchDeparts
  BY DEF TokenInv, PhaseInv, FullBatchDeparts
<1> QED
  BY <1>1, TokenInit, TokenNext, PTL DEF BarrierSpec
-----------------------------------------------------------------------------
(* The threads between their two counts, the waiting of the abstract barrier. *)
Inside == {t \in Caller : place[t] \in {"counted", "inside", "departing"}}

CountInv == IsFiniteSet(Inside) /\ counter_ = Cardinality(Inside)

(* The steps that count change Inside by one thread, the others not at all. *)
LEMMA InsideLemma ==
  ASSUME TokenInv, NEW t \in Caller
  PROVE  /\ CountIn(t) => (t \notin Inside /\ Inside' = Inside \cup {t})
         /\ CountOut(t) => (t \in Inside /\ Inside' = Inside \ {t})
         /\ (CallWait(t) \/ WaitArrival(t) \/ PostArrival(t) \/ WaitDeparture(t) \/ PostDeparture(t))
              => (Inside' = Inside /\ arrived' = arrived /\ counter_' = counter_)
<1> USE DEF TokenInv, BarrierTypeOK, PlaceType, Inside, Advance
<1>1. CountIn(t) => (t \notin Inside /\ Inside' = Inside \cup {t})
  BY DEF CountIn
<1>2. CountOut(t) => (t \in Inside /\ Inside' = Inside \ {t})
  BY DEF CountOut
<1>3. WaitArrival(t) => (Inside' = Inside /\ arrived' = arrived /\ counter_' = counter_)
  BY DEF WaitArrival
<1>4. PostArrival(t) => (Inside' = Inside /\ arrived' = arrived /\ counter_' = counter_)
  BY DEF PostArrival
<1>5. WaitDeparture(t) => (Inside' = Inside /\ arrived' = arrived /\ counter_' = counter_)
  BY DEF WaitDeparture
<1>6. PostDeparture(t) => (Inside' = Inside /\ arrived' = arrived /\ counter_' = counter_)
  BY DEF PostDeparture
<1>7. CallWait(t) => (Inside' = Inside /\ arrived' = arrived /\ counter_' = counter_)
  BY DEF CallWait
<1> QED
  BY <1>1, <1>2, <1>3, <1>4, <1>5, <1>6, <1>7

(* The initial state has nobody inside. *)
LEMMA CountInit == BarrierInit => CountInv
<1> SUFFICES ASSUME BarrierInit
             PROVE  CountInv
  OBVIOUS
<1>1. Inside = {}
  BY DEF BarrierInit, Inside
<1> QED
  BY <1>1, FS_EmptySet DEF BarrierInit, CountInv

(* counter_ follows the size of Inside. *)
LEMMA CountNext == TokenInv /\ CountInv /\ [BarrierNext]_barrierVars => CountInv'
<1> SUFFICES ASSUME TokenInv, CountInv, [BarrierNext]_barrierVars
             PROVE  CountInv'
  OBVIOUS
<1> USE DEF CountInv
<1>1. ASSUME NEW t \in Caller, CountIn(t)
      PROVE  CountInv'
  <2>1. t \notin Inside /\ Inside' = Inside \cup {t}
    BY <1>1, InsideLemma
  <2> QED
    BY <1>1, <2>1, FS_AddElement DEF CountIn
<1>2. ASSUME NEW t \in Caller, CountOut(t)
      PROVE  CountInv'
  <2>1. t \in Inside /\ Inside' = Inside \ {t}
    BY <1>2, InsideLemma
  <2> QED
    BY <1>2, <2>1, FS_RemoveElement DEF CountOut
<1>3. ASSUME NEW t \in Caller,
             \/ CallWait(t) \/ WaitArrival(t) \/ PostArrival(t)
             \/ WaitDeparture(t) \/ PostDeparture(t)
      PROVE  CountInv'
  BY <1>3, InsideLemma
<1>4. CASE UNCHANGED barrierVars
  BY <1>4 DEF barrierVars, Inside
<1> QED
  BY <1>1, <1>2, <1>3, <1>4 DEF BarrierNext, wait

(* The instance has the Cardinality of the library. *)
LEMMA SameCardinality == \A U : Abstract!Cardinality(U) = Cardinality(U)
  BY DEF Abstract!Cardinality, Cardinality

(* CounterCounts, for any number of threads: counter_ is the number of     *)
(* threads that were counted in by wait() and not yet out.                 *)
THEOREM CounterTheorem == BarrierSpec => []CounterCounts
<1>1. CountInv => CounterCounts
  BY DEF CountInv, CounterCounts, Inside
<1> QED
  BY <1>1, TokenInit, TokenNext, CountInit, CountNext, PTL DEF BarrierSpec

(* A step of Barrier is a step of the abstract barrier or leaves it alone. *)
LEMMA BarrierStep ==
  TokenInv /\ CountInv /\ CountInv' /\ [BarrierNext]_barrierVars
    => [Abstract!Next]_<<Inside, arrived = num_participants_>>
<1> SUFFICES ASSUME TokenInv, CountInv, CountInv', [BarrierNext]_barrierVars
             PROVE  [Abstract!Next]_<<Inside, arrived = num_participants_>>
  OBVIOUS
<1> USE ParticipantsAssumption
<1>1. ASSUME NEW t \in Caller, CountIn(t)
      PROVE  Abstract!Arrive(t)
  <2>1. t \notin Inside /\ Inside' = Inside \cup {t}
    BY <1>1, InsideLemma
  <2>2. arrived # num_participants_ /\ arrived' = Cardinality(Inside')
    BY <1>1 DEF CountIn, Advance, TokenInv, BarrierTypeOK, PhaseInv, CountInv
  <2> QED
    BY <2>1, <2>2, SameCardinality DEF Abstract!Arrive, Inside
<1>2. ASSUME NEW t \in Caller, CountOut(t)
      PROVE  Abstract!Leave(t)
  <2>1. t \in Inside /\ Inside' = Inside \ {t}
    BY <1>2, InsideLemma
  <2>2. arrived = num_participants_ /\ counter_ > 0 /\ counter_ \in Nat
    BY <1>2 DEF CountOut, Advance, TokenInv, BarrierTypeOK, PhaseInv
  <2>3. (Inside' = {}) <=> (counter_' = 0)
    BY FS_EmptySet DEF CountInv
  <2>4. (arrived' = num_participants_) <=> (Inside' # {})
    BY <1>2, <2>2, <2>3 DEF CountOut
  <2> QED
    BY <2>1, <2>2, <2>4 DEF Abstract!Leave, Inside
<1>3. ASSUME NEW t \in Caller,
             \/ CallWait(t) \/ WaitArrival(t) \/ PostArrival(t)
             \/ WaitDeparture(t) \/ PostDeparture(t)
      PROVE  Inside' = Inside /\ arrived' = arrived
  BY <1>3, InsideLemma
<1>4. CASE UNCHANGED barrierVars
  BY <1>4 DEF barrierVars, Inside
<1> QED
  BY <1>1, <1>2, <1>3, <1>4 DEF BarrierNext, wait, Abstract!Next

(* Barrier implements AbstractBarrier: threads gather until there are      *)
(* num_participants_ of them, then all of them leave before another may    *)
(* arrive, for any number of threads.                                      *)
THEOREM BarrierTheorem == BarrierSpec => ImplementsBarrier
<1>1. BarrierInit => Abstract!Init
  BY ParticipantsAssumption DEF BarrierInit, Abstract!Init
<1>2. TokenInv /\ CountInv /\ CountInv' /\ [BarrierNext]_barrierVars
        => [Abstract!Next]_<<{t \in Caller : place[t] \in {"counted", "inside", "departing"}},
                            arrived = num_participants_>>
  BY BarrierStep DEF Inside
<1> QED
  BY <1>1, <1>2, TokenInit, TokenNext, CountInit, CountNext, PTL
  DEF BarrierSpec, ImplementsBarrier, Abstract!Spec
=============================================================================
