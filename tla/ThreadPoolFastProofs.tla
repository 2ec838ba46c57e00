------------------------ MODULE ThreadPoolFastProofs ------------------------
(***************************************************************************)
(* The safety of ThreadPoolFast for any number of workers and submissions. *)
(***************************************************************************)
EXTENDS ThreadPoolFast, TLAPS

(* Until the constructor is done there is no task and no stop(). *)
UnderConstruction ==
    /\ \A w \in Worker : (pc[w] = "unborn") <=> (w > built)
    /\ (built < NumWorkers) => /\ dispatch_queue_ = <<>>
                               /\ stop_ = "no"
                               /\ \A w \in Worker : /\ pc[w] \in {"unborn", "check", "asleep"}
                                                    /\ ~has_task_[w]

(* A mailbox is full only while its worker is about to look at it, and     *)
(* what a worker runs is a task.                                           *)
MailboxInv ==
    /\ \A w \in Worker : has_task_[w] => (pc[w] = "check")
    /\ \A w \in Worker : (pc[w] = "running") => (task_[w] # NULL)

(* The hand-over of tasks, as an inductive invariant: what FreeWorkersAreIdle *)
(* says is kept by addTask only because workers that have a task, or run one,  *)
(* are not in the free list, and by the constructor only because it is alone.  *)
HandOver ==
    /\ TypeOK
    /\ UnderConstruction
    /\ MailboxInv
    /\ FreeWorkersAreIdle
    /\ NoIdleWorkerWhileQueued
    /\ NoLostWakeup

-----------------------------------------------------------------------------
(* Facts on sequences *)

(* What pop_front() leaves. *)
LEMMA TailFact ==
  ASSUME NEW S, NEW s \in Seq(S), s # <<>>
  PROVE  /\ Head(s) = s[1] /\ Head(s) \in S
         /\ Tail(s) \in Seq(S)
         /\ Len(s) \in Nat /\ Len(s) > 0
         /\ Len(Tail(s)) = Len(s) - 1
         /\ \A i \in 1..Len(Tail(s)) : i + 1 \in 1..Len(s) /\ Tail(s)[i] = s[i + 1]
  OBVIOUS

(* What push_front() makes. *)
LEMMA ConsFact ==
  ASSUME NEW S, NEW s \in Seq(S), NEW x \in S
  PROVE  /\ <<x>> \o s \in Seq(S)
         /\ Len(s) \in Nat
         /\ Len(<<x>> \o s) = Len(s) + 1
         /\ (<<x>> \o s)[1] = x
         /\ \A i \in 2..(Len(s) + 1) : i - 1 \in 1..Len(s) /\ (<<x>> \o s)[i] = s[i - 1]
  OBVIOUS

(* What push_back() makes. *)
LEMMA AppendFact ==
  ASSUME NEW S, NEW s \in Seq(S), NEW x \in S
  PROVE  /\ Append(s, x) \in Seq(S)
         /\ Len(s) \in Nat
         /\ Len(Append(s, x)) = Len(s) + 1
         /\ Append(s, x)[Len(s) + 1] = x
         /\ \A i \in 1..Len(s) : Append(s, x)[i] = s[i]
         /\ Append(s, x) # <<>>
  OBVIOUS

-----------------------------------------------------------------------------
(* addTask keeps HandOver, whoever calls it and whatever the task is, as   *)
(* long as the pool is built.                                              *)
LEMMA AddKeepsHandOver ==
  ASSUME HandOver, built = NumWorkers, NEW t \in Task \cup {NULL},
         addTaskOrQueue(t), pc' = SignalledByAdd,
         UNCHANGED <<last_worker_, built, stopper, joined, started, finished, prior>>,
         stop_' = stop_, issued' \in 0..NumWorkers, added' \in SUBSET Task
  PROVE  HandOver'
<1> USE NumWorkersAssumption DEF HandOver, Worker
<1>1. CASE workers_ # <<>>
  <2> DEFINE h == Head(workers_)
  <2>1. /\ h = workers_[1] /\ h \in Worker
        /\ Tail(workers_) \in Seq(Worker)
        /\ Len(workers_) \in Nat /\ Len(workers_) > 0
        /\ Len(Tail(workers_)) = Len(workers_) - 1
        /\ \A i \in 1..Len(Tail(workers_)) :
              i + 1 \in 1..Len(workers_) /\ Tail(workers_)[i] = workers_[i + 1]
    BY Zenon, <1>1, TailFact DEF TypeOK
  <2>2. pc[h] \in {"check", "asleep"} /\ ~has_task_[h]
    BY <2>1 DEF FreeWorkersAreIdle
  <2>3. /\ workers_' = Tail(workers_)
        /\ dispatch_queue_' = dispatch_queue_ /\ dispatch_queue_ = <<>>
        /\ has_task_' = [has_task_ EXCEPT ![h] = TRUE]
        /\ task_' = [task_ EXCEPT ![h] = t]
    BY Zenon, <1>1 DEF addTaskOrQueue, assignTask, NoIdleWorkerWhileQueued
  <2>4. pc' = [pc EXCEPT ![h] = "check"]
    BY Zenon, <1>1, <2>1, <2>2 DEF SignalledByAdd, Signalled, TypeOK
  <2> HIDE DEF h
  <2>5. \A w \in Worker : pc'[w] = IF w = h THEN "check" ELSE pc[w]
    BY Zenon, <2>1, <2>4 DEF TypeOK
  <2>6. \A w \in Worker : has_task_'[w] = IF w = h THEN TRUE ELSE has_task_[w]
    BY Zenon, <2>1, <2>3 DEF TypeOK
  <2>7. TypeOK'
    BY Zenon, <2>1, <2>3, <2>4 DEF TypeOK
  <2>8. UnderConstruction'
    BY <2>1, <2>2, <2>5 DEF UnderConstruction, TypeOK
  <2>9. MailboxInv'
    BY Zenon, <2>3, <2>5, <2>6 DEF MailboxInv, TypeOK
  <2>10. FreeWorkersAreIdle'
    <3>1. \A i \in 1..Len(Tail(workers_)) : workers_[i + 1] # h /\ workers_[i + 1] \in Worker
      BY <2>1 DEF FreeWorkersAreIdle, TypeOK
    <3>2. \A i \in 1..Len(workers_') :
             pc'[workers_'[i]] \in {"check", "asleep"} /\ ~has_task_'[workers_'[i]]
      BY <3>1, <2>1, <2>3, <2>5, <2>6 DEF FreeWorkersAreIdle
    <3>3. \A i, j \in 1..Len(workers_') : (workers_'[i] = workers_'[j]) => (i = j)
      BY SMTT(30), <2>1, <2>3 DEF FreeWorkersAreIdle
    <3> QED
      BY Zenon, <3>2, <3>3 DEF FreeWorkersAreIdle
  <2>11. NoIdleWorkerWhileQueued'
    BY Zenon, <2>3 DEF NoIdleWorkerWhileQueued
  <2>12. NoLostWakeup'
    BY Zenon, <2>5, <2>6 DEF NoLostWakeup
  <2> QED
    BY Zenon, <2>7, <2>8, <2>9, <2>10, <2>11, <2>12
<1>2. CASE workers_ = <<>>
  <2>1. /\ dispatch_queue_' = Append(dispatch_queue_, t)
        /\ UNCHANGED <<workers_, has_task_, task_, pc>>
    BY Zenon, <1>2 DEF addTaskOrQueue, SignalledByAdd
  <2>2. dispatch_queue_' \in Seq(Task \cup {NULL})
    BY Zenon, <2>1, AppendFact DEF TypeOK
  <2> QED
    BY <1>2, <2>1, <2>2 DEF TypeOK, UnderConstruction, MailboxInv, FreeWorkersAreIdle,
       NoIdleWorkerWhileQueued, NoLostWakeup
<1> QED
  BY Zenon, <1>1, <1>2

(* A worker that is pushed to the front of the free list: it was not in it *)
(* and has an empty mailbox.                                               *)
LEMMA PushKeepsFreeWorkersIdle ==
  ASSUME TypeOK, FreeWorkersAreIdle, NEW v \in Worker,
         pc[v] \notin {"check", "asleep"}, ~has_task_[v],
         workers_' = <<v>> \o workers_, pc' = [pc EXCEPT ![v] = "check"],
         has_task_' = has_task_
  PROVE  workers_' \in Seq(Worker) /\ FreeWorkersAreIdle'
<1>1. /\ workers_' \in Seq(Worker)
      /\ Len(workers_) \in Nat
      /\ Len(workers_') = Len(workers_) + 1
      /\ workers_'[1] = v
      /\ \A i \in 2..(Len(workers_) + 1) :
            i - 1 \in 1..Len(workers_) /\ workers_'[i] = workers_[i - 1]
  BY ConsFact DEF TypeOK
<1>2. \A i \in 1..Len(workers_) : workers_[i] # v /\ workers_[i] \in Worker
  BY DEF FreeWorkersAreIdle, TypeOK
<1>3. \A i \in 1..Len(workers_') :
         pc'[workers_'[i]] \in {"check", "asleep"} /\ ~has_task_'[workers_'[i]]
  <2> SUFFICES ASSUME NEW i \in 1..Len(workers_')
               PROVE  pc'[workers_'[i]] \in {"check", "asleep"} /\ ~has_task_'[workers_'[i]]
    OBVIOUS
  <2>1. CASE i = 1
    BY Zenon, <1>1, <2>1 DEF TypeOK
  <2>2. CASE i # 1
    <3>1. i \in 2..(Len(workers_) + 1)
      BY <1>1, <2>2
    <3> QED
      BY Zenon, <1>1, <1>2, <3>1 DEF FreeWorkersAreIdle, TypeOK
  <2> QED
    BY Zenon, <2>1, <2>2
<1>4. \A i, j \in 1..Len(workers_') : (workers_'[i] = workers_'[j]) => (i = j)
  <2> SUFFICES ASSUME NEW i \in 1..Len(workers_'), NEW j \in 1..Len(workers_'),
                      workers_'[i] = workers_'[j]
               PROVE  i = j
    OBVIOUS
  <2>1. CASE i = 1 \/ j = 1
    BY <1>1, <1>2, <2>1
  <2>2. CASE i # 1 /\ j # 1
    <3>1. i \in 2..(Len(workers_) + 1) /\ j \in 2..(Len(workers_) + 1)
      BY <1>1, <2>2
    <3>2. workers_[i - 1] = workers_[j - 1] /\ i - 1 \in 1..Len(workers_)
            /\ j - 1 \in 1..Len(workers_)
      BY Zenon, <1>1, <3>1
    <3>3. i - 1 = j - 1
      BY Zenon, <3>2 DEF FreeWorkersAreIdle
    <3> QED
      BY <3>1, <3>3, <1>1
  <2> QED
    BY Zenon, <2>1, <2>2
<1> QED
  BY Zenon, <1>1, <1>3, <1>4 DEF FreeWorkersAreIdle

(* A step that leaves the free list alone keeps it idle, if it keeps every *)
(* free worker waiting with an empty mailbox.                              *)
LEMMA SameFreeWorkers ==
  ASSUME TypeOK, FreeWorkersAreIdle, workers_' = workers_,
         \A w \in Worker : (pc[w] \in {"check", "asleep"} /\ ~has_task_[w])
                             => (pc'[w] \in {"check", "asleep"} /\ ~has_task_'[w])
  PROVE  FreeWorkersAreIdle'
  BY DEF TypeOK, FreeWorkersAreIdle

(* The initial state of the constructor. *)
LEMMA InitHandOver == Init => HandOver
  BY NumWorkersAssumption DEF Init, HandOver, TypeOK, UnderConstruction, MailboxInv,
     FreeWorkersAreIdle, NoIdleWorkerWhileQueued, NoLostWakeup, Worker, Outside

(* Every critical section keeps HandOver. *)
LEMMA NextHandOver == HandOver /\ [Next]_vars => HandOver'
<1> SUFFICES ASSUME HandOver, [Next]_vars
             PROVE  HandOver'
  OBVIOUS
<1> USE NumWorkersAssumption, TaskAssumption
<1>1. CASE Construct
  <2> DEFINE v == built + 1
  <2>1. v \in Worker /\ pc[v] = "unborn" /\ ~has_task_[v] /\ built' = v
    BY <1>1 DEF Construct, HandOver, UnderConstruction, MailboxInv, TypeOK, Worker
  <2>2. workers_' \in Seq(Worker) /\ FreeWorkersAreIdle'
    BY Zenon, <1>1, <2>1, PushKeepsFreeWorkersIdle DEF Construct, HandOver
  <2>3. TypeOK'
    BY <1>1, <2>1, <2>2 DEF Construct, HandOver, TypeOK, Worker, stopping, history
  <2>4. UnderConstruction' /\ MailboxInv' /\ NoIdleWorkerWhileQueued' /\ NoLostWakeup'
    BY <1>1, <2>1 DEF Construct, HandOver, TypeOK, UnderConstruction, MailboxInv,
       NoIdleWorkerWhileQueued, NoLostWakeup, Worker, stopping, history
  <2> QED
    BY Zenon, <2>2, <2>3, <2>4 DEF HandOver
<1>2. ASSUME NEW t \in Task, AddFromOutside(t)
      PROVE  HandOver'
  BY Zenon, <1>2, AddKeepsHandOver
  DEF AddFromOutside, Constructed, stopping, HandOver, TypeOK
<1>3. ASSUME NEW w \in Worker, NEW t \in Task, AddFromTask(w, t)
      PROVE  HandOver'
  <2>1. built = NumWorkers
    BY <1>3 DEF AddFromTask, HandOver, UnderConstruction, TypeOK
  <2> QED
    BY Zenon, <1>3, <2>1, AddKeepsHandOver DEF AddFromTask, stopping, HandOver, TypeOK
<1>4. ASSUME NEW w \in Worker, TakeTask(w)
      PROVE  HandOver'
  <2>1. FreeWorkersAreIdle'
    BY Zenon, <1>4, SameFreeWorkers DEF TakeTask, HandOver, TypeOK
  <2> QED
    BY Zenon, <1>4, <2>1 DEF TakeTask, HandOver, TypeOK, UnderConstruction, MailboxInv,
       NoIdleWorkerWhileQueued, NoLostWakeup, stopping, history
<1>5. ASSUME NEW w \in Worker, Sleep(w) \/ SpuriousWakeup(w)
      PROVE  HandOver'
  <2>1. FreeWorkersAreIdle'
    BY Zenon, <1>5, SameFreeWorkers DEF Sleep, SpuriousWakeup, pool, HandOver, TypeOK
  <2> QED
    BY <1>5, <2>1 DEF Sleep, SpuriousWakeup, pool, HandOver, TypeOK, UnderConstruction,
       MailboxInv, NoIdleWorkerWhileQueued, NoLostWakeup, stopping, history
<1>6. ASSUME NEW w \in Worker, StopWorker(w) \/ StartTask(w) \/ FinishTask(w)
      PROVE  HandOver'
  <2>1. pc[w] \in {"got", "running"} /\ UNCHANGED pool
        /\ \E l \in {"ended", "running", "queueing"} : pc' = [pc EXCEPT ![w] = l]
    BY Zenon, <1>6 DEF StopWorker, StartTask, FinishTask
  <2>2. FreeWorkersAreIdle'
    BY Zenon, <2>1, SameFreeWorkers DEF pool, HandOver, TypeOK
  <2>3. /\ UNCHANGED <<last_worker_, built, stopping, added, prior>>
        /\ started' \in SUBSET Task /\ finished' \in SUBSET Task
    <3>1. CASE StopWorker(w)
      BY Zenon, <3>1 DEF StopWorker, HandOver, TypeOK, history
    <3>2. CASE StartTask(w)
      BY Zenon, <3>2 DEF StartTask, HandOver, TypeOK
    <3>3. CASE FinishTask(w)
      <4>0. task_[w] # NULL
        BY <1>6, <3>3, Zenon DEF FinishTask, HandOver, MailboxInv
      <4>1. task_[w] \in Task
        BY Zenon, <4>0 DEF HandOver, TypeOK
      <4> QED
        BY Zenon, <3>3, <4>1 DEF FinishTask, HandOver, TypeOK
    <3> QED
      BY Zenon, <1>6, <3>1, <3>2, <3>3
  <2>4. (pc'[w] = "running") => (task_[w] # NULL)
    BY Zenon, <1>6 DEF StopWorker, StartTask, FinishTask, HandOver, TypeOK
  <2> QED
    BY <2>1, <2>2, <2>3, <2>4 DEF pool, HandOver, TypeOK, UnderConstruction,
       MailboxInv, NoIdleWorkerWhileQueued, NoLostWakeup, stopping
<1>7. ASSUME NEW w \in Worker, queueWorker(w)
      PROVE  HandOver'
  <2>0. pc[w] = "queueing" /\ ~has_task_[w] /\ pc' = [pc EXCEPT ![w] = "check"]
    <3>1. pc[w] = "queueing" /\ pc' = [pc EXCEPT ![w] = "check"]
      BY Zenon, <1>7 DEF queueWorker
    <3>2. pc[w] # "check"
      BY Zenon, <3>1
    <3> QED
      BY <1>7, <3>1, <3>2, Zenon DEF HandOver, MailboxInv
  <2>1. CASE dispatch_queue_ # <<>>
    <3>1. Head(dispatch_queue_) \in Task \cup {NULL}
            /\ Tail(dispatch_queue_) \in Seq(Task \cup {NULL})
      BY Zenon, <2>1, TailFact DEF HandOver, TypeOK
    <3>2. /\ task_' = [task_ EXCEPT ![w] = Head(dispatch_queue_)]
          /\ has_task_' = [has_task_ EXCEPT ![w] = TRUE]
          /\ dispatch_queue_' = Tail(dispatch_queue_)
          /\ workers_' = workers_ /\ workers_ = <<>>
      BY Zenon, <1>7, <2>1 DEF queueWorker, assignTask, HandOver, NoIdleWorkerWhileQueued
    <3>3. FreeWorkersAreIdle'
      BY Zenon, <3>2, <2>0, SameFreeWorkers DEF HandOver, TypeOK
    <3> QED
      BY Zenon, <1>7, <2>0, <3>1, <3>2, <3>3 DEF queueWorker, HandOver, TypeOK, UnderConstruction,
         MailboxInv, NoIdleWorkerWhileQueued, NoLostWakeup, stopping, history
  <2>2. CASE dispatch_queue_ = <<>>
    <3>1. /\ workers_' = <<w>> \o workers_
          /\ UNCHANGED <<dispatch_queue_, has_task_, task_>>
      BY Zenon, <1>7, <2>2 DEF queueWorker
    <3>2. workers_' \in Seq(Worker) /\ FreeWorkersAreIdle'
      BY Zenon, <3>1, <2>0, PushKeepsFreeWorkersIdle DEF HandOver
    <3> QED
      BY Zenon, <1>7, <2>0, <2>2, <3>1, <3>2 DEF queueWorker, HandOver, TypeOK, UnderConstruction,
         MailboxInv, NoIdleWorkerWhileQueued, NoLostWakeup, stopping, history
  <2> QED
    BY Zenon, <2>1, <2>2
<1>8. ASSUME NEW c \in Worker \cup {Outside}, CallStop(c)
      PROVE  HandOver'
  BY <1>8 DEF CallStop, Constructed, pool, HandOver, TypeOK, UnderConstruction, MailboxInv,
     FreeWorkersAreIdle, NoIdleWorkerWhileQueued, NoLostWakeup
<1>9. CASE IssueNull
  <2>1. built = NumWorkers
    BY <1>9 DEF IssueNull, HandOver, UnderConstruction, TypeOK
  <2>2. issued' \in 0..NumWorkers
    BY <1>9 DEF IssueNull, HandOver, TypeOK
  <2> QED
    BY Zenon, <1>9, <2>1, <2>2, AddKeepsHandOver DEF IssueNull, history, HandOver, TypeOK
<1>10. CASE StartJoining \/ JoinNext \/ StopReturns
  <2>1. UNCHANGED <<pool, pc, built>> /\ stop_ # "no" /\ stop_' # "no"
    BY Zenon, <1>10 DEF StartJoining, JoinNext, StopReturns
  <2>2. TypeOK'
    <3>1. CASE StartJoining
      BY Zenon, <3>1 DEF StartJoining, pool, history, HandOver, TypeOK
    <3>2. CASE JoinNext
      BY <3>2 DEF JoinNext, pool, history, HandOver, TypeOK
    <3>3. CASE StopReturns
      <4>1. last_worker_' \in [Worker -> BOOLEAN]
        BY <3>3, Zenon DEF StopReturns
      <4> QED
        BY Zenon, <3>3, <4>1 DEF StopReturns, pool, history, HandOver, TypeOK
    <3> QED
      BY Zenon, <1>10, <3>1, <3>2, <3>3
  <2> QED
    BY Zenon, <2>1, <2>2 DEF pool, HandOver, UnderConstruction, MailboxInv, FreeWorkersAreIdle,
       NoIdleWorkerWhileQueued, NoLostWakeup
<1>11. CASE Destroy
  BY <1>11 DEF Destroy, history, HandOver, TypeOK, UnderConstruction, MailboxInv,
     FreeWorkersAreIdle, NoIdleWorkerWhileQueued, NoLostWakeup
<1>12. CASE UNCHANGED vars
  BY Zenon, <1>12 DEF vars, HandOver, TypeOK, UnderConstruction, MailboxInv,
     FreeWorkersAreIdle, NoIdleWorkerWhileQueued, NoLostWakeup
<1> QED
  BY Zenon, <1>1, <1>2, <1>3, <1>4, <1>5, <1>6, <1>7, <1>8, <1>9, <1>10, <1>11, <1>12
  DEF Next, WorkerStep, StopStep

(* TypeOK, for any number of workers and submissions. *)
THEOREM TypeTheorem == Spec => []TypeOK
<1>1. HandOver => TypeOK
  BY Zenon DEF HandOver
<1> QED
  BY <1>1, InitHandOver, NextHandOver, PTL DEF Spec

(* FreeWorkersAreIdle, for any number of workers: assignTask never writes  *)
(* to a mailbox that is full, or to a Worker that deleted itself.          *)
THEOREM FreeWorkersTheorem == Spec => []FreeWorkersAreIdle
<1>1. HandOver => FreeWorkersAreIdle
  BY Zenon DEF HandOver
<1> QED
  BY <1>1, InitHandOver, NextHandOver, PTL DEF Spec

(* NoIdleWorkerWhileQueued, for any number of workers: addTask and         *)
(* queueWorker never leave a task queued next to a free worker.            *)
THEOREM NoIdleTheorem == Spec => []NoIdleWorkerWhileQueued
<1>1. HandOver => NoIdleWorkerWhileQueued
  BY Zenon DEF HandOver
<1> QED
  BY <1>1, InitHandOver, NextHandOver, PTL DEF Spec

(* NoLostWakeup, for any number of workers: no worker sleeps in workerLoop *)
(* on a full mailbox.                                                      *)
THEOREM NoLostWakeupTheorem == Spec => []NoLostWakeup
<1>1. HandOver => NoLostWakeup
  BY Zenon DEF HandOver
<1> QED
  BY <1>1, InitHandOver, NextHandOver, PTL DEF Spec

-----------------------------------------------------------------------------
(* stop() *)

(* What the join loop of stop() knows: the threads it has passed ended, or  *)
(* are the caller; the caller is inside a task until stop() returns, and    *)
(* then carries last_worker_, so that it can only end.                      *)
JoinInv ==
    /\ (joined > 0) => (stop_ \in {"joining", "returned", "destroyed"})
    /\ \A w \in 1..joined : (w # stopper) => (pc[w] = "ended")
    /\ (stopper # Outside) => (stop_ # "no")
    /\ (stopper # Outside /\ stop_ \in {"issuing", "joining"}) => (pc[stopper] = "running")
    /\ (stop_ \in {"returned", "destroyed"}) =>
         /\ joined = NumWorkers
         /\ (stopper # Outside) => last_worker_[stopper]
         /\ (stopper # Outside) => (pc[stopper] \in {"running", "ended"})

(* A step that leaves stop() alone keeps JoinInv, if no worker leaves       *)
(* "ended" and the caller of stop() stays where JoinInv wants it.           *)
LEMMA WorkersKeepJoinInv ==
  ASSUME HandOver, JoinInv, UNCHANGED <<stop_, stopper, joined, last_worker_>>,
         \A w \in Worker : (pc[w] = "ended") => (pc'[w] = "ended"),
         \A w \in Worker : (w = stopper /\ pc[w] = "running") =>
             \/ pc'[w] = "running"
             \/ stop_ \in {"returned", "destroyed"} /\ pc'[w] = "ended"
  PROVE  JoinInv'
<1> USE NumWorkersAssumption DEF HandOver, TypeOK, Worker, Outside
<1>1. \A w \in 1..joined : w \in Worker
  OBVIOUS
<1>2. (stopper # Outside) => (stopper \in Worker)
  OBVIOUS
<1> QED
  BY Zenon, <1>1, <1>2 DEF JoinInv

LEMMA InitJoinInv == Init => JoinInv
  BY NumWorkersAssumption DEF Init, JoinInv, Worker, Outside

(* addTask only moves a sleeping worker. *)
LEMMA AddMovesSleepers ==
  ASSUME HandOver, pc' = SignalledByAdd, NEW w \in Worker, pc[w] # "asleep"
  PROVE  pc'[w] = pc[w]
<1>1. CASE workers_ # <<>>
  <2>1. Head(workers_) \in Worker
    BY Zenon, <1>1, TailFact DEF HandOver, TypeOK
  <2> QED
    BY Zenon, <1>1, <2>1 DEF SignalledByAdd, Signalled, HandOver, TypeOK
<1>2. CASE workers_ = <<>>
  BY Zenon, <1>2 DEF SignalledByAdd
<1> QED
  BY Zenon, <1>1, <1>2

LEMMA NextJoinInv == HandOver /\ JoinInv /\ [Next]_vars => JoinInv'
<1> SUFFICES ASSUME HandOver, JoinInv, [Next]_vars
             PROVE  JoinInv'
  OBVIOUS
<1> USE NumWorkersAssumption, TaskAssumption
<1>1. CASE Construct
  <2>1. built + 1 \in Worker /\ pc[built + 1] = "unborn"
    BY <1>1 DEF Construct, HandOver, UnderConstruction, TypeOK, Worker
  <2> QED
    BY Zenon, <1>1, <2>1, WorkersKeepJoinInv DEF Construct, stopping, HandOver, TypeOK
<1>2. ASSUME NEW t \in Task, AddFromOutside(t)
      PROVE  JoinInv'
  BY Zenon, <1>2, AddMovesSleepers, WorkersKeepJoinInv DEF AddFromOutside, stopping
<1>3. ASSUME NEW w \in Worker, NEW t \in Task, AddFromTask(w, t)
      PROVE  JoinInv'
  BY Zenon, <1>3, AddMovesSleepers, WorkersKeepJoinInv DEF AddFromTask, stopping
<1>4. ASSUME NEW w \in Worker, TakeTask(w) \/ Sleep(w) \/ SpuriousWakeup(w)
      PROVE  JoinInv'
  <2>1. /\ pc[w] \in {"check", "asleep"}
        /\ \E l \in {"got", "asleep", "check"} : pc' = [pc EXCEPT ![w] = l]
        /\ UNCHANGED <<stop_, stopper, joined, last_worker_>>
    BY Zenon, <1>4 DEF TakeTask, Sleep, SpuriousWakeup, stopping
  <2> QED
    BY Zenon, <2>1, WorkersKeepJoinInv DEF HandOver, TypeOK
<1>5. ASSUME NEW w \in Worker, StopWorker(w) \/ StartTask(w) \/ queueWorker(w)
      PROVE  JoinInv'
  <2>1. /\ pc[w] \in {"got", "queueing"}
        /\ \E l \in {"ended", "running", "check"} : pc' = [pc EXCEPT ![w] = l]
        /\ UNCHANGED <<stop_, stopper, joined, last_worker_>>
    BY Zenon, <1>5 DEF StopWorker, StartTask, queueWorker, stopping
  <2> QED
    BY Zenon, <2>1, WorkersKeepJoinInv DEF HandOver, TypeOK
<1>6. ASSUME NEW w \in Worker, FinishTask(w)
      PROVE  JoinInv'
  <2>1. /\ pc[w] = "running"
        /\ pc' = [pc EXCEPT ![w] = IF last_worker_[w] THEN "ended" ELSE "queueing"]
        /\ UNCHANGED <<stop_, stopper, joined, last_worker_>>
        /\ ~(stopper = w /\ stop_ \in {"issuing", "joining"})
    BY Zenon, <1>6 DEF FinishTask, stopping
  <2>2. (w = stopper) => (stop_ \in {"returned", "destroyed"} /\ last_worker_[w])
    BY <1>6, <2>1 DEF JoinInv, HandOver, TypeOK, Worker, Outside
  <2> QED
    BY Zenon, <2>1, <2>2, WorkersKeepJoinInv DEF HandOver, TypeOK
<1>7. ASSUME NEW c \in Worker \cup {Outside}, CallStop(c)
      PROVE  JoinInv'
  BY <1>7 DEF CallStop, JoinInv, HandOver, TypeOK, Worker, Outside
<1>8. CASE IssueNull
  BY Zenon, <1>8, AddMovesSleepers, WorkersKeepJoinInv DEF IssueNull
<1>9. CASE StartJoining
  BY Zenon, <1>9 DEF StartJoining, JoinInv, HandOver, TypeOK
<1>10. CASE JoinNext
  BY SMTT(30), <1>10 DEF JoinNext, JoinInv, HandOver, TypeOK
<1>11. CASE StopReturns
  <2>1. (stopper # Outside) => last_worker_'[stopper]
    <3>1. (stopper # Outside) => (stopper \in Worker)
      BY Zenon DEF HandOver, TypeOK
    <3> QED
      BY Zenon, <1>11, <3>1 DEF StopReturns
  <2> QED
    BY Zenon, <1>11, <2>1 DEF StopReturns, JoinInv, HandOver, TypeOK
<1>12. CASE Destroy
  BY Zenon, <1>12 DEF Destroy, JoinInv
<1>13. CASE UNCHANGED vars
  BY Zenon, <1>13 DEF vars, JoinInv
<1> QED
  BY Zenon, <1>1, <1>2, <1>3, <1>4, <1>5, <1>6, <1>7, <1>8, <1>9, <1>10, <1>11, <1>12, <1>13
  DEF Next, WorkerStep, StopStep

(* StoppedPoolIsQuiet, for any number of workers: when stop() has returned  *)
(* the destructor finds no thread in the pool but, perhaps, the one that    *)
(* called stop(), which does not touch the pool again.                      *)
THEOREM QuietTheorem == Spec => []StoppedPoolIsQuiet
<1>1. HandOver /\ JoinInv => StoppedPoolIsQuiet
  <2> SUFFICES ASSUME HandOver, JoinInv, stop_ \in {"returned", "destroyed"}
               PROVE  /\ \A w \in Worker \ {stopper} : pc[w] = "ended"
                      /\ (stopper # Outside) => pc[stopper] \in {"running", "ended"}
                      /\ workers_ = <<>>
    BY Zenon DEF StoppedPoolIsQuiet
  <2>1. \A w \in Worker \ {stopper} : pc[w] = "ended"
    BY Zenon DEF JoinInv, Worker
  <2>2. (stopper # Outside) => pc[stopper] \in {"running", "ended"}
    BY Zenon DEF JoinInv
  <2>3. \A w \in Worker : pc[w] \notin {"check", "asleep"}
    BY <2>1, <2>2, NumWorkersAssumption DEF HandOver, TypeOK, Worker, Outside
  <2>4. workers_ = <<>>
    BY <2>3, TailFact DEF HandOver, TypeOK, FreeWorkersAreIdle
  <2> QED
    BY Zenon, <2>1, <2>2, <2>4
<1> QED
  BY <1>1, InitHandOver, NextHandOver, InitJoinInv, NextJoinInv, PTL DEF Spec
-----------------------------------------------------------------------------
(* The refinement of ThreadPool *)

(* The worker has been given what is in task_ and has not acted on it. *)
Holds(w) == has_task_[w] \/ pc[w] = "got"
Works(w) == Holds(w) \/ pc[w] = "running"

(* A submission is at one place at most: in the queue, in one mailbox, or   *)
(* in the hands of one worker.                                              *)
OnePlace ==
    /\ finished \subseteq started /\ started \subseteq added /\ prior \subseteq added
    /\ \A i \in 1..Len(dispatch_queue_) :
         dispatch_queue_[i] = NULL \/ dispatch_queue_[i] \in added \ started
    /\ \A i, j \in 1..Len(dispatch_queue_) :
         (dispatch_queue_[i] = dispatch_queue_[j]) => (i = j \/ dispatch_queue_[i] = NULL)
    /\ \A w \in Worker : Holds(w) =>
         \/ task_[w] = NULL
         \/ /\ task_[w] \in added \ started
            /\ \A i \in 1..Len(dispatch_queue_) : dispatch_queue_[i] # task_[w]
    /\ \A w \in Worker : (pc[w] = "running") => (task_[w] \in started \ finished)
    /\ \A v, w \in Worker : (Works(v) /\ Works(w) /\ task_[v] = task_[w])
                              => (v = w \/ task_[v] = NULL)

(* A submission is at one place at least. *)
NoneLost ==
    /\ \A t \in added \ started :
         \/ stop_ = "destroyed"
         \/ \E i \in 1..Len(dispatch_queue_) : dispatch_queue_[i] = t
         \/ \E w \in Worker : Holds(w) /\ task_[w] = t
    /\ \A t \in started \ finished : \E w \in Worker : pc[w] = "running" /\ task_[w] = t

(* The NULLs of stop() are behind the submissions that are older than it:  *)
(* a worker that takes one leaves none of those in the queue.               *)
NullsLast ==
    /\ (stop_ = "no") =>
         /\ prior = {}
         /\ \A i \in 1..Len(dispatch_queue_) : dispatch_queue_[i] # NULL
         /\ \A w \in Worker : pc[w] # "ended" /\ (Holds(w) => task_[w] # NULL)
    /\ \A i, j \in 1..Len(dispatch_queue_) :
         (i < j /\ dispatch_queue_[j] \in prior) => (dispatch_queue_[i] # NULL)
    /\ \A w \in Worker :
         (Holds(w) /\ task_[w] = NULL) \/ (pc[w] = "ended" /\ w # stopper)
           => \A i \in 1..Len(dispatch_queue_) : dispatch_queue_[i] \notin prior
    /\ \A w \in Worker : last_worker_[w] => (w = stopper)

Delivery == OnePlace /\ NoneLost /\ NullsLast

(* The steps that leave every submission where it is. *)
LEMMA StayKeepsDelivery ==
  ASSUME Delivery,
         \A w \in Worker : /\ Holds(w)' <=> Holds(w)
                           /\ (pc'[w] = "running") <=> (pc[w] = "running")
                           /\ (pc'[w] = "ended") <=> (pc[w] = "ended"),
         UNCHANGED <<dispatch_queue_, task_, last_worker_, stopper, history>>,
         (stop_' = "no") <=> (stop_ = "no"),
         (stop_ = "destroyed") => (stop_' = "destroyed")
  PROVE  Delivery'
<1>1. \A w \in Worker : Works(w)' <=> Works(w)
  BY Zenon DEF Works
<1>2. OnePlace'
  BY <1>1 DEF Delivery, OnePlace, history
<1>3. NoneLost'
  BY Zenon DEF Delivery, NoneLost, history
<1>4. NullsLast'
  BY Zenon DEF Delivery, NullsLast, history
<1> QED
  BY Zenon, <1>2, <1>3, <1>4 DEF Delivery

(* addTask in the queue.  A submission is new, and a NULL comes after the  *)
(* call of stop().                                                         *)
LEMMA QueueKeepsDelivery ==
  ASSUME HandOver, Delivery, NEW x \in Task \cup {NULL},
         dispatch_queue_' = Append(dispatch_queue_, x),
         UNCHANGED <<has_task_, task_, pc, last_worker_, stopper, stop_, started, finished, prior>>,
         \/ x \in Task \ added /\ added' = added \cup {x}
         \/ x = NULL /\ stop_ # "no" /\ added' = added
  PROVE  Delivery'
<1> DEFINE n == Len(dispatch_queue_)
<1>1. /\ n \in Nat
      /\ Len(dispatch_queue_') = n + 1
      /\ dispatch_queue_'[n + 1] = x
      /\ \A i \in 1..n : dispatch_queue_'[i] = dispatch_queue_[i]
  BY AppendFact DEF HandOver, TypeOK
<1>2. \A i \in 1..(n + 1) : i = n + 1 \/ i \in 1..n
  BY <1>1
<1>3. \A w \in Worker : (Holds(w)' <=> Holds(w)) /\ (Works(w)' <=> Works(w))
  BY Zenon DEF Holds, Works
<1>4. x \notin prior
  BY TaskAssumption DEF HandOver, TypeOK, Delivery, OnePlace
<1> HIDE DEF n
<1>5. OnePlace'
  <2>1. /\ finished' \subseteq started' /\ started' \subseteq added' /\ prior' \subseteq added'
        /\ \A w \in Worker : (pc'[w] = "running") => (task_'[w] \in started' \ finished')
        /\ \A v, w \in Worker : (Works(v)' /\ Works(w)' /\ task_'[v] = task_'[w])
                              => (v = w \/ task_'[v] = NULL)
    BY Zenon, <1>3 DEF Delivery, OnePlace
  <2>2. \A i \in 1..(n + 1) :
         dispatch_queue_'[i] = NULL \/ dispatch_queue_'[i] \in added' \ started'
    BY <1>1, <1>2 DEF Delivery, OnePlace, n
  <2>3. \A i \in 1..n : x = NULL \/ dispatch_queue_[i] # x
    BY Zenon, TaskAssumption DEF Delivery, OnePlace, n
  <2>4. \A i, j \in 1..(n + 1) :
         (dispatch_queue_'[i] = dispatch_queue_'[j]) => (i = j \/ dispatch_queue_'[i] = NULL)
    BY <1>1, <1>2, <2>3 DEF Delivery, OnePlace, n
  <2>5. \A w \in Worker : Holds(w)' =>
         \/ task_'[w] = NULL
         \/ /\ task_'[w] \in added' \ started'
            /\ \A i \in 1..(n + 1) : dispatch_queue_'[i] # task_'[w]
    BY <1>1, <1>2, <1>3 DEF Delivery, OnePlace, n
  <2> QED
    BY ZenonT(60), <1>1, <2>1, <2>2, <2>4, <2>5 DEF OnePlace
<1>6. NoneLost'
  <2>1. ASSUME NEW t \in added' \ started'
        PROVE  \/ stop_' = "destroyed"
               \/ \E i \in 1..(n + 1) : dispatch_queue_'[i] = t
               \/ \E w \in Worker : Holds(w)' /\ task_'[w] = t
    <3>1. CASE t = x
      BY <3>1, <1>1
    <3>2. CASE t \in added \ started
      <4>1. CASE \E i \in 1..n : dispatch_queue_[i] = t
        BY <4>1, <1>1, <1>2
      <4>2. CASE ~\E i \in 1..n : dispatch_queue_[i] = t
        BY Zenon, <3>2, <4>2, <1>3 DEF Delivery, NoneLost, n
      <4> QED
        BY <4>1, <4>2, Zenon
    <3> QED
      BY <2>1, <3>1, <3>2, Zenon
  <2> QED
    BY Zenon, <1>1, <2>1 DEF Delivery, NoneLost
<1>7. NullsLast'
  <2>1. (stop_' = "no") =>
         /\ prior' = {}
         /\ \A i \in 1..(n + 1) : dispatch_queue_'[i] # NULL
         /\ \A w \in Worker : pc'[w] # "ended" /\ (Holds(w)' => task_'[w] # NULL)
    BY Zenon, <1>1, <1>2, <1>3, TaskAssumption DEF Delivery, NullsLast, n
  <2>2. \A i, j \in 1..(n + 1) :
         (i < j /\ dispatch_queue_'[j] \in prior') => (dispatch_queue_'[i] # NULL)
    BY <1>1, <1>2, <1>4 DEF Delivery, NullsLast, n
  <2>3. \A w \in Worker :
         (Holds(w)' /\ task_'[w] = NULL) \/ (pc'[w] = "ended" /\ w # stopper')
           => \A i \in 1..(n + 1) : dispatch_queue_'[i] \notin prior'
    BY Zenon, <1>1, <1>2, <1>3, <1>4 DEF Delivery, NullsLast, n
  <2>4. \A w \in Worker : last_worker_'[w] => (w = stopper')
    BY Zenon DEF Delivery, NullsLast
  <2> QED
    BY Zenon, <1>1, <2>1, <2>2, <2>3, <2>4 DEF NullsLast
<1> QED
  BY Zenon, <1>5, <1>6, <1>7 DEF Delivery

(* addTask to a free worker, when the queue is empty. *)
LEMMA AssignKeepsDelivery ==
  ASSUME HandOver, Delivery, NEW x \in Task \cup {NULL}, NEW h \in Worker,
         ~Works(h), pc[h] # "ended", dispatch_queue_ = <<>>, dispatch_queue_' = dispatch_queue_,
         task_' = [task_ EXCEPT ![h] = x], has_task_' = [has_task_ EXCEPT ![h] = TRUE],
         pc' = [pc EXCEPT ![h] = "check"],
         UNCHANGED <<last_worker_, stopper, stop_, started, finished, prior>>,
         \/ x \in Task \ added /\ added' = added \cup {x}
         \/ x = NULL /\ stop_ # "no" /\ added' = added
  PROVE  Delivery'
<1>1. Len(dispatch_queue_) = 0
  OBVIOUS
<1>2. \A w \in Worker : /\ Holds(w)' <=> (w = h \/ Holds(w))
                        /\ Works(w)' <=> (w = h \/ Works(w))
                        /\ (pc'[w] = "running") <=> (pc[w] = "running")
                        /\ (pc'[w] = "ended") <=> (pc[w] = "ended")
                        /\ task_'[w] = IF w = h THEN x ELSE task_[w]
  BY Zenon DEF Holds, Works, HandOver, TypeOK
<1>3. OnePlace'
  <2>1. \A w \in Worker : (Works(w) /\ w # h) => (task_[w] # x \/ x = NULL)
    BY TaskAssumption DEF Delivery, OnePlace, Works
  <2>2. pc[h] # "running"
    BY Zenon DEF Works
  <2>3. /\ finished' \subseteq started' /\ started' \subseteq added' /\ prior' \subseteq added'
        /\ \A w \in Worker : (pc'[w] = "running") => (task_'[w] \in started' \ finished')
    BY Zenon, <1>2, <2>2 DEF Delivery, OnePlace
  <2>4. \A v, w \in Worker : (Works(v)' /\ Works(w)' /\ task_'[v] = task_'[w])
                              => (v = w \/ task_'[v] = NULL)
    BY <1>2, <2>1 DEF Delivery, OnePlace
  <2>5. \A w \in Worker : Holds(w)' => task_'[w] = NULL \/ task_'[w] \in added' \ started'
    BY <1>2 DEF Delivery, OnePlace
  <2> QED
    BY <1>1, <2>3, <2>4, <2>5 DEF OnePlace
<1>4. NoneLost'
  <2>1. ASSUME NEW t \in added' \ started', stop_ # "destroyed"
        PROVE  \E w \in Worker : Holds(w)' /\ task_'[w] = t
    <3>1. CASE t = x
      BY Zenon, <3>1, <1>2
    <3>2. CASE t \in added \ started
      <4>1. PICK w \in Worker : Holds(w) /\ task_[w] = t
        BY <1>1, <2>1, <3>2 DEF Delivery, NoneLost
      <4>2. w # h
        BY Zenon, <4>1 DEF Works
      <4> QED
        BY Zenon, <4>1, <4>2, <1>2
    <3> QED
      BY Zenon, <2>1, <3>1, <3>2
  <2>2. ASSUME NEW t \in started' \ finished'
        PROVE  \E w \in Worker : pc'[w] = "running" /\ task_'[w] = t
    <3>1. PICK w \in Worker : pc[w] = "running" /\ task_[w] = t
      BY Zenon DEF Delivery, NoneLost
    <3>2. w # h
      BY Zenon, <3>1 DEF Works
    <3> QED
      BY Zenon, <3>1, <3>2, <1>2
  <2> QED
    BY Zenon, <2>1, <2>2 DEF NoneLost
<1>5. NullsLast'
  BY <1>1, <1>2, TaskAssumption DEF Delivery, NullsLast
<1> QED
  BY Zenon, <1>3, <1>4, <1>5 DEF Delivery

(* addTask keeps Delivery, whoever calls it. *)
LEMMA AddKeepsDelivery ==
  ASSUME HandOver, Delivery, NEW x \in Task \cup {NULL},
         addTaskOrQueue(x), pc' = SignalledByAdd,
         UNCHANGED <<last_worker_, stopper, stop_, started, finished, prior>>,
         \/ x \in Task \ added /\ added' = added \cup {x}
         \/ x = NULL /\ stop_ # "no" /\ added' = added
  PROVE  Delivery'
<1>1. CASE workers_ # <<>>
  <2> DEFINE h == Head(workers_)
  <2>1. h = workers_[1] /\ h \in Worker /\ 1 \in 1..Len(workers_)
    BY <1>1, TailFact DEF HandOver, TypeOK
  <2>2. pc[h] \in {"check", "asleep"} /\ ~has_task_[h]
    BY Zenon, <2>1 DEF HandOver, FreeWorkersAreIdle
  <2>3. pc' = [pc EXCEPT ![h] = "check"]
    BY Zenon, <1>1, <2>1, <2>2 DEF SignalledByAdd, Signalled, HandOver, TypeOK
  <2>4. /\ dispatch_queue_' = dispatch_queue_ /\ dispatch_queue_ = <<>>
        /\ has_task_' = [has_task_ EXCEPT ![h] = TRUE]
        /\ task_' = [task_ EXCEPT ![h] = x]
    BY Zenon, <1>1 DEF addTaskOrQueue, assignTask, HandOver, NoIdleWorkerWhileQueued
  <2>5. ~Works(h) /\ pc[h] # "ended"
    BY Zenon, <2>2 DEF Works, Holds
  <2> HIDE DEF h
  <2> QED
    BY Zenon, <2>1, <2>3, <2>4, <2>5, AssignKeepsDelivery
<1>2. CASE workers_ = <<>>
  BY Zenon, <1>2, QueueKeepsDelivery DEF addTaskOrQueue, SignalledByAdd
<1> QED
  BY Zenon, <1>1, <1>2

(* queueWorker, with a task in the queue. *)
LEMMA PopKeepsDelivery ==
  ASSUME HandOver, Delivery, NEW h \in Worker, pc[h] = "queueing", dispatch_queue_ # <<>>,
         task_' = [task_ EXCEPT ![h] = Head(dispatch_queue_)],
         has_task_' = [has_task_ EXCEPT ![h] = TRUE],
         dispatch_queue_' = Tail(dispatch_queue_), pc' = [pc EXCEPT ![h] = "check"],
         UNCHANGED <<last_worker_, stopper, stop_, history>>
  PROVE  Delivery'
<1> DEFINE x == Head(dispatch_queue_)
           n == Len(dispatch_queue_)
<1>1. /\ n \in Nat /\ n > 0 /\ x = dispatch_queue_[1]
      /\ Len(dispatch_queue_') = n - 1
      /\ \A i \in 1..(n - 1) : i + 1 \in 1..n /\ dispatch_queue_'[i] = dispatch_queue_[i + 1]
  BY TailFact DEF HandOver, TypeOK
<1>2. ~Works(h)
  <2>1. ~has_task_[h]
    <3>1. pc[h] # "check"
      OBVIOUS
    <3> QED
      BY <3>1, Zenon DEF HandOver, MailboxInv
  <2> QED
    BY Zenon, <2>1 DEF Works, Holds
<1>3. \A w \in Worker : /\ Holds(w)' <=> (w = h \/ Holds(w))
                        /\ Works(w)' <=> (w = h \/ Works(w))
                        /\ (pc'[w] = "running") <=> (pc[w] = "running")
                        /\ (pc'[w] = "ended") <=> (pc[w] = "ended")
                        /\ task_'[w] = IF w = h THEN x ELSE task_[w]
  BY Zenon DEF Holds, Works, HandOver, TypeOK
<1> HIDE DEF n, x
<1>4. OnePlace'
  <2>1. \A w \in Worker : (Works(w) /\ w # h) => (task_[w] # x \/ x = NULL)
    <3> SUFFICES ASSUME NEW w \in Worker, Works(w), x # NULL
                 PROVE  task_[w] # x
      OBVIOUS
    <3>1. 1 \in 1..n /\ x \in added \ started
      BY <1>1 DEF Delivery, OnePlace, n
    <3>2. CASE Holds(w)
      BY <3>1, <3>2, <1>1 DEF Delivery, OnePlace, n
    <3>3. CASE pc[w] = "running"
      BY Zenon, <3>1, <3>3 DEF Delivery, OnePlace
    <3> QED
      BY Zenon, <3>2, <3>3 DEF Works
  <2>2. \A i \in 1..(n - 1) : dispatch_queue_'[i] # x \/ x = NULL
    BY <1>1 DEF Delivery, OnePlace, n
  <2>3. /\ finished' \subseteq started' /\ started' \subseteq added' /\ prior' \subseteq added'
        /\ \A w \in Worker : (pc'[w] = "running") => (task_'[w] \in started' \ finished')
    BY Zenon, <1>2, <1>3 DEF Delivery, OnePlace, history, Works
  <2>4. \A v, w \in Worker : (Works(v)' /\ Works(w)' /\ task_'[v] = task_'[w])
                              => (v = w \/ task_'[v] = NULL)
    BY <1>3, <2>1 DEF Delivery, OnePlace
  <2>5. /\ \A i \in 1..(n - 1) :
             dispatch_queue_'[i] = NULL \/ dispatch_queue_'[i] \in added' \ started'
        /\ \A i, j \in 1..(n - 1) :
            (dispatch_queue_'[i] = dispatch_queue_'[j]) => (i = j \/ dispatch_queue_'[i] = NULL)
    BY <1>1 DEF Delivery, OnePlace, history, n
  <2>6. ASSUME NEW w \in Worker, Holds(w)', task_'[w] # NULL
        PROVE  /\ task_'[w] \in added' \ started'
               /\ \A i \in 1..(n - 1) : dispatch_queue_'[i] # task_'[w]
    <3>1. CASE w = h
      BY <3>1, <1>1, <1>3, <2>2, <2>6 DEF Delivery, OnePlace, history, n
    <3>2. CASE w # h
      BY <3>2, <1>1, <1>3, <2>6 DEF Delivery, OnePlace, history, n
    <3> QED
      BY Zenon, <3>1, <3>2
  <2> QED
    BY ZenonT(60), <1>1, <2>3, <2>4, <2>5, <2>6 DEF OnePlace
<1>5. NoneLost'
  <2>1. ASSUME NEW t \in added' \ started', stop_ # "destroyed"
        PROVE  \/ \E i \in 1..(n - 1) : dispatch_queue_'[i] = t
               \/ \E w \in Worker : Holds(w)' /\ task_'[w] = t
    <3>1. CASE t = x
      BY Zenon, <3>1, <1>3
    <3>2. CASE t # x /\ \E i \in 1..n : dispatch_queue_[i] = t
      <4>1. PICK i \in 1..n : dispatch_queue_[i] = t
        BY Zenon, <3>2
      <4>2. i - 1 \in 1..(n - 1) /\ (i - 1) + 1 = i
        BY <3>2, <4>1, <1>1
      <4>3. dispatch_queue_'[i - 1] = t
        BY Zenon, <4>1, <4>2, <1>1
      <4> QED
        BY Zenon, <4>2, <4>3
    <3>3. CASE \E w \in Worker : Holds(w) /\ task_[w] = t
      <4>1. PICK w \in Worker : Holds(w) /\ task_[w] = t
        BY Zenon, <3>3
      <4>2. w # h
        BY Zenon, <4>1, <1>2 DEF Works
      <4> QED
        BY Zenon, <4>1, <4>2, <1>3
    <3>4. \/ \E i \in 1..n : dispatch_queue_[i] = t
          \/ \E w \in Worker : Holds(w) /\ task_[w] = t
      BY <2>1, Zenon DEF Delivery, NoneLost, history, n
    <3> QED
      BY <3>1, <3>2, <3>3, <3>4, Zenon
  <2>2. ASSUME NEW t \in started' \ finished'
        PROVE  \E w \in Worker : pc'[w] = "running" /\ task_'[w] = t
    <3>1. PICK w \in Worker : pc[w] = "running" /\ task_[w] = t
      BY Zenon DEF Delivery, NoneLost, history
    <3>2. w # h
      BY Zenon, <3>1, <1>2 DEF Works
    <3> QED
      BY Zenon, <3>1, <3>2, <1>3
  <2> QED
    BY Zenon, <1>1, <2>1, <2>2 DEF NoneLost
<1>6. NullsLast'
  <2>1. (stop_' = "no") =>
         /\ prior' = {}
         /\ \A i \in 1..(n - 1) : dispatch_queue_'[i] # NULL
         /\ \A w \in Worker : pc'[w] # "ended" /\ (Holds(w)' => task_'[w] # NULL)
    BY <1>1, <1>3 DEF Delivery, NullsLast, history, n
  <2>2. \A i, j \in 1..(n - 1) :
         (i < j /\ dispatch_queue_'[j] \in prior') => (dispatch_queue_'[i] # NULL)
    BY <1>1 DEF Delivery, NullsLast, history, n
  <2>3. ASSUME NEW w \in Worker,
               (Holds(w)' /\ task_'[w] = NULL) \/ (pc'[w] = "ended" /\ w # stopper'),
               NEW i \in 1..(n - 1)
        PROVE  dispatch_queue_'[i] \notin prior'
    <3>1. i + 1 \in 1..n /\ dispatch_queue_'[i] = dispatch_queue_[i + 1] /\ prior' = prior
            /\ 1 \in 1..n /\ 1 < i + 1
      BY <1>1 DEF history
    <3>2. CASE w = h
      <4>1. x = NULL
        BY Zenon, <3>2, <2>3, <1>3
      <4> QED
        BY Zenon, <4>1, <3>1, <1>1 DEF Delivery, NullsLast, n
    <3>3. CASE w # h
      BY <3>1, <3>3, <2>3, <1>3 DEF Delivery, NullsLast, n
    <3> QED
      BY Zenon, <3>2, <3>3
  <2>4. \A w \in Worker : last_worker_'[w] => (w = stopper')
    BY Zenon DEF Delivery, NullsLast
  <2> QED
    BY Zenon, <1>1, <2>1, <2>2, <2>3, <2>4 DEF NullsLast
<1> QED
  BY Zenon, <1>4, <1>5, <1>6 DEF Delivery

(* A worker enters, or leaves, the body of a task. *)
LEMMA StartKeepsDelivery ==
  ASSUME HandOver, Delivery, NEW h \in Worker, StartTask(h)
  PROVE  Delivery'
<1> DEFINE x == task_[h]
<1>1. /\ pc[h] = "got" /\ x # NULL /\ Holds(h) /\ x \in added \ started
      /\ pc' = [pc EXCEPT ![h] = "running"] /\ started' = started \cup {x}
      /\ UNCHANGED <<dispatch_queue_, has_task_, task_, last_worker_, stop_, stopper,
                     added, finished, prior>>
  BY Zenon DEF StartTask, pool, stopping, Holds, Delivery, OnePlace
<1>2. \A w \in Worker : /\ (w # h) => (Holds(w)' <=> Holds(w))
                        /\ Works(w)' <=> Works(w)
                        /\ (pc'[w] = "running") <=> (w = h \/ pc[w] = "running")
                        /\ (pc'[w] = "ended") <=> (pc[w] = "ended")
  BY Zenon, <1>1 DEF Holds, Works, HandOver, TypeOK
<1>3. ~Holds(h)'
  <2>1. ~has_task_[h]
    <3>1. pc[h] # "check"
      BY Zenon, <1>1
    <3> QED
      BY <3>1, Zenon DEF HandOver, MailboxInv
  <2> QED
    BY Zenon, <1>1, <2>1 DEF Holds, HandOver, TypeOK
<1>4. \A w \in Worker : Holds(w)' => (Holds(w) /\ w # h)
  BY Zenon, <1>2, <1>3
<1>5. OnePlace'
  <2>1. \A w \in Worker : (Works(w) /\ w # h) => (task_[w] # x)
    BY Zenon, <1>1 DEF Delivery, OnePlace, Works
  <2>2. \A i \in 1..Len(dispatch_queue_) : dispatch_queue_[i] # x
    BY Zenon, <1>1 DEF Delivery, OnePlace
  <2>3. /\ finished' \subseteq started' /\ started' \subseteq added' /\ prior' \subseteq added'
        /\ \A v, w \in Worker : (Works(v)' /\ Works(w)' /\ task_'[v] = task_'[w])
                              => (v = w \/ task_'[v] = NULL)
    BY Zenon, <1>1, <1>2 DEF Delivery, OnePlace
  <2>4. /\ \A i \in 1..Len(dispatch_queue_') :
             dispatch_queue_'[i] = NULL \/ dispatch_queue_'[i] \in added' \ started'
        /\ \A i, j \in 1..Len(dispatch_queue_') :
            (dispatch_queue_'[i] = dispatch_queue_'[j]) => (i = j \/ dispatch_queue_'[i] = NULL)
    BY Zenon, <1>1, <2>2 DEF Delivery, OnePlace
  <2>5. \A w \in Worker : (pc'[w] = "running") => (task_'[w] \in started' \ finished')
    BY Zenon, <1>1, <1>2 DEF Delivery, OnePlace
  <2>6. ASSUME NEW w \in Worker, Holds(w)', task_'[w] # NULL
        PROVE  /\ task_'[w] \in added' \ started'
               /\ \A i \in 1..Len(dispatch_queue_') : dispatch_queue_'[i] # task_'[w]
    BY Zenon, <1>1, <1>4, <2>1, <2>6 DEF Delivery, OnePlace, Works
  <2> QED
    BY Zenon, <2>3, <2>4, <2>5, <2>6 DEF OnePlace
<1>6. NoneLost'
  <2>1. ASSUME NEW t \in added' \ started', stop_ # "destroyed"
        PROVE  \/ \E i \in 1..Len(dispatch_queue_') : dispatch_queue_'[i] = t
               \/ \E w \in Worker : Holds(w)' /\ task_'[w] = t
    <3>1. t \in added \ started /\ t # x
      BY Zenon, <1>1, <2>1
    <3>2. CASE \E i \in 1..Len(dispatch_queue_) : dispatch_queue_[i] = t
      BY Zenon, <3>2, <1>1
    <3>3. CASE \E w \in Worker : Holds(w) /\ task_[w] = t
      <4>1. PICK w \in Worker : Holds(w) /\ task_[w] = t
        BY Zenon, <3>3
      <4>2. w # h
        BY Zenon, <3>1, <4>1
      <4> QED
        BY Zenon, <4>1, <4>2, <1>1, <1>2
    <3> QED
      BY <2>1, <3>1, <3>2, <3>3, Zenon DEF Delivery, NoneLost
  <2>2. ASSUME NEW t \in started' \ finished'
        PROVE  \E w \in Worker : pc'[w] = "running" /\ task_'[w] = t
    <3>1. CASE t = x
      BY Zenon, <3>1, <1>1, <1>2
    <3>2. CASE t # x
      <4>1. PICK w \in Worker : pc[w] = "running" /\ task_[w] = t
        BY Zenon, <1>1, <2>2, <3>2 DEF Delivery, NoneLost
      <4> QED
        BY Zenon, <4>1, <1>1, <1>2
    <3> QED
      BY Zenon, <3>1, <3>2
  <2> QED
    BY Zenon, <1>1, <2>1, <2>2 DEF NoneLost
<1>7. NullsLast'
  BY Zenon, <1>1, <1>2, <1>4 DEF Delivery, NullsLast
<1> QED
  BY Zenon, <1>5, <1>6, <1>7 DEF Delivery

LEMMA FinishKeepsDelivery ==
  ASSUME HandOver, Delivery, JoinInv, NEW h \in Worker, FinishTask(h)
  PROVE  Delivery'
<1> DEFINE x == task_[h]
<1>1. /\ pc[h] = "running" /\ x \in started /\ x # NULL
      /\ pc' = [pc EXCEPT ![h] = IF last_worker_[h] THEN "ended" ELSE "queueing"]
      /\ finished' = finished \cup {x}
      /\ UNCHANGED <<dispatch_queue_, has_task_, task_, last_worker_, stop_, stopper,
                     added, started, prior>>
  BY Zenon DEF FinishTask, pool, stopping, HandOver, MailboxInv, Delivery, OnePlace
<1>2. \A w \in Worker : /\ Holds(w)' <=> Holds(w)
                        /\ (w # h) => (Works(w)' <=> Works(w))
                        /\ (pc'[w] = "running") <=> (w # h /\ pc[w] = "running")
                        /\ (pc'[w] = "ended") => (pc[w] = "ended" \/ (w = h /\ last_worker_[w]))
  BY Zenon, <1>1 DEF Holds, Works, HandOver, TypeOK
<1>3. ~Works(h)'
  <2>1. ~has_task_[h]
    <3>1. pc[h] # "check"
      BY Zenon, <1>1
    <3> QED
      BY <3>1, Zenon DEF HandOver, MailboxInv
  <2> QED
    BY Zenon, <1>1, <2>1 DEF Works, Holds, HandOver, TypeOK
<1>4. \A w \in Worker : Works(w)' => (Works(w) /\ w # h)
  BY Zenon, <1>2, <1>3
<1>5. OnePlace'
  <2>1. \A w \in Worker : (Works(w) /\ w # h) => (task_[w] # x)
    BY Zenon, <1>1 DEF Delivery, OnePlace, Works
  <2>2. \A w \in Worker : (pc'[w] = "running") => (task_'[w] \in started' \ finished')
    BY Zenon, <1>1, <1>2, <2>1 DEF Delivery, OnePlace, Works
  <2> QED
    BY Zenon, <1>1, <1>2, <1>4, <2>2 DEF Delivery, OnePlace
<1>6. NoneLost'
  <2>1. ASSUME NEW t \in started' \ finished'
        PROVE  \E w \in Worker : pc'[w] = "running" /\ task_'[w] = t
    <3>1. t # x /\ t \in started \ finished
      BY Zenon, <1>1, <2>1
    <3>2. PICK w \in Worker : pc[w] = "running" /\ task_[w] = t
      BY Zenon, <3>1 DEF Delivery, NoneLost
    <3> QED
      BY Zenon, <3>1, <3>2, <1>1, <1>2
  <2> QED
    BY <1>1, <1>2, <2>1 DEF Delivery, NoneLost
<1>7. NullsLast'
  <2>1. last_worker_[h] => (h = stopper /\ stop_ # "no")
    BY DEF Delivery, NullsLast, JoinInv, HandOver, TypeOK, Worker, Outside
  <2> QED
    BY Zenon, <1>1, <1>2, <2>1 DEF Delivery, NullsLast
<1> QED
  BY Zenon, <1>5, <1>6, <1>7 DEF Delivery

LEMMA InitDelivery == Init => Delivery
  BY DEF Init, Delivery, OnePlace, NoneLost, NullsLast, Holds, Works

LEMMA NextDelivery == HandOver /\ JoinInv /\ Delivery /\ [Next]_vars => Delivery'
<1> SUFFICES ASSUME HandOver, JoinInv, Delivery, [Next]_vars
             PROVE  Delivery'
  OBVIOUS
<1> USE NumWorkersAssumption, TaskAssumption
<1>1. CASE Construct
  <2>1. built + 1 \in Worker /\ pc[built + 1] = "unborn"
    BY <1>1 DEF Construct, HandOver, UnderConstruction, TypeOK, Worker
  <2>2. \A w \in Worker : /\ Holds(w)' <=> Holds(w)
                          /\ (pc'[w] = "running") <=> (pc[w] = "running")
                          /\ (pc'[w] = "ended") <=> (pc[w] = "ended")
    BY Zenon, <1>1, <2>1 DEF Construct, Holds, HandOver, TypeOK
  <2> QED
    BY Zenon, <1>1, <2>2, StayKeepsDelivery DEF Construct, stopping
<1>2. ASSUME NEW t \in Task, AddFromOutside(t)
      PROVE  Delivery'
  BY Zenon, <1>2, AddKeepsDelivery DEF AddFromOutside, stopping
<1>3. ASSUME NEW w \in Worker, NEW t \in Task, AddFromTask(w, t)
      PROVE  Delivery'
  BY Zenon, <1>3, AddKeepsDelivery DEF AddFromTask, stopping
<1>4. ASSUME NEW w \in Worker, TakeTask(w) \/ Sleep(w) \/ SpuriousWakeup(w)
      PROVE  Delivery'
  <2>1. \A v \in Worker : /\ Holds(v)' <=> Holds(v)
                          /\ (pc'[v] = "running") <=> (pc[v] = "running")
                          /\ (pc'[v] = "ended") <=> (pc[v] = "ended")
    <3>1. CASE TakeTask(w)
      BY Zenon, <3>1 DEF TakeTask, Holds, HandOver, TypeOK
    <3>2. CASE Sleep(w) \/ SpuriousWakeup(w)
      BY Zenon, <3>2 DEF Sleep, SpuriousWakeup, pool, Holds, HandOver, TypeOK
    <3> QED
      BY Zenon, <1>4, <3>1, <3>2
  <2>2. UNCHANGED <<dispatch_queue_, task_, last_worker_, stop_, stopper, history>>
    BY Zenon, <1>4 DEF TakeTask, Sleep, SpuriousWakeup, pool, stopping
  <2> QED
    BY Zenon, <2>1, <2>2, StayKeepsDelivery
<1>5. ASSUME NEW w \in Worker, StopWorker(w)
      PROVE  Delivery'
  <2>1. /\ Holds(w) /\ task_[w] = NULL /\ stop_ # "no"
        /\ UNCHANGED <<dispatch_queue_, has_task_, task_, last_worker_, stop_, stopper, history>>
    BY Zenon, <1>5 DEF StopWorker, pool, stopping, Holds, Delivery, NullsLast
  <2>2. \A v \in Worker : /\ Holds(v)' => Holds(v)
                          /\ (v # w) => (Holds(v)' <=> Holds(v))
                          /\ (pc'[v] = "running") <=> (pc[v] = "running")
                          /\ (pc'[v] = "ended") => (v = w \/ pc[v] = "ended")
                          /\ Works(v)' => Works(v)
    BY Zenon, <1>5 DEF StopWorker, pool, Holds, Works, HandOver, TypeOK
  <2>3. OnePlace'
    BY <2>1, <2>2 DEF Delivery, OnePlace, history
  <2>4. NoneLost'
    <3>1. ASSUME NEW t \in added \ started, NEW v \in Worker, Holds(v), task_[v] = t
          PROVE  Holds(v)'
      <4>1. t # NULL
        BY Zenon DEF HandOver, TypeOK
      <4> QED
        BY Zenon, <3>1, <4>1, <2>1, <2>2
    <3>2. ASSUME NEW t \in added' \ started'
          PROVE  \/ stop_' = "destroyed"
                 \/ \E i \in 1..Len(dispatch_queue_') : dispatch_queue_'[i] = t
                 \/ \E v \in Worker : Holds(v)' /\ task_'[v] = t
      <4>1. t \in added \ started
        BY Zenon, <3>2, <2>1 DEF history
      <4> QED
        BY <4>1, <3>1, <2>1, Zenon DEF Delivery, NoneLost
    <3>3. \A t \in started' \ finished' : \E v \in Worker : pc'[v] = "running" /\ task_'[v] = t
      BY Zenon, <2>1, <2>2 DEF Delivery, NoneLost, history
    <3> QED
      BY Zenon, <3>2, <3>3 DEF NoneLost
  <2>5. NullsLast'
    BY Zenon, <2>1, <2>2 DEF Delivery, NullsLast, history
  <2> QED
    BY Zenon, <2>3, <2>4, <2>5 DEF Delivery
<1>6. ASSUME NEW w \in Worker, StartTask(w)
      PROVE  Delivery'
  BY Zenon, <1>6, StartKeepsDelivery
<1>7. ASSUME NEW w \in Worker, FinishTask(w)
      PROVE  Delivery'
  BY Zenon, <1>7, FinishKeepsDelivery
<1>8. ASSUME NEW w \in Worker, queueWorker(w)
      PROVE  Delivery'
  <2>1. CASE dispatch_queue_ # <<>>
    BY Zenon, <1>8, <2>1, PopKeepsDelivery DEF queueWorker, assignTask, stopping
  <2>2. CASE dispatch_queue_ = <<>>
    <3>1. \A v \in Worker : /\ Holds(v)' <=> Holds(v)
                            /\ (pc'[v] = "running") <=> (pc[v] = "running")
                            /\ (pc'[v] = "ended") <=> (pc[v] = "ended")
      BY Zenon, <1>8, <2>2 DEF queueWorker, Holds, HandOver, TypeOK
    <3> QED
      BY Zenon, <1>8, <2>2, <3>1, StayKeepsDelivery DEF queueWorker, stopping
  <2> QED
    BY Zenon, <2>1, <2>2
<1>9. ASSUME NEW c \in Worker \cup {Outside}, CallStop(c)
      PROVE  Delivery'
  <2>1. /\ stop_ = "no" /\ stop_' = "issuing" /\ prior' = added /\ stopper' = c /\ stopper = Outside
        /\ UNCHANGED <<dispatch_queue_, has_task_, task_, pc, last_worker_, added, started,
                       finished>>
    BY Zenon, <1>9 DEF CallStop, pool, JoinInv
  <2>2. \A w \in Worker : (Holds(w)' <=> Holds(w)) /\ (Works(w)' <=> Works(w))
    BY Zenon, <2>1 DEF Holds, Works
  <2>3. OnePlace'
    BY Zenon, <2>1, <2>2 DEF Delivery, OnePlace
  <2>4. NoneLost'
    BY Zenon, <2>1, <2>2 DEF Delivery, NoneLost
  <2>5. NullsLast'
    <3>1. \A w \in Worker : ~last_worker_[w]
      BY <2>1 DEF Delivery, NullsLast, Worker, Outside
    <3> QED
      BY Zenon, <2>1, <2>2, <3>1 DEF Delivery, NullsLast
  <2> QED
    BY Zenon, <2>3, <2>4, <2>5 DEF Delivery
<1>10. CASE IssueNull
  BY Zenon, <1>10, AddKeepsDelivery DEF IssueNull, history
<1>11. CASE StartJoining \/ JoinNext
  <2>1. /\ UNCHANGED <<dispatch_queue_, has_task_, task_, pc, last_worker_, stopper, history>>
        /\ stop_ # "no" /\ stop_' # "no" /\ stop_ # "destroyed"
    BY Zenon, <1>11 DEF StartJoining, JoinNext, pool
  <2>2. \A w \in Worker : Holds(w)' <=> Holds(w)
    BY ZenonT(60), <2>1 DEF Holds
  <2> QED
    BY Zenon, <2>1, <2>2, StayKeepsDelivery
<1>12. CASE StopReturns
  <2>1. /\ UNCHANGED <<dispatch_queue_, has_task_, task_, pc, stopper, history>>
        /\ stop_ = "joining" /\ stop_' = "returned"
        /\ \A w \in Worker : last_worker_'[w] => (w = stopper')
    BY Zenon, <1>12 DEF StopReturns, pool, Delivery, NullsLast
  <2>2. \A w \in Worker : (Holds(w)' <=> Holds(w)) /\ (Works(w)' <=> Works(w))
    BY ZenonT(60), <2>1 DEF Holds, Works
  <2> QED
    BY <2>1, <2>2 DEF Delivery, OnePlace, NoneLost, NullsLast, history
<1>13. CASE Destroy
  <2>1. /\ UNCHANGED <<has_task_, task_, pc, last_worker_, stopper, history>>
        /\ stop_' = "destroyed" /\ Len(dispatch_queue_') = 0
    BY Zenon, <1>13 DEF Destroy
  <2>2. \A w \in Worker : (Holds(w)' <=> Holds(w)) /\ (Works(w)' <=> Works(w))
    BY Zenon, <2>1 DEF Holds, Works
  <2> QED
    BY <2>1, <2>2 DEF Delivery, OnePlace, NoneLost, NullsLast, history
<1>14. CASE UNCHANGED vars
  <2>1. \A w \in Worker : Holds(w)' <=> Holds(w)
    BY Zenon, <1>14 DEF vars, Holds
  <2> QED
    BY Zenon, <1>14, <2>1, StayKeepsDelivery DEF vars, history
<1> QED
  BY Zenon, <1>1, <1>2, <1>3, <1>4, <1>5, <1>6, <1>7, <1>8, <1>9, <1>10, <1>11, <1>12, <1>13, <1>14
  DEF Next, WorkerStep, StopStep

-----------------------------------------------------------------------------
(* The abstract state, as the refinement mapping gives it. *)
AbsStatus == [t \in Task |-> Status(t)]
AbsStopper == IF stopper = Outside THEN NULL ELSE task_[stopper]

(* What every step knows of the state before it. *)
PoolInv == HandOver /\ JoinInv /\ Delivery

(* The steps that the interface does not show. *)
LEMMA HiddenStep ==
  ASSUME UNCHANGED <<added, started, finished, prior, stopper>>,
         (stop_' = "destroyed") <=> (stop_ = "destroyed"), Phase' = Phase,
         (stopper # Outside) => (task_'[stopper] = task_[stopper])
  PROVE  UNCHANGED Pool!vars
<1>1. \A t \in Task : Status(t)' = Status(t)
  BY Zenon DEF Status
<1>2. AbsStatus' = AbsStatus
  BY Zenon, <1>1 DEF AbsStatus
<1>3. AbsStopper' = AbsStopper
  BY Zenon DEF AbsStopper, Outside
<1> QED
  BY Zenon, <1>2, <1>3 DEF Pool!vars, AbsStatus, AbsStopper

(* addTask is AddTask of the interface when it is given a task. *)
LEMMA AddStep ==
  ASSUME PoolInv, NEW t \in Task, t \notin added, stop_ # "destroyed",
         added' = added \cup {t}, UNCHANGED <<started, finished, prior, stopper, stop_>>,
         (stopper # Outside) => (task_'[stopper] = task_[stopper])
  PROVE  Pool!AddTask(t)
<1>1. t \notin started /\ t \notin finished
  BY Zenon DEF PoolInv, Delivery, OnePlace
<1>2. Status(t) = "new" /\ Status(t)' = "pending"
  BY Zenon, <1>1 DEF Status
<1>3. \A u \in Task : (u # t) => (Status(u)' = Status(u))
  BY Zenon DEF Status
<1>4. AbsStatus' = [AbsStatus EXCEPT ![t] = "pending"]
  BY Zenon, <1>2, <1>3 DEF AbsStatus
<1>5. AbsStopper' = AbsStopper
  BY Zenon DEF AbsStopper, Outside
<1>6. Phase # "destroyed" /\ Phase' = Phase
  BY Zenon DEF Phase, PoolInv, HandOver, TypeOK
<1> QED
  BY Zenon, <1>2, <1>4, <1>5, <1>6 DEF Pool!AddTask, AbsStatus, AbsStopper

(* The mailbox of the thread that called stop() is not written again. *)
LEMMA StopperKeepsTask ==
  ASSUME PoolInv, NEW x \in Task \cup {NULL}, addTaskOrQueue(x), stopper # Outside
  PROVE  task_'[stopper] = task_[stopper]
<1>1. stopper \in Worker /\ pc[stopper] \in {"running", "ended"}
  BY Zenon DEF PoolInv, HandOver, TypeOK, JoinInv
<1>2. CASE workers_ # <<>>
  <2>1. Head(workers_) = workers_[1] /\ 1 \in 1..Len(workers_) /\ Head(workers_) \in Worker
    BY <1>2, TailFact DEF PoolInv, HandOver, TypeOK
  <2>2. Head(workers_) # stopper
    BY Zenon, <1>1, <2>1 DEF PoolInv, HandOver, FreeWorkersAreIdle
  <2> QED
    BY Zenon, <1>1, <1>2, <2>1, <2>2 DEF addTaskOrQueue, assignTask, PoolInv, HandOver, TypeOK
<1>3. CASE workers_ = <<>>
  BY Zenon, <1>3 DEF addTaskOrQueue
<1> QED
  BY Zenon, <1>2, <1>3

LEMMA StartStep ==
  ASSUME PoolInv, NEW w \in Worker, StartTask(w)
  PROVE  \E t \in Task : Pool!Start(t)
<1>0. PICK t : t = task_[w]
  OBVIOUS
<1>1. /\ pc[w] = "got" /\ t # NULL /\ started' = started \cup {t}
      /\ UNCHANGED <<task_, stop_, stopper, added, finished, prior>>
  BY Zenon, <1>0 DEF StartTask, pool, stopping
<1>2. t \in Task /\ t \in added \ started /\ t \notin finished
  BY Zenon, <1>0, <1>1 DEF PoolInv, HandOver, TypeOK, Delivery, OnePlace, Holds
<1>3. stop_ \notin {"returned", "destroyed"}
  BY <1>1 DEF PoolInv, JoinInv, HandOver, TypeOK, Worker, Outside
<1>4. Status(t) = "pending" /\ Status(t)' = "running"
  BY Zenon, <1>1, <1>2, <1>3 DEF Status
<1>5. \A u \in Task : (u # t) => (Status(u)' = Status(u))
  BY Zenon, <1>1 DEF Status
<1>6. AbsStatus' = [AbsStatus EXCEPT ![t] = "running"]
  BY Zenon, <1>2, <1>4, <1>5 DEF AbsStatus
<1>7. AbsStopper' = AbsStopper
  BY Zenon, <1>1 DEF AbsStopper
<1>8. Phase \in {"open", "stopping"} /\ Phase' = Phase
  BY Zenon, <1>1, <1>3 DEF Phase, PoolInv, HandOver, TypeOK
<1>9. Pool!Start(t)
  BY Zenon, <1>1, <1>2, <1>4, <1>6, <1>7, <1>8 DEF Pool!Start, AbsStatus, AbsStopper
<1> QED
  BY Zenon, <1>2, <1>9

LEMMA FinishStep ==
  ASSUME PoolInv, NEW w \in Worker, FinishTask(w)
  PROVE  \E t \in Task : Pool!Finish(t)
<1>0. PICK t : t = task_[w]
  OBVIOUS
<1>1. /\ pc[w] = "running" /\ finished' = finished \cup {t}
      /\ ~(stopper = w /\ stop_ \in {"issuing", "joining"})
      /\ UNCHANGED <<task_, stop_, stopper, added, started, prior>>
  BY Zenon, <1>0 DEF FinishTask, pool, stopping
<1>2. t \in Task /\ t \in added /\ t \in started /\ t \notin finished /\ t # NULL
  BY Zenon, <1>0, <1>1 DEF PoolInv, HandOver, TypeOK, MailboxInv, Delivery, OnePlace
<1>3. Status(t) = "running" /\ Status(t)' = "done"
  BY Zenon, <1>1, <1>2 DEF Status
<1>4. \A u \in Task : (u # t) => (Status(u)' = Status(u))
  BY Zenon, <1>1 DEF Status
<1>5. (Phase = "stopping") => (t # AbsStopper)
  <2> SUFFICES ASSUME stop_ \in {"issuing", "joining"}, stopper # Outside
               PROVE  t # task_[stopper]
    BY Zenon, <1>2 DEF Phase, AbsStopper, PoolInv, HandOver, TypeOK
  <2>1. stopper \in Worker /\ stopper # w /\ Works(stopper) /\ Works(w)
    BY Zenon, <1>1 DEF PoolInv, HandOver, TypeOK, JoinInv, Works
  <2> QED
    BY Zenon, <1>0, <1>2, <2>1 DEF PoolInv, Delivery, OnePlace
<1>6. AbsStatus' = [AbsStatus EXCEPT ![t] = "done"]
  BY Zenon, <1>2, <1>3, <1>4 DEF AbsStatus
<1>7. AbsStopper' = AbsStopper /\ Phase' = Phase
  BY Zenon, <1>1 DEF AbsStopper, Phase
<1>8. Pool!Finish(t)
  BY Zenon, <1>1, <1>2, <1>3, <1>5, <1>6, <1>7 DEF Pool!Finish, AbsStatus, AbsStopper
<1> QED
  BY Zenon, <1>2, <1>8

LEMMA CallStopStep ==
  ASSUME PoolInv, NEW c \in Worker \cup {Outside}, CallStop(c)
  PROVE  \E u \in Task \cup {NULL} : Pool!StopFrom(u)
<1> DEFINE u == IF c = Outside THEN NULL ELSE task_[c]
<1>1. /\ stop_ = "no" /\ stop_' = "issuing" /\ stopper' = c /\ prior' = added
      /\ (c # Outside) => (pc[c] = "running")
      /\ UNCHANGED <<task_, added, started, finished>>
  BY Zenon DEF CallStop, pool
<1>2. u \in Task \cup {NULL} /\ ((u # NULL) => (Status(u) = "running"))
  BY Zenon, <1>1 DEF PoolInv, HandOver, TypeOK, Delivery, OnePlace, Status
<1>3. \A t \in Task : Status(t)' = Status(t)
  BY Zenon, <1>1 DEF Status
<1>4. AbsStatus' = AbsStatus
  BY Zenon, <1>3 DEF AbsStatus
<1>5. AbsStopper' = u
  BY Zenon, <1>1 DEF AbsStopper
<1>6. Phase = "open" /\ Phase' = "stopping"
  BY Zenon, <1>1 DEF Phase
<1>7. prior' = {t \in Task : AbsStatus[t] # "new"}
  <2>1. \A t \in Task : (AbsStatus[t] # "new") <=> (t \in added)
    BY Zenon, <1>1 DEF AbsStatus, Status
  <2> QED
    BY Zenon, <1>1, <2>1 DEF PoolInv, HandOver, TypeOK
<1> HIDE DEF u
<1>8. Pool!StopFrom(u)
  BY Zenon, <1>2, <1>4, <1>5, <1>6, <1>7 DEF Pool!StopFrom, AbsStatus, AbsStopper
<1> QED
  BY Zenon, <1>2, <1>8

(* When every thread has been joined, what was submitted before stop() has *)
(* been served: a worker other than the caller has ended, so it found a     *)
(* NULL, behind which no such submission waits.                             *)
LEMMA StopReturnsStep ==
  ASSUME PoolInv, StopReturns
  PROVE  Pool!StopReturns
<1>1. /\ stop_ = "joining" /\ stop_' = "returned" /\ joined = NumWorkers
      /\ UNCHANGED <<task_, stopper, added, started, finished, prior>>
  BY Zenon DEF StopReturns, pool, history
<1>2. \A w \in Worker : (w # stopper) => (pc[w] = "ended")
  BY Zenon, <1>1, NumWorkersAssumption DEF PoolInv, JoinInv, Worker
<1>3. (stopper # Outside) => (stopper \in Worker /\ pc[stopper] = "running")
  BY Zenon, <1>1 DEF PoolInv, JoinInv, HandOver, TypeOK
<1>4. \A w \in Worker : ~Holds(w)
  <2> SUFFICES ASSUME NEW w \in Worker
               PROVE  ~Holds(w)
    OBVIOUS
  <2>1. pc[w] # "check" /\ pc[w] # "got"
    BY <1>2, <1>3 DEF PoolInv, HandOver, TypeOK, Worker, Outside
  <2>2. ~has_task_[w]
    BY <2>1, Zenon DEF PoolInv, HandOver, MailboxInv
  <2> QED
    BY Zenon, <2>1, <2>2 DEF Holds
<1>5. ASSUME NEW t \in started \ finished
      PROVE  stopper # Outside /\ t = task_[stopper]
  <2>1. PICK w \in Worker : pc[w] = "running" /\ task_[w] = t
    BY Zenon DEF PoolInv, Delivery, NoneLost
  <2> QED
    BY <1>2, <2>1, NumWorkersAssumption DEF Worker, Outside
<1>6. ASSUME NEW t \in Task, Status(t) = "running"
      PROVE  t = AbsStopper
  BY Zenon, <1>5, <1>6 DEF Status, AbsStopper
<1>7. ASSUME AbsStopper = NULL \/ NumWorkers > 1, NEW t \in prior \ {AbsStopper}
      PROVE  Status(t) = "done"
  <2>1. \E w \in Worker : w # stopper
    <3>1. CASE stopper = Outside
      BY <3>1, NumWorkersAssumption DEF Worker, Outside
    <3>2. CASE stopper # Outside
      <4>1. task_[stopper] # NULL
        BY Zenon, <3>2, <1>3 DEF PoolInv, HandOver, MailboxInv
      <4>2. NumWorkers > 1
        BY Zenon, <1>7, <3>2, <4>1 DEF AbsStopper
      <4>3. 1 \in Worker /\ 2 \in Worker
        BY <4>2, NumWorkersAssumption DEF Worker
      <4> QED
        BY <4>3
    <3> QED
      BY Zenon, <3>1, <3>2
  <2>2. \A i \in 1..Len(dispatch_queue_) : dispatch_queue_[i] \notin prior
    BY Zenon, <1>2, <2>1 DEF PoolInv, Delivery, NullsLast
  <2>3. t \in added /\ t \in prior
    BY Zenon DEF PoolInv, Delivery, OnePlace
  <2>4. t \in started
    BY <1>1, <1>4, <2>2, <2>3, Zenon DEF PoolInv, Delivery, NoneLost
  <2>5. t \in finished
    BY Zenon, <1>5, <1>7, <2>4 DEF AbsStopper
  <2> QED
    BY Zenon, <2>3, <2>5 DEF Status
<1>8. \A t \in Task : Status(t)' = Status(t)
  BY Zenon, <1>1 DEF Status
<1>9. AbsStatus' = AbsStatus /\ AbsStopper' = AbsStopper
  BY Zenon, <1>1, <1>8 DEF AbsStatus, AbsStopper
<1>10. Phase = "stopping" /\ Phase' = "stopped"
  BY Zenon, <1>1 DEF Phase
<1>11. prior \subseteq Task
  BY Zenon DEF PoolInv, HandOver, TypeOK
<1>12. /\ \A t \in Task : (AbsStatus[t] = "running") => (t = AbsStopper)
       /\ (AbsStopper = NULL \/ NumWorkers > 1)
            => \A t \in prior \ {AbsStopper} : AbsStatus[t] = "done"
  BY Zenon, <1>6, <1>7, <1>11 DEF AbsStatus
<1> QED
  BY Zenon, <1>1, <1>9, <1>10, <1>12 DEF Pool!StopReturns, AbsStatus, AbsStopper

LEMMA DestroyStep ==
  ASSUME PoolInv, Destroy
  PROVE  Pool!Destroy
<1>1. /\ stop_ = "returned" /\ stop_' = "destroyed"
      /\ UNCHANGED <<task_, stopper, added, started, finished, prior>>
  BY Zenon DEF Destroy, history
<1>2. \A t \in Task : Status(t)' = IF Status(t) = "pending" THEN "dropped" ELSE Status(t)
  BY Zenon, <1>1 DEF Status
<1>3. AbsStatus' = [t \in Task |-> IF AbsStatus[t] = "pending" THEN "dropped" ELSE AbsStatus[t]]
  BY Zenon, <1>2 DEF AbsStatus
<1>4. AbsStopper' = AbsStopper /\ Phase = "stopped" /\ Phase' = "destroyed"
  BY Zenon, <1>1 DEF AbsStopper, Phase
<1> QED
  BY Zenon, <1>1, <1>3, <1>4 DEF Pool!Destroy, AbsStatus, AbsStopper

LEMMA InitPool == Init => Pool!Init
<1> SUFFICES ASSUME Init
             PROVE  Pool!Init
  OBVIOUS
<1>1. \A t \in Task : Status(t) = "new"
  BY Zenon DEF Init, Status
<1>2. [t \in Task |-> Status(t)] = [t \in Task |-> "new"]
  BY Zenon, <1>1
<1>3. Phase = "open"
  BY Zenon DEF Init, Phase
<1> QED
  BY Zenon, <1>2, <1>3 DEF Init, Pool!Init, Outside

(* Every critical section of the pool is one step of the interface, or     *)
(* none.                                                                   *)
LEMMA NextPool == PoolInv /\ [Next]_vars => [Pool!Next]_(Pool!vars)
<1> SUFFICES ASSUME PoolInv, [Next]_vars
             PROVE  Pool!Next \/ UNCHANGED Pool!vars
  OBVIOUS
<1>1. CASE Construct \/ JoinNext
  <2>1. UNCHANGED <<added, started, finished, prior, stopper, stop_, task_>>
    BY Zenon, <1>1 DEF Construct, JoinNext, pool, stopping, history
  <2> QED
    BY Zenon, <2>1, HiddenStep DEF Phase
<1>2. CASE StartJoining
  <2>1. /\ UNCHANGED <<added, started, finished, prior, stopper, task_>>
        /\ stop_ = "issuing" /\ stop_' = "joining"
    BY Zenon, <1>2 DEF StartJoining, pool, history
  <2> QED
    BY Zenon, <2>1, HiddenStep DEF Phase
<1>3. ASSUME NEW t \in Task, AddFromOutside(t) \/ \E w \in Worker : AddFromTask(w, t)
      PROVE  Pool!Next
  <2>1. /\ t \notin added /\ stop_ # "destroyed" /\ added' = added \cup {t}
        /\ addTaskOrQueue(t) /\ UNCHANGED <<started, finished, prior, stopper, stop_>>
    BY Zenon, <1>3 DEF AddFromOutside, AddFromTask, stopping
  <2>2. (stopper # Outside) => (task_'[stopper] = task_[stopper])
    BY Zenon, <2>1, StopperKeepsTask
  <2> QED
    BY Zenon, <2>1, <2>2, AddStep DEF Pool!Next
<1>4. CASE IssueNull
  <2>1. /\ addTaskOrQueue(NULL)
        /\ UNCHANGED <<added, started, finished, prior, stopper, stop_>>
    BY Zenon, <1>4 DEF IssueNull, history
  <2>2. (stopper # Outside) => (task_'[stopper] = task_[stopper])
    BY Zenon, <2>1, StopperKeepsTask
  <2> QED
    BY Zenon, <2>1, <2>2, HiddenStep DEF Phase
<1>5. ASSUME NEW w \in Worker,
             TakeTask(w) \/ Sleep(w) \/ SpuriousWakeup(w) \/ StopWorker(w)
      PROVE  UNCHANGED Pool!vars
  <2>1. UNCHANGED <<added, started, finished, prior, stopper, stop_, task_>>
    BY Zenon, <1>5 DEF TakeTask, Sleep, SpuriousWakeup, StopWorker, pool, stopping, history
  <2> QED
    BY Zenon, <2>1, HiddenStep DEF Phase
<1>6. ASSUME NEW w \in Worker, queueWorker(w)
      PROVE  UNCHANGED Pool!vars
  <2>1. /\ UNCHANGED <<added, started, finished, prior, stopper, stop_>>
        /\ pc[w] = "queueing"
        /\ task_' = task_ \/ task_' = [task_ EXCEPT ![w] = Head(dispatch_queue_)]
    BY Zenon, <1>6 DEF queueWorker, assignTask, stopping, history
  <2>2. (stopper # Outside) => (stopper \in Worker /\ stopper # w)
    BY Zenon, <2>1 DEF PoolInv, HandOver, TypeOK, JoinInv
  <2>3. (stopper # Outside) => (task_'[stopper] = task_[stopper])
    BY Zenon, <2>1, <2>2 DEF PoolInv, HandOver, TypeOK
  <2> QED
    BY Zenon, <2>1, <2>3, HiddenStep DEF Phase
<1>7. ASSUME NEW w \in Worker, StartTask(w) \/ FinishTask(w)
      PROVE  Pool!Next
  BY Zenon, <1>7, StartStep, FinishStep DEF Pool!Next
<1>8. ASSUME NEW c \in Worker \cup {Outside}, CallStop(c)
      PROVE  Pool!Next
  BY Zenon, <1>8, CallStopStep DEF Pool!Next
<1>9. CASE StopReturns
  BY Zenon, <1>9, StopReturnsStep DEF Pool!Next
<1>10. CASE Destroy
  BY Zenon, <1>10, DestroyStep DEF Pool!Next
<1>11. CASE UNCHANGED vars
  BY Zenon, <1>11, HiddenStep DEF vars, Phase
<1> QED
  BY Zenon, <1>1, <1>2, <1>3, <1>4, <1>5, <1>6, <1>7, <1>8, <1>9, <1>10, <1>11
  DEF Next, WorkerStep, StopStep

(* ImplementsThreadPool, for any number of workers and submissions: the    *)
(* users of the pool see what thread_pool.hpp promises, and stop() returns *)
(* only after what was submitted before it was served (unless it is called *)
(* by the only worker).                                                    *)
THEOREM FastImplementsThreadPool == Spec => ImplementsThreadPool
<1>1. Init => PoolInv
  BY Zenon, InitHandOver, InitJoinInv, InitDelivery DEF PoolInv
<1>2. PoolInv /\ [Next]_vars => PoolInv'
  BY Zenon, NextHandOver, NextJoinInv, NextDelivery DEF PoolInv
<1> QED
  BY <1>1, <1>2, InitPool, NextPool, PTL DEF Spec, ImplementsThreadPool, Pool!Spec
=============================================================================
