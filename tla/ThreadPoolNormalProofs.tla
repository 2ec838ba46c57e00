----------------------- MODULE ThreadPoolNormalProofs ------------------------
(***************************************************************************)
(* ThreadPoolNormal for any number of workers and of tasks: one signal per *)
(* task is enough.                                                         *)
(***************************************************************************)
EXTENDS ThreadPoolNormal, FiniteSetTheorems, TLAPS

PcType == {"unborn", "check", "asleep", "got", "running", "ended"}

(* The workers on their way to the queue. *)
Awake == {w \in Worker : pc[w] = "check"}

(* EnoughAwake is inductive once the types are known. *)
AwakeInv ==
    /\ pc \in [Worker -> PcType]
    /\ dispatch_queue_ \in Seq(Task \cup {NULL})
    /\ built \in Nat
    /\ EnoughAwake

LEMMA AwakeFinite == IsFiniteSet(Awake) /\ Cardinality(Awake) \in Nat
  <1>1. IsFiniteSet(Worker)
    BY NumWorkersAssumption, FS_Interval DEF Worker
  <1>2. Awake \in SUBSET Worker
    BY Zenon DEF Awake
  <1> QED
    BY Zenon, <1>1, <1>2, FS_Subset, FS_CardinalityType

(* One worker more, or one less, is on its way. *)
LEMMA OneMore ==
  ASSUME pc \in [Worker -> PcType], NEW w \in Worker, pc[w] # "check",
         pc' = [pc EXCEPT ![w] = "check"]
  PROVE  Cardinality(Awake') = Cardinality(Awake) + 1
  <1>1. Awake' = Awake \cup {w} /\ w \notin Awake
    BY Zenon DEF Awake
  <1> QED
    BY Zenon, <1>1, AwakeFinite, FS_AddElement

LEMMA OneLess ==
  ASSUME pc \in [Worker -> PcType], NEW w \in Worker, pc[w] = "check",
         NEW label, label # "check", pc' = [pc EXCEPT ![w] = label]
  PROVE  Cardinality(Awake') = Cardinality(Awake) - 1
  <1>1. Awake' = Awake \ {w} /\ w \in Awake
    BY Zenon DEF Awake
  <1> QED
    BY Zenon, <1>1, AwakeFinite, FS_RemoveElement

LEMMA AwakeInit == Init => AwakeInv
  BY DEF Init, AwakeInv, PcType, EnoughAwake, Asleep

(* A worker that is woken, or that comes back, makes no worker sleep. *)
LEMMA WakeOne ==
  ASSUME pc \in [Worker -> PcType], NEW w \in Worker, pc' = [pc EXCEPT ![w] = "check"]
  PROVE  /\ pc' \in [Worker -> PcType]
         /\ (Asleep' # {}) => (Asleep # {})
         /\ (pc[w] = "check") => Cardinality(Awake') = Cardinality(Awake)
         /\ (pc[w] # "check") => Cardinality(Awake') = Cardinality(Awake) + 1
  <1>1. pc' \in [Worker -> PcType]
    BY Zenon DEF PcType
  <1>2. (Asleep' # {}) => (Asleep # {})
    BY Zenon DEF Asleep
  <1>3. CASE pc[w] = "check"
    <2>1. pc' = pc
      BY Zenon, <1>3
    <2> QED
      BY Zenon, <1>1, <1>2, <1>3, <2>1 DEF Awake
  <1>4. CASE pc[w] # "check"
    BY Zenon, <1>1, <1>2, <1>4, OneMore
  <1> QED
    BY Zenon, <1>3, <1>4

LEMMA AwakeNext == AwakeInv /\ [Next]_vars => AwakeInv'
  <1> SUFFICES ASSUME AwakeInv, [Next]_vars PROVE AwakeInv'
    OBVIOUS
  <1>0. /\ pc \in [Worker -> PcType]
        /\ dispatch_queue_ \in Seq(Task \cup {NULL})
        /\ built \in Nat
        /\ (Asleep # {}) => Cardinality(Awake) >= Len(dispatch_queue_)
        /\ Cardinality(Awake) \in Nat
        /\ Len(dispatch_queue_) \in Nat
    BY AwakeFinite DEF AwakeInv, EnoughAwake, Awake
  <1>a. ASSUME pc' \in [Worker -> PcType],
               dispatch_queue_' \in Seq(Task \cup {NULL}),
               built' \in Nat,
               (Asleep' # {}) => Cardinality(Awake') >= Len(dispatch_queue_')
        PROVE  AwakeInv'
    BY Zenon, <1>a DEF AwakeInv, EnoughAwake, Awake
  <1>1. CASE Construct
    <2>1. /\ built + 1 \in Worker
          /\ pc' = [pc EXCEPT ![built + 1] = "check"]
          /\ built' \in Nat
          /\ dispatch_queue_' = dispatch_queue_
      BY <1>0, <1>1, NumWorkersAssumption DEF Construct, Worker
    <2>2. /\ pc' \in [Worker -> PcType]
          /\ (Asleep' # {}) => (Asleep # {})
          /\ Cardinality(Awake') \in {Cardinality(Awake), Cardinality(Awake) + 1}
      BY Zenon, <1>0, <2>1, WakeOne
    <2> QED
      BY <1>0, <1>a, <2>1, <2>2
  <1>2. ASSUME NEW c \in Worker \cup {Outside}, NEW t \in Task, AddTask(c, t) PROVE AwakeInv'
    <2>1. /\ dispatch_queue_' \in Seq(Task \cup {NULL})
          /\ Len(dispatch_queue_') = Len(dispatch_queue_) + 1
          /\ built' \in Nat
      BY <1>0, <1>2 DEF AddTask
    <2>2. CASE Asleep = {}
      BY Zenon, <1>0, <1>2, <1>a, <2>1, <2>2 DEF AddTask, Signal, Asleep
    <2>3. CASE Asleep # {}
      <3>1. PICK w \in Asleep : pc' = [pc EXCEPT ![w] = "check"]
        BY Zenon, <1>2, <2>3 DEF AddTask, Signal
      <3>2. w \in Worker /\ pc[w] # "check"
        BY Zenon, <3>1 DEF Asleep
      <3>3. pc' \in [Worker -> PcType] /\ Cardinality(Awake') = Cardinality(Awake) + 1
        BY Zenon, <1>0, <3>1, <3>2, WakeOne
      <3> QED
        BY <1>0, <1>a, <2>1, <2>3, <3>3
    <2> QED
      BY Zenon, <2>2, <2>3
  <1>3. ASSUME NEW w \in Worker, Sleep(w) PROVE AwakeInv'
    <2>1. /\ pc' \in [Worker -> PcType]
          /\ dispatch_queue_' = dispatch_queue_
          /\ Len(dispatch_queue_) = 0
          /\ built' = built
      BY Zenon, <1>0, <1>3 DEF Sleep, PcType
    <2>2. Cardinality(Awake') = Cardinality(Awake) - 1 /\ Cardinality(Awake) \in Nat
      BY Zenon, <1>0, <1>3, OneLess DEF Sleep
    <2>3. Cardinality(Awake) # 0
      <3>1. w \in Awake /\ IsFiniteSet(Awake)
        BY Zenon, <1>3, AwakeFinite DEF Sleep, Awake
      <3> QED
        BY Zenon, <3>1, FS_EmptySet
    <2> QED
      BY <1>0, <1>a, <2>1, <2>2, <2>3
  <1>4. ASSUME NEW w \in Worker, SpuriousWakeup(w) PROVE AwakeInv'
    <2>1. pc' = [pc EXCEPT ![w] = "check"] /\ UNCHANGED <<built, dispatch_queue_>>
      BY Zenon, <1>4 DEF SpuriousWakeup
    <2>2. /\ pc' \in [Worker -> PcType]
          /\ (Asleep' # {}) => (Asleep # {})
          /\ Cardinality(Awake') \in {Cardinality(Awake), Cardinality(Awake) + 1}
      BY Zenon, <1>0, <2>1, WakeOne
    <2> QED
      BY <1>0, <1>a, <2>1, <2>2
  <1>5. ASSUME NEW w \in Worker, TakeTask(w) PROVE AwakeInv'
    <2>1. /\ pc' \in [Worker -> PcType]
          /\ built' = built
          /\ (Asleep' # {}) => (Asleep # {})
      BY Zenon, <1>0, <1>5 DEF TakeTask, PcType, Asleep
    <2>2. /\ dispatch_queue_' \in Seq(Task \cup {NULL})
          /\ Len(dispatch_queue_') = Len(dispatch_queue_) - 1
      BY <1>0, <1>5 DEF TakeTask
    <2>3. Cardinality(Awake') = Cardinality(Awake) - 1
      BY Zenon, <1>0, <1>5, OneLess DEF TakeTask
    <2> QED
      BY <1>0, <1>a, <2>1, <2>2, <2>3
  <1>6. ASSUME NEW w \in Worker, StopWorker(w) \/ StartTask(w) PROVE AwakeInv'
    <2>1. /\ pc' \in [Worker -> PcType]
          /\ UNCHANGED <<built, dispatch_queue_>>
          /\ Asleep' = Asleep
          /\ Awake' = Awake
      BY Zenon, <1>0, <1>6 DEF StopWorker, StartTask, PcType, Asleep, Awake
    <2> QED
      BY Zenon, <1>0, <1>a, <2>1
  <1>7. ASSUME NEW w \in Worker, FinishTask(w) PROVE AwakeInv'
    <2>1. CASE last_worker_[w]
      <3>1. /\ pc' \in [Worker -> PcType]
            /\ UNCHANGED <<built, dispatch_queue_>>
            /\ Asleep' = Asleep
            /\ Awake' = Awake
        BY Zenon, <1>0, <1>7, <2>1 DEF FinishTask, Free, PcType, Asleep, Awake
      <3> QED
        BY Zenon, <1>0, <1>a, <3>1
    <2>2. CASE ~ last_worker_[w]
      <3>1. pc' = [pc EXCEPT ![w] = "check"] /\ UNCHANGED <<built, dispatch_queue_>>
        BY Zenon, <1>7, <2>2 DEF FinishTask
      <3>2. /\ pc' \in [Worker -> PcType]
            /\ (Asleep' # {}) => (Asleep # {})
            /\ Cardinality(Awake') \in {Cardinality(Awake), Cardinality(Awake) + 1}
        BY Zenon, <1>0, <3>1, WakeOne
      <3> QED
        BY <1>0, <1>a, <3>1, <3>2
    <2> QED
      BY Zenon, <2>1, <2>2
  <1>8. ASSUME NEW c \in Worker \cup {Outside}, CallStop(c) PROVE AwakeInv'
    <2>1. Nulls \in Seq(Task \cup {NULL})
      BY NumWorkersAssumption DEF Nulls
    <2>2. /\ pc' \in [Worker -> PcType]
          /\ dispatch_queue_' \in Seq(Task \cup {NULL})
          /\ built' = built
          /\ Asleep' = {}
      BY <1>0, <1>8, <2>1 DEF CallStop, SignalAll, PcType, Asleep
    <2> QED
      BY Zenon, <1>0, <1>a, <2>2
  <1>9. CASE StopStep
    BY Zenon, <1>9 DEF StopStep, JoinNext, StopReturns, AwakeInv, EnoughAwake, Asleep
  <1>10. CASE Destroy
    <2>1. /\ pc' = pc /\ built' = built
          /\ dispatch_queue_' \in Seq(Task \cup {NULL})
          /\ Len(dispatch_queue_') = 0
          /\ Awake' = Awake
      BY <1>10 DEF Destroy, Awake
    <2> QED
      BY <1>0, <1>a, <2>1
  <1>11. CASE UNCHANGED vars
    BY Zenon, <1>11 DEF vars, AwakeInv, EnoughAwake, Asleep
  <1> QED
    BY Zenon, <1>1, <1>2, <1>3, <1>4, <1>5, <1>6, <1>7, <1>8, <1>9, <1>10, <1>11
    DEF Next, WorkerStep

(* addTask() signals one worker per task and stop() signals all: for any   *)
(* number of workers and tasks, a worker sleeps only while enough others   *)
(* are on their way to the queue for what is in it.                        *)
THEOREM AwakeTheorem == Spec => []EnoughAwake
  <1>1. AwakeInv => EnoughAwake
    BY Zenon DEF AwakeInv
  <1> QED
    BY <1>1, AwakeInit, AwakeNext, PTL DEF Spec

-----------------------------------------------------------------------------
(* The refinement of ThreadPool *)

StateType ==
    /\ dispatch_queue_ \in Seq(Task \cup {NULL})
    /\ task \in [Worker -> Task \cup {NULL}]
    /\ last_worker_ \in [Worker -> BOOLEAN]
    /\ pc \in [Worker -> PcType]
    /\ built \in 0..NumWorkers
    /\ stop_ \in {"no", "joining", "returned", "destroyed"}
    /\ stopper \in Worker \cup {Outside}
    /\ joined \in 0..NumWorkers
    /\ added \in SUBSET Task /\ started \in SUBSET added
    /\ finished \in SUBSET started /\ prior \in SUBSET added

(* What the constructor and the join loop of stop() know of the threads.   *)
JoinInv ==
    /\ \A w \in Worker : (pc[w] = "unborn") <=> (w > built)
    /\ (joined > 0) => (stop_ # "no")
    /\ \A w \in 1..joined : (w # stopper) => (pc[w] = "ended")
    /\ \A w \in Worker : last_worker_[w] => (w = stopper /\ stop_ \in {"returned", "destroyed"})
    /\ (stopper # Outside) =>
         /\ stop_ # "no"
         /\ (stop_ = "joining") => (pc[stopper] = "running")
         /\ (stop_ \in {"returned", "destroyed"}) =>
              last_worker_[stopper] /\ pc[stopper] \in {"running", "ended"}
    /\ (stop_ \in {"returned", "destroyed"}) => (joined = NumWorkers)

(* A submission is at one place at most: in the queue, or in the hands of  *)
(* one worker.                                                             *)
Works(w) == pc[w] \in {"got", "running"}

OnePlace ==
    /\ \A i \in 1..Len(dispatch_queue_) :
         dispatch_queue_[i] = NULL \/ dispatch_queue_[i] \in added \ started
    /\ \A i, j \in 1..Len(dispatch_queue_) :
         (dispatch_queue_[i] = dispatch_queue_[j]) => (i = j \/ dispatch_queue_[i] = NULL)
    /\ \A w \in Worker : (pc[w] = "got") =>
         \/ task[w] = NULL
         \/ /\ task[w] \in added \ started
            /\ \A i \in 1..Len(dispatch_queue_) : dispatch_queue_[i] # task[w]
    /\ \A w \in Worker : (pc[w] = "running") => (task[w] \in started \ finished)
    /\ \A v, w \in Worker : (Works(v) /\ Works(w) /\ task[v] = task[w])
                              => (v = w \/ task[v] = NULL)

(* A submission is at one place at least. *)
NoneLost ==
    /\ \A t \in added \ started :
         \/ stop_ = "destroyed"
         \/ \E i \in 1..Len(dispatch_queue_) : dispatch_queue_[i] = t
         \/ \E w \in Worker : pc[w] = "got" /\ task[w] = t
    /\ \A t \in started \ finished : \E w \in Worker : pc[w] = "running" /\ task[w] = t

(* The NULLs of stop() are behind the submissions that are older than it:  *)
(* a worker that takes one leaves none of those in the queue.              *)
NullsLast ==
    /\ (stop_ = "no") =>
         /\ prior = {}
         /\ \A i \in 1..Len(dispatch_queue_) : dispatch_queue_[i] # NULL
         /\ \A w \in Worker : pc[w] # "ended" /\ ((pc[w] = "got") => task[w] # NULL)
    /\ \A i, j \in 1..Len(dispatch_queue_) :
         (i < j /\ dispatch_queue_[j] \in prior) => (dispatch_queue_[i] # NULL)
    /\ \A w \in Worker :
         (pc[w] = "got" /\ task[w] = NULL) \/ (pc[w] = "ended" /\ w # stopper)
           => \A i \in 1..Len(dispatch_queue_) : dispatch_queue_[i] \notin prior

Delivery == OnePlace /\ NoneLost /\ NullsLast
PoolInv == StateType /\ JoinInv /\ Delivery

(* No worker takes, starts, finishes or ends anything. *)
SameWork == \A w \in Worker : \A l \in {"got", "running", "ended", "unborn"} :
                (pc'[w] = l) <=> (pc[w] = l)

(* signal() and signalAll() only move sleepers. *)
LEMMA SignalFact ==
  ASSUME pc \in [Worker -> PcType], Signal \/ SignalAll
  PROVE  pc' \in [Worker -> PcType] /\ SameWork
<1>1. CASE SignalAll
  BY Zenon, <1>1 DEF SignalAll, Asleep, SameWork, PcType
<1>2. CASE Signal
  BY Zenon, <1>2 DEF Signal, Asleep, SameWork, PcType
<1> QED
  BY Zenon, <1>1, <1>2

(* The types and the join loop. *)
LEMMA NextJoin == PoolInv /\ [Next]_vars => StateType' /\ JoinInv'
<1> SUFFICES ASSUME PoolInv, [Next]_vars
             PROVE  StateType' /\ JoinInv'
  OBVIOUS
<1> USE NumWorkersAssumption, TaskAssumption DEF PoolInv
<1>s. ASSUME SameWork, pc' \in [Worker -> PcType], UNCHANGED <<built, stopping, last_worker_>>
      PROVE  JoinInv'
  BY <1>s DEF SameWork, stopping, StateType, JoinInv, Worker, Outside
<1>1. CASE Construct
  <2>1. built + 1 \in Worker /\ pc' = [pc EXCEPT ![built + 1] = "check"] /\ built' = built + 1
          /\ pc[built + 1] = "unborn" /\ built' \in 0..NumWorkers
    BY <1>1 DEF Construct, StateType, JoinInv, Worker
  <2>2. StateType'
    BY Zenon, <1>1, <2>1 DEF Construct, StateType, PcType, stopping, history
  <2>3. UNCHANGED <<stop_, stopper, joined, last_worker_>>
    BY Zenon, <1>1 DEF Construct, stopping
  <2>4. \A w \in Worker : pc'[w] = IF w = built + 1 THEN "check" ELSE pc[w]
    BY Zenon, <2>1 DEF StateType
  <2> QED
    BY <2>1, <2>2, <2>3, <2>4 DEF StateType, JoinInv, Worker, Outside
<1>2. ASSUME NEW c \in Worker \cup {Outside}, NEW t \in Task, AddTask(c, t)
      PROVE  StateType' /\ JoinInv'
  <2>1. pc' \in [Worker -> PcType] /\ SameWork
    BY Zenon, <1>2, SignalFact DEF AddTask, StateType
  <2>2. StateType'
    BY <1>2, <2>1 DEF AddTask, StateType, stopping
  <2> QED
    BY Zenon, <1>2, <1>s, <2>1, <2>2 DEF AddTask
<1>3. ASSUME NEW w \in Worker, Sleep(w) \/ SpuriousWakeup(w)
      PROVE  StateType' /\ JoinInv'
  <2>1. StateType' /\ SameWork /\ UNCHANGED <<built, stopping, last_worker_>>
    BY Zenon, <1>3 DEF Sleep, SpuriousWakeup, StateType, PcType, SameWork, stopping, history
  <2> QED
    BY Zenon, <1>s, <2>1 DEF StateType
<1>4. ASSUME NEW w \in Worker, NEW l \in {"got", "running", "ended"},
             pc[w] \in {"check", "got"}, pc' = [pc EXCEPT ![w] = l],
             UNCHANGED <<built, stop_, stopper, joined, last_worker_>>
      PROVE  JoinInv'
  <2>1. w # stopper \/ stopper = Outside
    BY Zenon, <1>4 DEF StateType, JoinInv
  <2>2. \A v \in Worker : pc'[v] = IF v = w THEN l ELSE pc[v]
    BY Zenon, <1>4 DEF StateType
  <2> QED
    BY <1>4, <2>1, <2>2 DEF StateType, JoinInv, Worker, Outside
<1>5. ASSUME NEW w \in Worker, TakeTask(w)
      PROVE  StateType' /\ JoinInv'
  <2>1. Head(dispatch_queue_) \in Task \cup {NULL}
          /\ Tail(dispatch_queue_) \in Seq(Task \cup {NULL})
    BY <1>5 DEF TakeTask, StateType
  <2>2. StateType'
    BY Zenon, <1>5, <2>1 DEF TakeTask, StateType, PcType, stopping, history
  <2> QED
    BY Zenon, <1>4, <1>5, <2>2 DEF TakeTask, stopping
<1>6. ASSUME NEW w \in Worker, StopWorker(w)
      PROVE  StateType' /\ JoinInv'
  <2>1. StateType'
    BY Zenon, <1>6 DEF StopWorker, StateType, PcType, stopping, history
  <2> QED
    BY Zenon, <1>4, <1>6, <2>1 DEF StopWorker, stopping
<1>7. ASSUME NEW w \in Worker, StartTask(w)
      PROVE  StateType' /\ JoinInv'
  <2>1. task[w] \in added
    BY Zenon, <1>7 DEF StartTask, Delivery, OnePlace
  <2>2. StateType'
    BY Zenon, <1>7, <2>1 DEF StartTask, StateType, PcType, stopping
  <2> QED
    BY Zenon, <1>4, <1>7, <2>2 DEF StartTask, stopping
<1>8. ASSUME NEW w \in Worker, FinishTask(w)
      PROVE  StateType' /\ JoinInv'
  <2>1. pc[w] = "running" /\ task[w] \in started /\ ~(stopper = w /\ stop_ = "joining")
    BY Zenon, <1>8 DEF FinishTask, Free, Delivery, OnePlace
  <2>2. StateType'
    BY Zenon, <1>8, <2>1 DEF FinishTask, StateType, PcType, stopping
  <2>3. \A v \in Worker : pc'[v] = IF v = w THEN IF last_worker_[w] THEN "ended" ELSE "check"
                                   ELSE pc[v]
    BY Zenon, <1>8 DEF FinishTask, StateType
  <2>4. UNCHANGED <<built, stop_, stopper, joined, last_worker_>>
    BY Zenon, <1>8 DEF FinishTask, stopping
  <2>5. (stopper = w) => (last_worker_[w] /\ pc'[w] = "ended" /\ stop_ # "joining")
    BY <2>1, <2>3 DEF StateType, JoinInv, Worker, Outside
  <2> QED
    BY <2>1, <2>2, <2>3, <2>4, <2>5 DEF StateType, JoinInv, Worker, Outside
<1>9. ASSUME NEW c \in Worker \cup {Outside}, CallStop(c)
      PROVE  StateType' /\ JoinInv'
  <2>1. Nulls \in Seq(Task \cup {NULL})
    BY DEF Nulls
  <2>2. pc' \in [Worker -> PcType] /\ SameWork
    BY Zenon, <1>9, SignalFact DEF CallStop, StateType
  <2>3. StateType'
    BY <1>9, <2>1, <2>2 DEF CallStop, StateType
  <2>4. /\ joined = 0 /\ joined' = 0 /\ built' = built /\ stop_' = "joining" /\ stopper' = c
        /\ last_worker_' = last_worker_ /\ \A w \in Worker : ~last_worker_[w]
        /\ (c # Outside) => (pc[c] = "running")
    BY <1>9 DEF CallStop, StateType, JoinInv
  <2> QED
    BY <2>2, <2>3, <2>4 DEF SameWork, StateType, JoinInv, Worker, Outside
<1>10. CASE JoinNext
  BY <1>10 DEF JoinNext, StateType, JoinInv, history, Worker
<1>11. CASE StopReturns
  <2>1. last_worker_' \in [Worker -> BOOLEAN]
    BY <1>11, Zenon DEF StopReturns
  <2>2. \A w \in Worker : last_worker_'[w] <=> (w = stopper)
    BY Zenon, <1>11 DEF StopReturns, JoinInv
  <2>3. /\ stop_ = "joining" /\ stop_' = "returned" /\ joined = NumWorkers
        /\ UNCHANGED <<dispatch_queue_, task, pc, built, stopper, joined, history>>
    BY Zenon, <1>11 DEF StopReturns
  <2> QED
    BY Zenon, <2>1, <2>2, <2>3 DEF StateType, JoinInv, history
<1>12. CASE Destroy
  BY <1>12 DEF Destroy, StateType, JoinInv, history
<1>13. CASE UNCHANGED vars
  BY Zenon, <1>13 DEF vars, StateType, JoinInv
<1> QED
  BY Zenon, <1>1, <1>2, <1>3, <1>5, <1>6, <1>7, <1>8, <1>9, <1>10, <1>11, <1>12, <1>13
  DEF Next, WorkerStep, StopStep

(* The steps that leave every submission where it is. *)
LEMMA StayKeepsDelivery ==
  ASSUME Delivery, SameWork, UNCHANGED <<dispatch_queue_, task, stopper, history>>,
         (stop_' = "no") <=> (stop_ = "no"),
         (stop_ = "destroyed") => (stop_' = "destroyed")
  PROVE  Delivery'
<1>1. \A w \in Worker : /\ Works(w)' <=> Works(w)
                        /\ (pc'[w] = "got") <=> (pc[w] = "got")
                        /\ (pc'[w] = "running") <=> (pc[w] = "running")
                        /\ (pc'[w] = "ended") <=> (pc[w] = "ended")
  BY Zenon DEF Works, SameWork
<1>2. OnePlace'
  BY ZenonT(60), <1>1 DEF Delivery, OnePlace, history
<1>3. NoneLost'
  BY <1>1 DEF Delivery, NoneLost, history
<1>4. NullsLast'
  BY Zenon, <1>1 DEF Delivery, NullsLast, history
<1> QED
  BY Zenon, <1>2, <1>3, <1>4 DEF Delivery

LEMMA AddKeepsDelivery ==
  ASSUME PoolInv, NEW c \in Worker \cup {Outside}, NEW x \in Task, AddTask(c, x)
  PROVE  Delivery'
<1> DEFINE n == Len(dispatch_queue_)
<1>0. /\ UNCHANGED <<task, stopper, stop_, started, finished, prior>>
      /\ x \notin added /\ added' = added \cup {x}
  BY Zenon DEF AddTask, stopping
<1>1. /\ n \in Nat
      /\ Len(dispatch_queue_') = n + 1
      /\ dispatch_queue_'[n + 1] = x
      /\ \A i \in 1..n : dispatch_queue_'[i] = dispatch_queue_[i]
  BY DEF AddTask, PoolInv, StateType
<1>2. \A i \in 1..(n + 1) : i = n + 1 \/ i \in 1..n
  BY <1>1
<1>3. SameWork
  BY Zenon, SignalFact DEF AddTask, PoolInv, StateType
<1>4. \A w \in Worker : /\ Works(w)' <=> Works(w)
                        /\ (pc'[w] = "got") <=> (pc[w] = "got")
                        /\ (pc'[w] = "running") <=> (pc[w] = "running")
                        /\ (pc'[w] = "ended") <=> (pc[w] = "ended")
  BY Zenon, <1>3 DEF Works, SameWork
<1>5. x \notin prior /\ x # NULL /\ x \notin started
  BY Zenon, <1>0, TaskAssumption DEF PoolInv, StateType
<1> HIDE DEF n
<1>6. OnePlace'
  <2>1. /\ \A w \in Worker : (pc'[w] = "running") => (task'[w] \in started' \ finished')
        /\ \A v, w \in Worker : (Works(v)' /\ Works(w)' /\ task'[v] = task'[w])
                              => (v = w \/ task'[v] = NULL)
    BY Zenon, <1>0, <1>4 DEF PoolInv, Delivery, OnePlace
  <2>2. \A i \in 1..(n + 1) :
         dispatch_queue_'[i] = NULL \/ dispatch_queue_'[i] \in added' \ started'
    BY Zenon, <1>0, <1>1, <1>2, <1>5 DEF PoolInv, Delivery, OnePlace, n
  <2>3. \A i \in 1..n : dispatch_queue_[i] # x
    BY <1>0, <1>5 DEF PoolInv, Delivery, OnePlace, n
  <2>4. \A i, j \in 1..(n + 1) :
         (dispatch_queue_'[i] = dispatch_queue_'[j]) => (i = j \/ dispatch_queue_'[i] = NULL)
    BY <1>1, <1>2, <2>3 DEF PoolInv, Delivery, OnePlace, n
  <2>5. \A w \in Worker : (pc'[w] = "got") =>
         \/ task'[w] = NULL
         \/ /\ task'[w] \in added' \ started'
            /\ \A i \in 1..(n + 1) : dispatch_queue_'[i] # task'[w]
    BY <1>0, <1>1, <1>2, <1>4 DEF PoolInv, Delivery, OnePlace, n
  <2> QED
    BY Zenon, <1>1, <2>1, <2>2, <2>4, <2>5 DEF OnePlace
<1>7. NoneLost'
  <2>1. ASSUME NEW t \in added' \ started'
        PROVE  \/ stop_' = "destroyed"
               \/ \E i \in 1..(n + 1) : dispatch_queue_'[i] = t
               \/ \E w \in Worker : pc'[w] = "got" /\ task'[w] = t
    <3>1. CASE t = x
      <4>1. n + 1 \in 1..(n + 1) /\ dispatch_queue_'[n + 1] = t
        BY <3>1, <1>1
      <4> QED
        BY <4>1, Zenon
    <3>2. CASE t # x
      <4>1. t \in added \ started
        BY Zenon, <2>1, <3>2, <1>0
      <4>2. CASE \E i \in 1..n : dispatch_queue_[i] = t
        <5>1. PICK i \in 1..n : dispatch_queue_[i] = t
          BY Zenon, <4>2
        <5>2. i \in 1..(n + 1) /\ dispatch_queue_'[i] = t
          BY <5>1, <1>1
        <5> QED
          BY <5>2, Zenon
      <4>3. CASE ~\E i \in 1..n : dispatch_queue_[i] = t
        BY <4>1, <4>3, <1>0, <1>4 DEF PoolInv, Delivery, NoneLost, n
      <4> QED
        BY <4>2, <4>3, Zenon
    <3> QED
      BY <3>1, <3>2, Zenon
  <2>2. \A t \in started' \ finished' : \E w \in Worker : pc'[w] = "running" /\ task'[w] = t
    BY Zenon, <1>0, <1>4 DEF PoolInv, Delivery, NoneLost
  <2> QED
    BY Zenon, <1>1, <2>1, <2>2 DEF NoneLost
<1>8. NullsLast'
  <2>1. (stop_' = "no") =>
         /\ prior' = {}
         /\ \A i \in 1..(n + 1) : dispatch_queue_'[i] # NULL
         /\ \A w \in Worker : pc'[w] # "ended" /\ ((pc'[w] = "got") => task'[w] # NULL)
    BY Zenon, <1>0, <1>1, <1>2, <1>4, <1>5 DEF PoolInv, Delivery, NullsLast, n
  <2>2. \A i, j \in 1..(n + 1) :
         (i < j /\ dispatch_queue_'[j] \in prior') => (dispatch_queue_'[i] # NULL)
    BY Zenon, <1>0, <1>1, <1>2, <1>5 DEF PoolInv, Delivery, NullsLast, n
  <2>3. \A w \in Worker :
         (pc'[w] = "got" /\ task'[w] = NULL) \/ (pc'[w] = "ended" /\ w # stopper')
           => \A i \in 1..(n + 1) : dispatch_queue_'[i] \notin prior'
    BY Zenon, <1>0, <1>1, <1>2, <1>4, <1>5 DEF PoolInv, Delivery, NullsLast, n
  <2> QED
    BY Zenon, <1>1, <2>1, <2>2, <2>3 DEF NullsLast
<1> QED
  BY Zenon, <1>6, <1>7, <1>8 DEF Delivery

LEMMA TakeKeepsDelivery ==
  ASSUME PoolInv, NEW h \in Worker, TakeTask(h)
  PROVE  Delivery'
<1> DEFINE x == Head(dispatch_queue_)
           n == Len(dispatch_queue_)
<1>0. /\ UNCHANGED <<stopper, stop_, added, started, finished, prior>>
      /\ pc[h] = "check" /\ pc' = [pc EXCEPT ![h] = "got"]
      /\ task' = [task EXCEPT ![h] = x]
  BY Zenon DEF TakeTask, stopping, history
<1>1. /\ n \in Nat /\ n > 0 /\ x = dispatch_queue_[1] /\ 1 \in 1..n
      /\ Len(dispatch_queue_') = n - 1
      /\ \A i \in 1..(n - 1) : i + 1 \in 1..n /\ dispatch_queue_'[i] = dispatch_queue_[i + 1]
  BY DEF TakeTask, PoolInv, StateType
<1>2. ~Works(h)
  BY Zenon, <1>0 DEF Works
<1>3. \A w \in Worker : /\ (pc'[w] = "got") <=> (w = h \/ pc[w] = "got")
                        /\ Works(w)' <=> (w = h \/ Works(w))
                        /\ (pc'[w] = "running") <=> (pc[w] = "running")
                        /\ (pc'[w] = "ended") <=> (pc[w] = "ended")
                        /\ task'[w] = IF w = h THEN x ELSE task[w]
  BY Zenon, <1>0 DEF Works, PoolInv, StateType
<1> HIDE DEF n, x
<1>4. OnePlace'
  <2>1. \A w \in Worker : (Works(w) /\ w # h) => (task[w] # x \/ x = NULL)
    <3> SUFFICES ASSUME NEW w \in Worker, Works(w), x # NULL
                 PROVE  task[w] # x
      OBVIOUS
    <3>1. x \in added \ started
      BY Zenon, <1>1 DEF PoolInv, Delivery, OnePlace, n
    <3>2. CASE pc[w] = "got"
      BY Zenon, <3>2, <1>1 DEF PoolInv, Delivery, OnePlace, n
    <3>3. CASE pc[w] = "running"
      BY Zenon, <3>1, <3>3 DEF PoolInv, Delivery, OnePlace
    <3> QED
      BY Zenon, <3>2, <3>3 DEF Works
  <2>2. \A i \in 1..(n - 1) : dispatch_queue_'[i] # x \/ x = NULL
    BY <1>1 DEF PoolInv, Delivery, OnePlace, n
  <2>3. \A w \in Worker : (pc'[w] = "running") => (task'[w] \in started' \ finished')
    BY Zenon, <1>0, <1>3 DEF PoolInv, Delivery, OnePlace
  <2>4. \A v, w \in Worker : (Works(v)' /\ Works(w)' /\ task'[v] = task'[w])
                              => (v = w \/ task'[v] = NULL)
    BY <1>3, <2>1 DEF PoolInv, Delivery, OnePlace
  <2>5. /\ \A i \in 1..(n - 1) :
             dispatch_queue_'[i] = NULL \/ dispatch_queue_'[i] \in added' \ started'
        /\ \A i, j \in 1..(n - 1) :
            (dispatch_queue_'[i] = dispatch_queue_'[j]) => (i = j \/ dispatch_queue_'[i] = NULL)
    BY SMTT(30), <1>0, <1>1 DEF PoolInv, Delivery, OnePlace, n
  <2>6. ASSUME NEW w \in Worker, pc'[w] = "got", task'[w] # NULL
        PROVE  /\ task'[w] \in added' \ started'
               /\ \A i \in 1..(n - 1) : dispatch_queue_'[i] # task'[w]
    <3>1. CASE w = h
      BY <3>1, <1>0, <1>1, <1>3, <2>2, <2>6 DEF PoolInv, Delivery, OnePlace, n
    <3>2. CASE w # h
      BY <3>2, <1>0, <1>1, <1>3, <2>6 DEF PoolInv, Delivery, OnePlace, n
    <3> QED
      BY Zenon, <3>1, <3>2
  <2> QED
    BY Zenon, <1>1, <2>3, <2>4, <2>5, <2>6 DEF OnePlace
<1>5. NoneLost'
  <2>1. ASSUME NEW t \in added' \ started', stop_ # "destroyed"
        PROVE  \/ \E i \in 1..(n - 1) : dispatch_queue_'[i] = t
               \/ \E w \in Worker : pc'[w] = "got" /\ task'[w] = t
    <3>1. CASE t = x
      BY Zenon, <3>1, <1>3
    <3>2. CASE t # x /\ \E i \in 1..n : dispatch_queue_[i] = t
      <4>1. PICK i \in 1..n : dispatch_queue_[i] = t
        BY Zenon, <3>2
      <4>2. i - 1 \in 1..(n - 1) /\ (i - 1) + 1 = i
        BY <3>2, <4>1, <1>1
      <4>3. dispatch_queue_'[i - 1] = t
        BY Zenon, <4>1, <4>2, <1>1
      <4> QED
        BY Zenon, <4>2, <4>3
    <3>3. CASE \E w \in Worker : pc[w] = "got" /\ task[w] = t
      <4>1. PICK w \in Worker : pc[w] = "got" /\ task[w] = t
        BY Zenon, <3>3
      <4>2. w # h
        BY Zenon, <4>1, <1>0
      <4> QED
        BY Zenon, <4>1, <4>2, <1>3
    <3>4. \/ \E i \in 1..n : dispatch_queue_[i] = t
          \/ \E w \in Worker : pc[w] = "got" /\ task[w] = t
      BY <2>1, <1>0, Zenon DEF PoolInv, Delivery, NoneLost, n
    <3> QED
      BY <3>1, <3>2, <3>3, <3>4, Zenon
  <2>2. ASSUME NEW t \in started' \ finished'
        PROVE  \E w \in Worker : pc'[w] = "running" /\ task'[w] = t
    <3>1. PICK w \in Worker : pc[w] = "running" /\ task[w] = t
      BY Zenon, <1>0 DEF PoolInv, Delivery, NoneLost
    <3>2. w # h
      BY Zenon, <3>1, <1>0
    <3> QED
      BY Zenon, <3>1, <3>2, <1>3
  <2> QED
    BY <1>0, <1>1, <2>1, <2>2 DEF NoneLost
<1>6. NullsLast'
  <2>1. (stop_' = "no") =>
         /\ prior' = {}
         /\ \A i \in 1..(n - 1) : dispatch_queue_'[i] # NULL
         /\ \A w \in Worker : pc'[w] # "ended" /\ ((pc'[w] = "got") => task'[w] # NULL)
    BY <1>0, <1>1, <1>3 DEF PoolInv, Delivery, NullsLast, n
  <2>2. ASSUME NEW i \in 1..(n - 1), NEW j \in 1..(n - 1), i < j, dispatch_queue_'[j] \in prior'
        PROVE  dispatch_queue_'[i] # NULL
    <3>1. /\ i + 1 \in 1..n /\ j + 1 \in 1..n /\ i + 1 < j + 1
          /\ dispatch_queue_'[i] = dispatch_queue_[i + 1]
          /\ dispatch_queue_[j + 1] \in prior
      BY <1>0, <1>1, <2>2
    <3> QED
      BY Zenon, <3>1 DEF PoolInv, Delivery, NullsLast, n
  <2>3. ASSUME NEW w \in Worker,
               (pc'[w] = "got" /\ task'[w] = NULL) \/ (pc'[w] = "ended" /\ w # stopper'),
               NEW i \in 1..(n - 1)
        PROVE  dispatch_queue_'[i] \notin prior'
    <3>1. i + 1 \in 1..n /\ dispatch_queue_'[i] = dispatch_queue_[i + 1] /\ prior' = prior
            /\ 1 \in 1..n /\ 1 < i + 1
      BY <1>0, <1>1
    <3>2. CASE w = h
      <4>1. x = NULL
        BY Zenon, <3>2, <2>3, <1>0, <1>3
      <4> QED
        BY Zenon, <4>1, <3>1, <1>1 DEF PoolInv, Delivery, NullsLast, n
    <3>3. CASE w # h
      BY <3>1, <3>3, <2>3, <1>0, <1>3 DEF PoolInv, Delivery, NullsLast, n
    <3> QED
      BY Zenon, <3>2, <3>3
  <2> QED
    BY Zenon, <1>1, <2>1, <2>2, <2>3 DEF NullsLast
<1> QED
  BY Zenon, <1>4, <1>5, <1>6 DEF Delivery

LEMMA StartKeepsDelivery ==
  ASSUME PoolInv, NEW h \in Worker, StartTask(h)
  PROVE  Delivery'
<1> DEFINE x == task[h]
<1>1. /\ pc[h] = "got" /\ x # NULL /\ x \in added \ started
      /\ pc' = [pc EXCEPT ![h] = "running"] /\ started' = started \cup {x}
      /\ UNCHANGED <<dispatch_queue_, task, stop_, stopper, added, finished, prior>>
  BY Zenon DEF StartTask, stopping, PoolInv, Delivery, OnePlace
<1>2. \A w \in Worker : /\ (pc'[w] = "got") <=> (w # h /\ pc[w] = "got")
                        /\ Works(w)' <=> Works(w)
                        /\ (pc'[w] = "running") <=> (w = h \/ pc[w] = "running")
                        /\ (pc'[w] = "ended") <=> (pc[w] = "ended")
  BY Zenon, <1>1 DEF Works, PoolInv, StateType
<1>3. OnePlace'
  <2>1. \A w \in Worker : (Works(w) /\ w # h) => (task[w] # x)
    BY Zenon, <1>1 DEF PoolInv, Delivery, OnePlace, Works
  <2>2. \A i \in 1..Len(dispatch_queue_) : dispatch_queue_[i] # x
    BY Zenon, <1>1 DEF PoolInv, Delivery, OnePlace
  <2>3. \A v, w \in Worker : (Works(v)' /\ Works(w)' /\ task'[v] = task'[w])
                              => (v = w \/ task'[v] = NULL)
    BY Zenon, <1>1, <1>2 DEF PoolInv, Delivery, OnePlace
  <2>4. /\ \A i \in 1..Len(dispatch_queue_') :
             dispatch_queue_'[i] = NULL \/ dispatch_queue_'[i] \in added' \ started'
        /\ \A i, j \in 1..Len(dispatch_queue_') :
            (dispatch_queue_'[i] = dispatch_queue_'[j]) => (i = j \/ dispatch_queue_'[i] = NULL)
    BY Zenon, <1>1, <2>2 DEF PoolInv, Delivery, OnePlace
  <2>5. \A w \in Worker : (pc'[w] = "running") => (task'[w] \in started' \ finished')
    BY Zenon, <1>1, <1>2 DEF PoolInv, StateType, Delivery, OnePlace
  <2>6. ASSUME NEW w \in Worker, pc'[w] = "got", task'[w] # NULL
        PROVE  /\ task'[w] \in added' \ started'
               /\ \A i \in 1..Len(dispatch_queue_') : dispatch_queue_'[i] # task'[w]
    BY Zenon, <1>1, <1>2, <2>1, <2>6 DEF PoolInv, Delivery, OnePlace, Works
  <2> QED
    BY Zenon, <2>3, <2>4, <2>5, <2>6 DEF OnePlace
<1>4. NoneLost'
  <2>1. ASSUME NEW t \in added' \ started', stop_ # "destroyed"
        PROVE  \/ \E i \in 1..Len(dispatch_queue_') : dispatch_queue_'[i] = t
               \/ \E w \in Worker : pc'[w] = "got" /\ task'[w] = t
    <3>1. t \in added \ started /\ t # x
      BY Zenon, <1>1, <2>1
    <3>2. CASE \E i \in 1..Len(dispatch_queue_) : dispatch_queue_[i] = t
      BY Zenon, <3>2, <1>1
    <3>3. CASE \E w \in Worker : pc[w] = "got" /\ task[w] = t
      <4>1. PICK w \in Worker : pc[w] = "got" /\ task[w] = t
        BY Zenon, <3>3
      <4>2. w # h
        BY Zenon, <3>1, <4>1
      <4> QED
        BY Zenon, <4>1, <4>2, <1>1, <1>2
    <3> QED
      BY <2>1, <3>1, <3>2, <3>3, Zenon DEF PoolInv, Delivery, NoneLost
  <2>2. ASSUME NEW t \in started' \ finished'
        PROVE  \E w \in Worker : pc'[w] = "running" /\ task'[w] = t
    <3>1. CASE t = x
      BY Zenon, <3>1, <1>1, <1>2
    <3>2. CASE t # x
      <4>1. PICK w \in Worker : pc[w] = "running" /\ task[w] = t
        BY Zenon, <1>1, <2>2, <3>2 DEF PoolInv, Delivery, NoneLost
      <4> QED
        BY Zenon, <4>1, <1>1, <1>2
    <3> QED
      BY Zenon, <3>1, <3>2
  <2> QED
    BY Zenon, <1>1, <2>1, <2>2 DEF NoneLost
<1>5. NullsLast'
  BY Zenon, <1>1, <1>2 DEF PoolInv, Delivery, NullsLast
<1> QED
  BY Zenon, <1>3, <1>4, <1>5 DEF Delivery

LEMMA FinishKeepsDelivery ==
  ASSUME PoolInv, NEW h \in Worker, FinishTask(h)
  PROVE  Delivery'
<1> DEFINE x == task[h]
<1>1. /\ pc[h] = "running" /\ x \in started
      /\ pc' = [pc EXCEPT ![h] = IF last_worker_[h] THEN "ended" ELSE "check"]
      /\ finished' = finished \cup {x}
      /\ UNCHANGED <<dispatch_queue_, task, stop_, stopper, added, started, prior>>
  BY Zenon DEF FinishTask, Free, stopping, PoolInv, Delivery, OnePlace
<1>2. \A w \in Worker : /\ (pc'[w] = "got") <=> (pc[w] = "got")
                        /\ Works(w)' <=> (w # h /\ Works(w))
                        /\ (pc'[w] = "running") <=> (w # h /\ pc[w] = "running")
                        /\ (pc'[w] = "ended") => (pc[w] = "ended" \/ (w = h /\ last_worker_[w]))
  BY Zenon, <1>1 DEF Works, PoolInv, StateType
<1>3. x # NULL
  BY Zenon, <1>1, TaskAssumption DEF PoolInv, StateType
<1>4. OnePlace'
  <2>1. \A w \in Worker : (Works(w) /\ w # h) => (task[w] # x)
    BY Zenon, <1>1, <1>3 DEF PoolInv, Delivery, OnePlace, Works
  <2>2. \A w \in Worker : (pc'[w] = "running") => (task'[w] \in started' \ finished')
    BY Zenon, <1>1, <1>2, <2>1 DEF PoolInv, Delivery, OnePlace, Works
  <2> QED
    BY <1>1, <1>2, <2>2 DEF PoolInv, Delivery, OnePlace
<1>5. NoneLost'
  <2>1. ASSUME NEW t \in started' \ finished'
        PROVE  \E w \in Worker : pc'[w] = "running" /\ task'[w] = t
    <3>1. t # x /\ t \in started \ finished
      BY Zenon, <1>1, <2>1
    <3>2. PICK w \in Worker : pc[w] = "running" /\ task[w] = t
      BY Zenon, <3>1 DEF PoolInv, Delivery, NoneLost
    <3> QED
      BY Zenon, <3>1, <3>2, <1>1, <1>2
  <2> QED
    BY <1>1, <1>2, <2>1 DEF PoolInv, Delivery, NoneLost
<1>6. NullsLast'
  <2>1. last_worker_[h] => (h = stopper /\ stop_ # "no")
    BY Zenon DEF PoolInv, JoinInv
  <2> QED
    BY Zenon, <1>1, <1>2, <2>1 DEF PoolInv, Delivery, NullsLast
<1> QED
  BY Zenon, <1>4, <1>5, <1>6 DEF Delivery

(* What appending a sequence makes. *)
LEMMA ConcatFact ==
  ASSUME NEW S, NEW s \in Seq(S), NEW t \in Seq(S)
  PROVE  /\ Len(s) \in Nat
         /\ Len(s \o t) = Len(s) + Len(t)
         /\ \A i \in 1..Len(s) : (s \o t)[i] = s[i]
         /\ \A i \in (Len(s) + 1)..(Len(s) + Len(t)) : (s \o t)[i] = t[i - Len(s)]
  OBVIOUS

(* stop() puts its NULLs behind everything. *)
LEMMA StopKeepsDelivery ==
  ASSUME PoolInv, NEW c \in Worker \cup {Outside}, CallStop(c)
  PROVE  Delivery'
<1> DEFINE n == Len(dispatch_queue_)
<1>0. /\ UNCHANGED <<task, added, started, finished>>
      /\ stop_ = "no" /\ stop_' = "joining" /\ prior' = added /\ stopper' = c
      /\ stopper = Outside
  BY Zenon DEF CallStop, PoolInv, JoinInv
<1>1. /\ n \in Nat
      /\ Len(dispatch_queue_') = n + NumWorkers
      /\ \A i \in 1..n : dispatch_queue_'[i] = dispatch_queue_[i]
      /\ \A i \in (n + 1)..(n + NumWorkers) : dispatch_queue_'[i] = NULL
  <2>1. Nulls \in Seq({NULL}) /\ Len(Nulls) = NumWorkers
    BY NumWorkersAssumption DEF Nulls
  <2>2. dispatch_queue_ \in Seq(Task \cup {NULL}) /\ dispatch_queue_' = dispatch_queue_ \o Nulls
    BY Zenon DEF CallStop, PoolInv, StateType
  <2>3. \A i \in 1..NumWorkers : Nulls[i] = NULL
    BY Zenon DEF Nulls
  <2>4. Nulls \in Seq(Task \cup {NULL})
    BY NumWorkersAssumption DEF Nulls
  <2>5. /\ n \in Nat
        /\ Len(dispatch_queue_') = n + NumWorkers
        /\ \A i \in 1..n : dispatch_queue_'[i] = dispatch_queue_[i]
        /\ \A i \in (n + 1)..(n + NumWorkers) : dispatch_queue_'[i] = Nulls[i - n]
    BY <2>1, <2>2, <2>4, ConcatFact, Zenon
  <2>6. \A i \in (n + 1)..(n + NumWorkers) : i - n \in 1..NumWorkers
    BY <2>5, NumWorkersAssumption
  <2> QED
    BY Zenon, <2>3, <2>5, <2>6
<1>2. \A i \in 1..(n + NumWorkers) : i \in 1..n \/ i \in (n + 1)..(n + NumWorkers)
  BY <1>1, NumWorkersAssumption
<1>3. SameWork
  BY Zenon, SignalFact DEF CallStop, PoolInv, StateType
<1>4. \A w \in Worker : /\ Works(w)' <=> Works(w)
                        /\ (pc'[w] = "got") <=> (pc[w] = "got")
                        /\ (pc'[w] = "running") <=> (pc[w] = "running")
                        /\ (pc'[w] = "ended") <=> (pc[w] = "ended")
  BY Zenon, <1>3 DEF Works, SameWork
<1>5. \A i \in 1..n : i \in 1..(n + NumWorkers)
  BY <1>1, NumWorkersAssumption
<1>6. NULL \notin added
  BY Zenon, TaskAssumption DEF PoolInv, StateType
<1> HIDE DEF n
<1>7. OnePlace'
  <2>1. /\ \A w \in Worker : (pc'[w] = "running") => (task'[w] \in started' \ finished')
        /\ \A v, w \in Worker : (Works(v)' /\ Works(w)' /\ task'[v] = task'[w])
                              => (v = w \/ task'[v] = NULL)
    BY Zenon, <1>0, <1>4 DEF PoolInv, Delivery, OnePlace
  <2>2. \A i \in 1..(n + NumWorkers) :
         dispatch_queue_'[i] = NULL \/ dispatch_queue_'[i] \in added' \ started'
    BY Zenon, <1>0, <1>1, <1>2 DEF PoolInv, Delivery, OnePlace, n
  <2>3. \A i, j \in 1..(n + NumWorkers) :
         (dispatch_queue_'[i] = dispatch_queue_'[j]) => (i = j \/ dispatch_queue_'[i] = NULL)
    BY <1>1, <1>2 DEF PoolInv, Delivery, OnePlace, n
  <2>4. \A w \in Worker : (pc'[w] = "got") =>
         \/ task'[w] = NULL
         \/ /\ task'[w] \in added' \ started'
            /\ \A i \in 1..(n + NumWorkers) : dispatch_queue_'[i] # task'[w]
    BY <1>0, <1>1, <1>2, <1>4, <1>6 DEF PoolInv, Delivery, OnePlace, n
  <2> QED
    BY Zenon, <1>1, <2>1, <2>2, <2>3, <2>4 DEF OnePlace
<1>8. NoneLost'
  <2>1. ASSUME NEW t \in added' \ started'
        PROVE  \/ \E i \in 1..(n + NumWorkers) : dispatch_queue_'[i] = t
               \/ \E w \in Worker : pc'[w] = "got" /\ task'[w] = t
    <3>1. CASE \E i \in 1..n : dispatch_queue_[i] = t
      <4>1. PICK i \in 1..n : dispatch_queue_[i] = t
        BY Zenon, <3>1
      <4>2. i \in 1..(n + NumWorkers) /\ dispatch_queue_'[i] = t
        BY Zenon, <4>1, <1>1, <1>5
      <4> QED
        BY <4>2, Zenon
    <3>2. CASE ~\E i \in 1..n : dispatch_queue_[i] = t
      BY <3>2, <1>0, <1>4 DEF PoolInv, Delivery, NoneLost, n
    <3> QED
      BY <3>1, <3>2, Zenon
  <2>2. \A t \in started' \ finished' : \E w \in Worker : pc'[w] = "running" /\ task'[w] = t
    BY Zenon, <1>0, <1>4 DEF PoolInv, Delivery, NoneLost
  <2> QED
    BY Zenon, <1>1, <2>1, <2>2 DEF NoneLost
<1>9. NullsLast'
  <2>1. ASSUME NEW i \in 1..(n + NumWorkers), NEW j \in 1..(n + NumWorkers), i < j,
               dispatch_queue_'[j] \in prior'
        PROVE  dispatch_queue_'[i] # NULL
    <3>1. j \in 1..n
      BY Zenon, <2>1, <1>0, <1>1, <1>2, <1>6
    <3>2. i \in 1..n
      BY <3>1, <2>1, <1>1
    <3> QED
      BY Zenon, <3>2, <1>0, <1>1 DEF PoolInv, Delivery, NullsLast, n
  <2>2. \A w \in Worker :
         ~((pc'[w] = "got" /\ task'[w] = NULL) \/ (pc'[w] = "ended" /\ w # stopper'))
    BY Zenon, <1>0, <1>4 DEF PoolInv, Delivery, NullsLast
  <2>3. stop_' # "no"
    BY Zenon, <1>0
  <2> QED
    BY Zenon, <1>1, <2>1, <2>2, <2>3 DEF NullsLast
<1> QED
  BY Zenon, <1>7, <1>8, <1>9 DEF Delivery

LEMMA NextDelivery == PoolInv /\ [Next]_vars => Delivery'
<1> SUFFICES ASSUME PoolInv, [Next]_vars
             PROVE  Delivery'
  OBVIOUS
<1>1. CASE Construct
  <2>1. built + 1 \in Worker /\ pc[built + 1] = "unborn"
    BY <1>1, NumWorkersAssumption DEF Construct, PoolInv, StateType, JoinInv, Worker
  <2>2. \A w \in Worker : pc'[w] = IF w = built + 1 THEN "check" ELSE pc[w]
    BY Zenon, <1>1, <2>1 DEF Construct, PoolInv, StateType
  <2>3. \A w \in Worker : /\ Works(w)' <=> Works(w)
                          /\ (pc'[w] = "got") <=> (pc[w] = "got")
                          /\ (pc'[w] = "running") <=> (pc[w] = "running")
                          /\ (pc'[w] = "ended") <=> (pc[w] = "ended")
    BY Zenon, <2>1, <2>2 DEF Works
  <2>4. UNCHANGED <<dispatch_queue_, task, stop_, stopper, added, started, finished, prior>>
    BY Zenon, <1>1 DEF Construct, stopping, history
  <2>5. OnePlace'
    BY <2>3, <2>4 DEF PoolInv, Delivery, OnePlace
  <2>6. NoneLost' /\ NullsLast'
    BY <2>3, <2>4 DEF PoolInv, Delivery, NoneLost, NullsLast
  <2> QED
    BY Zenon, <2>5, <2>6 DEF Delivery
<1>2. ASSUME NEW c \in Worker \cup {Outside}, NEW t \in Task, AddTask(c, t)
      PROVE  Delivery'
  BY Zenon, <1>2, AddKeepsDelivery
<1>3. ASSUME NEW w \in Worker, Sleep(w) \/ SpuriousWakeup(w)
      PROVE  Delivery'
  <2>1. SameWork /\ UNCHANGED <<dispatch_queue_, task, stop_, stopper, history>>
    BY Zenon, <1>3 DEF Sleep, SpuriousWakeup, SameWork, stopping, PoolInv, StateType
  <2> QED
    BY Zenon, <2>1, StayKeepsDelivery DEF PoolInv
<1>4. ASSUME NEW w \in Worker, TakeTask(w)
      PROVE  Delivery'
  BY Zenon, <1>4, TakeKeepsDelivery
<1>5. ASSUME NEW w \in Worker, StopWorker(w)
      PROVE  Delivery'
  <2>1. /\ pc[w] = "got" /\ task[w] = NULL /\ stop_ # "no"
        /\ UNCHANGED <<dispatch_queue_, task, stop_, stopper, added, started, finished, prior>>
    BY Zenon, <1>5 DEF StopWorker, stopping, history, PoolInv, Delivery, NullsLast
  <2>2. \A v \in Worker : /\ (pc'[v] = "got") <=> (v # w /\ pc[v] = "got")
                          /\ (pc'[v] = "running") <=> (pc[v] = "running")
                          /\ (pc'[v] = "ended") => (v = w \/ pc[v] = "ended")
                          /\ Works(v)' => Works(v)
    BY Zenon, <1>5 DEF StopWorker, Works, PoolInv, StateType
  <2>3. OnePlace'
    BY <2>1, <2>2 DEF PoolInv, Delivery, OnePlace
  <2>4. NoneLost'
    <3>1. ASSUME NEW t \in added' \ started'
          PROVE  \/ stop_' = "destroyed"
                 \/ \E i \in 1..Len(dispatch_queue_') : dispatch_queue_'[i] = t
                 \/ \E v \in Worker : pc'[v] = "got" /\ task'[v] = t
      <4>1. t \in added \ started /\ t # NULL
        BY Zenon, <2>1, <3>1, TaskAssumption DEF PoolInv, StateType
      <4>2. \A v \in Worker : (pc[v] = "got" /\ task[v] = t) => pc'[v] = "got"
        BY Zenon, <4>1, <2>1, <2>2
      <4> QED
        BY <4>1, <4>2, <2>1, ZenonT(60) DEF PoolInv, Delivery, NoneLost
    <3>2. \A t \in started' \ finished' : \E v \in Worker : pc'[v] = "running" /\ task'[v] = t
      BY <2>1, <2>2 DEF PoolInv, Delivery, NoneLost
    <3> QED
      BY Zenon, <3>1, <3>2 DEF NoneLost
  <2>5. NullsLast'
    BY Zenon, <2>1, <2>2 DEF PoolInv, Delivery, NullsLast
  <2> QED
    BY Zenon, <2>3, <2>4, <2>5 DEF Delivery
<1>6. ASSUME NEW w \in Worker, StartTask(w) \/ FinishTask(w)
      PROVE  Delivery'
  BY Zenon, <1>6, StartKeepsDelivery, FinishKeepsDelivery
<1>7. ASSUME NEW c \in Worker \cup {Outside}, CallStop(c)
      PROVE  Delivery'
  BY Zenon, <1>7, StopKeepsDelivery
<1>8. CASE JoinNext \/ StopReturns
  <2>1. /\ UNCHANGED <<dispatch_queue_, task, pc, stopper, history>>
        /\ stop_ = "joining" /\ stop_' # "no"
    BY Zenon, <1>8 DEF JoinNext, StopReturns
  <2>2. SameWork
    BY Zenon, <2>1 DEF SameWork
  <2> QED
    BY Zenon, <2>1, <2>2, StayKeepsDelivery DEF PoolInv
<1>9. CASE Destroy
  <2>1. /\ UNCHANGED <<task, pc, stopper, added, started, finished, prior>>
        /\ stop_' = "destroyed" /\ Len(dispatch_queue_') = 0
    BY Zenon, <1>9 DEF Destroy, history
  <2>2. \A w \in Worker : Works(w)' <=> Works(w)
    BY Zenon, <2>1 DEF Works
  <2> QED
    BY <2>1, <2>2 DEF PoolInv, Delivery, OnePlace, NoneLost, NullsLast
<1>10. CASE UNCHANGED vars
  <2>1. SameWork
    BY Zenon, <1>10 DEF vars, SameWork
  <2> QED
    BY Zenon, <1>10, <2>1, StayKeepsDelivery DEF vars, history, PoolInv
<1> QED
  BY Zenon, <1>1, <1>2, <1>3, <1>4, <1>5, <1>6, <1>7, <1>8, <1>9, <1>10
  DEF Next, WorkerStep, StopStep

-----------------------------------------------------------------------------
(* The abstract state, as the refinement mapping gives it. *)
AbsStatus == [t \in Task |-> Status(t)]
AbsStopper == IF stopper = Outside THEN NULL ELSE task[stopper]

(* The steps that the interface does not show. *)
LEMMA HiddenStep ==
  ASSUME UNCHANGED <<added, started, finished, prior, stopper>>,
         (stop_' = "destroyed") <=> (stop_ = "destroyed"), Phase' = Phase,
         (stopper # Outside) => (task'[stopper] = task[stopper])
  PROVE  UNCHANGED Pool!vars
<1>1. \A t \in Task : Status(t)' = Status(t)
  BY Zenon DEF Status
<1>2. AbsStatus' = AbsStatus
  BY Zenon, <1>1 DEF AbsStatus
<1>3. AbsStopper' = AbsStopper
  BY Zenon DEF AbsStopper, Outside
<1> QED
  BY Zenon, <1>2, <1>3 DEF Pool!vars, AbsStatus, AbsStopper

(* addTask is AddTask of the interface when it is given a task. *)
LEMMA AddStep ==
  ASSUME PoolInv, NEW t \in Task, t \notin added, stop_ # "destroyed",
         added' = added \cup {t}, UNCHANGED <<started, finished, prior, stopper, stop_>>,
         (stopper # Outside) => (task'[stopper] = task[stopper])
  PROVE  Pool!AddTask(t)
<1>1. t \notin started /\ t \notin finished
  BY Zenon DEF PoolInv, StateType
<1>2. Status(t) = "new" /\ Status(t)' = "pending"
  BY Zenon, <1>1 DEF Status
<1>3. \A u \in Task : (u # t) => (Status(u)' = Status(u))
  BY Zenon DEF Status
<1>4. AbsStatus' = [AbsStatus EXCEPT ![t] = "pending"]
  BY Zenon, <1>2, <1>3 DEF AbsStatus
<1>5. AbsStopper' = AbsStopper
  BY Zenon DEF AbsStopper, Outside
<1>6. Phase # "destroyed" /\ Phase' = Phase
  BY Zenon DEF Phase, PoolInv, StateType
<1> QED
  BY Zenon, <1>2, <1>4, <1>5, <1>6 DEF Pool!AddTask, AbsStatus, AbsStopper

LEMMA StartStep ==
  ASSUME PoolInv, NEW w \in Worker, StartTask(w)
  PROVE  \E t \in Task : Pool!Start(t)
<1>0. PICK t : t = task[w]
  OBVIOUS
<1>1. /\ pc[w] = "got" /\ t # NULL /\ started' = started \cup {t}
      /\ UNCHANGED <<task, stop_, stopper, added, finished, prior>>
  BY Zenon, <1>0 DEF StartTask, stopping
<1>2. t \in Task /\ t \in added \ started /\ t \notin finished
  BY Zenon, <1>0, <1>1 DEF PoolInv, StateType, Delivery, OnePlace
<1>3. stop_ \notin {"returned", "destroyed"}
  BY <1>1 DEF PoolInv, JoinInv, StateType, Worker, Outside
<1>4. Status(t) = "pending" /\ Status(t)' = "running"
  BY Zenon, <1>1, <1>2, <1>3 DEF Status
<1>5. \A u \in Task : (u # t) => (Status(u)' = Status(u))
  BY Zenon, <1>1 DEF Status
<1>6. AbsStatus' = [AbsStatus EXCEPT ![t] = "running"]
  BY Zenon, <1>2, <1>4, <1>5 DEF AbsStatus
<1>7. AbsStopper' = AbsStopper
  BY Zenon, <1>1 DEF AbsStopper
<1>8. Phase \in {"open", "stopping"} /\ Phase' = Phase
  BY Zenon, <1>1, <1>3 DEF Phase, PoolInv, StateType
<1>9. Pool!Start(t)
  BY Zenon, <1>1, <1>2, <1>4, <1>6, <1>7, <1>8 DEF Pool!Start, AbsStatus, AbsStopper
<1> QED
  BY Zenon, <1>2, <1>9

LEMMA FinishStep ==
  ASSUME PoolInv, NEW w \in Worker, FinishTask(w)
  PROVE  \E t \in Task : Pool!Finish(t)
<1>0. PICK t : t = task[w]
  OBVIOUS
<1>1. /\ pc[w] = "running" /\ finished' = finished \cup {t}
      /\ ~(stopper = w /\ stop_ = "joining")
      /\ UNCHANGED <<task, stop_, stopper, added, started, prior>>
  BY Zenon, <1>0 DEF FinishTask, Free, stopping
<1>2. t \in Task /\ t \in added /\ t \in started /\ t \notin finished /\ t # NULL
  BY <1>0, <1>1, TaskAssumption DEF PoolInv, StateType, Delivery, OnePlace
<1>3. Status(t) = "running" /\ Status(t)' = "done"
  BY Zenon, <1>1, <1>2 DEF Status
<1>4. \A u \in Task : (u # t) => (Status(u)' = Status(u))
  BY Zenon, <1>1 DEF Status
<1>5. (Phase = "stopping") => (t # AbsStopper)
  <2> SUFFICES ASSUME stop_ = "joining", stopper # Outside
               PROVE  t # task[stopper]
    BY Zenon, <1>2 DEF Phase, AbsStopper, PoolInv, StateType
  <2>1. stopper \in Worker /\ stopper # w /\ Works(stopper) /\ Works(w)
    BY Zenon, <1>1 DEF PoolInv, StateType, JoinInv, Works
  <2> QED
    BY Zenon, <1>0, <1>2, <2>1 DEF PoolInv, Delivery, OnePlace
<1>6. AbsStatus' = [AbsStatus EXCEPT ![t] = "done"]
  BY Zenon, <1>2, <1>3, <1>4 DEF AbsStatus
<1>7. AbsStopper' = AbsStopper /\ Phase' = Phase
  BY Zenon, <1>1 DEF AbsStopper, Phase
<1>8. Pool!Finish(t)
  BY Zenon, <1>1, <1>2, <1>3, <1>5, <1>6, <1>7 DEF Pool!Finish, AbsStatus, AbsStopper
<1> QED
  BY Zenon, <1>2, <1>8

LEMMA CallStopStep ==
  ASSUME PoolInv, NEW c \in Worker \cup {Outside}, CallStop(c)
  PROVE  \E u \in Task \cup {NULL} : Pool!StopFrom(u)
<1> DEFINE u == IF c = Outside THEN NULL ELSE task[c]
<1>1. /\ stop_ = "no" /\ stop_' = "joining" /\ stopper' = c /\ prior' = added
      /\ (c # Outside) => (pc[c] = "running")
      /\ UNCHANGED <<task, added, started, finished>>
  BY Zenon DEF CallStop
<1>2. u \in Task \cup {NULL} /\ ((u # NULL) => (Status(u) = "running"))
  BY Zenon, <1>1 DEF PoolInv, StateType, Delivery, OnePlace, Status
<1>3. \A t \in Task : Status(t)' = Status(t)
  BY Zenon, <1>1 DEF Status
<1>4. AbsStatus' = AbsStatus
  BY Zenon, <1>3 DEF AbsStatus
<1>5. AbsStopper' = u
  BY Zenon, <1>1 DEF AbsStopper
<1>6. Phase = "open" /\ Phase' = "stopping"
  BY Zenon, <1>1 DEF Phase
<1>7. prior' = {t \in Task : AbsStatus[t] # "new"}
  <2>1. \A t \in Task : (AbsStatus[t] # "new") <=> (t \in added)
    BY Zenon, <1>1 DEF AbsStatus, Status
  <2> QED
    BY Zenon, <1>1, <2>1 DEF PoolInv, StateType
<1> HIDE DEF u
<1>8. Pool!StopFrom(u)
  BY Zenon, <1>2, <1>4, <1>5, <1>6, <1>7 DEF Pool!StopFrom, AbsStatus, AbsStopper
<1> QED
  BY Zenon, <1>2, <1>8

(* When every thread has been joined, what was submitted before stop() has *)
(* been served: a worker other than the caller has ended, so it found a     *)
(* NULL, behind which no such submission waits.                             *)
LEMMA StopReturnsStep ==
  ASSUME PoolInv, StopReturns
  PROVE  Pool!StopReturns
<1>1. /\ stop_ = "joining" /\ stop_' = "returned" /\ joined = NumWorkers
      /\ UNCHANGED <<task, stopper, added, started, finished, prior>>
  BY Zenon DEF StopReturns, history
<1>2. \A w \in Worker : (w # stopper) => (pc[w] = "ended")
  BY Zenon, <1>1, NumWorkersAssumption DEF PoolInv, JoinInv, Worker
<1>3. (stopper # Outside) => (stopper \in Worker /\ pc[stopper] = "running")
  BY Zenon, <1>1 DEF PoolInv, JoinInv, StateType
<1>4. \A w \in Worker : pc[w] # "got"
  BY <1>2, <1>3 DEF PoolInv, StateType, Worker, Outside
<1>5. ASSUME NEW t \in started \ finished
      PROVE  stopper # Outside /\ t = task[stopper]
  <2>1. PICK w \in Worker : pc[w] = "running" /\ task[w] = t
    BY Zenon DEF PoolInv, Delivery, NoneLost
  <2> QED
    BY <1>2, <2>1, NumWorkersAssumption DEF Worker, Outside
<1>6. ASSUME NEW t \in Task, Status(t) = "running"
      PROVE  t = AbsStopper
  BY Zenon, <1>5, <1>6 DEF Status, AbsStopper
<1>7. ASSUME AbsStopper = NULL \/ NumWorkers > 1, NEW t \in prior \ {AbsStopper}
      PROVE  Status(t) = "done"
  <2>1. \E w \in Worker : w # stopper
    <3>1. CASE stopper = Outside
      BY <3>1, NumWorkersAssumption DEF Worker, Outside
    <3>2. CASE stopper # Outside
      <4>1. task[stopper] # NULL
        BY Zenon, <3>2, <1>3, TaskAssumption DEF PoolInv, StateType, Delivery, OnePlace
      <4>2. NumWorkers > 1
        BY Zenon, <1>7, <3>2, <4>1 DEF AbsStopper
      <4>3. 1 \in Worker /\ 2 \in Worker
        BY <4>2, NumWorkersAssumption DEF Worker
      <4> QED
        BY <4>3
    <3> QED
      BY Zenon, <3>1, <3>2
  <2>2. \A i \in 1..Len(dispatch_queue_) : dispatch_queue_[i] \notin prior
    BY Zenon, <1>2, <2>1 DEF PoolInv, Delivery, NullsLast
  <2>3. t \in added /\ t \in prior
    BY Zenon DEF PoolInv, StateType
  <2>4. t \in started
    BY <1>1, <1>4, <2>2, <2>3, Zenon DEF PoolInv, Delivery, NoneLost
  <2>5. t \in finished
    BY Zenon, <1>5, <1>7, <2>4 DEF AbsStopper
  <2> QED
    BY Zenon, <2>3, <2>5 DEF Status
<1>8. \A t \in Task : Status(t)' = Status(t)
  BY Zenon, <1>1 DEF Status
<1>9. AbsStatus' = AbsStatus /\ AbsStopper' = AbsStopper
  BY Zenon, <1>1, <1>8 DEF AbsStatus, AbsStopper
<1>10. Phase = "stopping" /\ Phase' = "stopped"
  BY Zenon, <1>1 DEF Phase
<1>11. prior \subseteq Task
  BY Zenon DEF PoolInv, StateType
<1>12. /\ \A t \in Task : (AbsStatus[t] = "running") => (t = AbsStopper)
       /\ (AbsStopper = NULL \/ NumWorkers > 1)
            => \A t \in prior \ {AbsStopper} : AbsStatus[t] = "done"
  BY Zenon, <1>6, <1>7, <1>11 DEF AbsStatus
<1> QED
  BY Zenon, <1>1, <1>9, <1>10, <1>12 DEF Pool!StopReturns, AbsStatus, AbsStopper

LEMMA DestroyStep ==
  ASSUME PoolInv, Destroy
  PROVE  Pool!Destroy
<1>1. /\ stop_ = "returned" /\ stop_' = "destroyed"
      /\ UNCHANGED <<task, stopper, added, started, finished, prior>>
  BY Zenon DEF Destroy, history
<1>2. \A t \in Task : Status(t)' = IF Status(t) = "pending" THEN "dropped" ELSE Status(t)
  BY Zenon, <1>1 DEF Status
<1>3. AbsStatus' = [t \in Task |-> IF AbsStatus[t] = "pending" THEN "dropped" ELSE AbsStatus[t]]
  BY Zenon, <1>2 DEF AbsStatus
<1>4. AbsStopper' = AbsStopper /\ Phase = "stopped" /\ Phase' = "destroyed"
  BY Zenon, <1>1 DEF AbsStopper, Phase
<1> QED
  BY Zenon, <1>1, <1>3, <1>4 DEF Pool!Destroy, AbsStatus, AbsStopper

LEMMA InitPool == Init => Pool!Init
<1> SUFFICES ASSUME Init
             PROVE  Pool!Init
  OBVIOUS
<1>1. \A t \in Task : Status(t) = "new"
  BY Zenon DEF Init, Status
<1>2. [t \in Task |-> Status(t)] = [t \in Task |-> "new"]
  BY Zenon, <1>1
<1>3. Phase = "open"
  BY Zenon DEF Init, Phase
<1> QED
  BY Zenon, <1>2, <1>3 DEF Init, Pool!Init, Outside

LEMMA InitPoolInv == Init => PoolInv
  BY NumWorkersAssumption DEF Init, PoolInv, StateType, JoinInv, Delivery, OnePlace, NoneLost,
     NullsLast, Works, PcType, Worker, Outside

(* Every critical section of the pool is one step of the interface, or     *)
(* none.                                                                   *)
LEMMA NextPool == PoolInv /\ [Next]_vars => [Pool!Next]_(Pool!vars)
<1> SUFFICES ASSUME PoolInv, [Next]_vars
             PROVE  Pool!Next \/ UNCHANGED Pool!vars
  OBVIOUS
<1>1. CASE Construct \/ JoinNext
  <2>1. UNCHANGED <<added, started, finished, prior, stopper, stop_, task>>
    BY Zenon, <1>1 DEF Construct, JoinNext, stopping, history
  <2> QED
    BY Zenon, <2>1, HiddenStep DEF Phase
<1>2. ASSUME NEW c \in Worker \cup {Outside}, NEW t \in Task, AddTask(c, t)
      PROVE  Pool!Next
  <2>1. /\ t \notin added /\ stop_ # "destroyed" /\ added' = added \cup {t}
        /\ UNCHANGED <<task, started, finished, prior, stopper, stop_>>
    BY Zenon, <1>2 DEF AddTask, stopping
  <2> QED
    BY Zenon, <2>1, AddStep DEF Pool!Next
<1>3. ASSUME NEW w \in Worker, Sleep(w) \/ SpuriousWakeup(w) \/ StopWorker(w)
      PROVE  UNCHANGED Pool!vars
  <2>1. UNCHANGED <<added, started, finished, prior, stopper, stop_, task>>
    BY Zenon, <1>3 DEF Sleep, SpuriousWakeup, StopWorker, stopping, history
  <2> QED
    BY Zenon, <2>1, HiddenStep DEF Phase
<1>4. ASSUME NEW w \in Worker, TakeTask(w)
      PROVE  UNCHANGED Pool!vars
  <2>1. /\ UNCHANGED <<added, started, finished, prior, stopper, stop_>>
        /\ pc[w] = "check"
        /\ task' = [task EXCEPT ![w] = Head(dispatch_queue_)]
    BY Zenon, <1>4 DEF TakeTask, stopping, history
  <2>2. (stopper # Outside) => (stopper \in Worker /\ stopper # w)
    BY Zenon, <2>1 DEF PoolInv, StateType, JoinInv
  <2>3. (stopper # Outside) => (task'[stopper] = task[stopper])
    BY Zenon, <2>1, <2>2 DEF PoolInv, StateType
  <2> QED
    BY Zenon, <2>1, <2>3, HiddenStep DEF Phase
<1>5. ASSUME NEW w \in Worker, StartTask(w) \/ FinishTask(w)
      PROVE  Pool!Next
  BY Zenon, <1>5, StartStep, FinishStep DEF Pool!Next
<1>6. ASSUME NEW c \in Worker \cup {Outside}, CallStop(c)
      PROVE  Pool!Next
  BY Zenon, <1>6, CallStopStep DEF Pool!Next
<1>7. CASE StopReturns
  BY Zenon, <1>7, StopReturnsStep DEF Pool!Next
<1>8. CASE Destroy
  BY Zenon, <1>8, DestroyStep DEF Pool!Next
<1>9. CASE UNCHANGED vars
  BY Zenon, <1>9, HiddenStep DEF vars, Phase
<1> QED
  BY Zenon, <1>1, <1>2, <1>3, <1>4, <1>5, <1>6, <1>7, <1>8, <1>9
  DEF Next, WorkerStep, StopStep

(* ImplementsThreadPool, for any number of workers and submissions: stop()  *)
(* appends its NULLs in one critical section, and the pool keeps to the     *)
(* same interface as the fast one, so that either can be built in.          *)
THEOREM NormalImplementsThreadPool == Spec => ImplementsThreadPool
<1>1. PoolInv /\ [Next]_vars => PoolInv'
  BY Zenon, NextJoin, NextDelivery DEF PoolInv
<1> QED
  BY <1>1, InitPoolInv, InitPool, NextPool, PTL DEF Spec, ImplementsThreadPool, Pool!Spec
=============================================================================
