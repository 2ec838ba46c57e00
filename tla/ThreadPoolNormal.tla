-------------------------- MODULE ThreadPoolNormal --------------------------
(***************************************************************************)
(* thread_pool_normal.cpp: a pool whose workers wait on one condition      *)
(* variable for one queue.  A step is one critical section of m_dispatch_  *)
(* or one access outside of it.  A Task is one addTask() call; the body of *)
(* a task may add tasks and may call stop(), which is called once.         *)
(***************************************************************************)
EXTENDS Naturals, Sequences, FiniteSets

CONSTANTS
    NumWorkers,  \* num_workers of the constructor
    Task,        \* the submissions of the run
    NULL         \* the NULL callback: a request to stop a worker

ASSUME NumWorkersAssumption == NumWorkers \in Nat \ {0}
ASSUME TaskAssumption == NULL \notin Task

Worker == 1..NumWorkers
Outside == 0       \* a thread that is not a worker of the pool

VARIABLES
    dispatch_queue_,
    task,            \* the local of each workerLoop
    last_worker_,    \* the thread-local flag of each worker thread
    pc,              \* where each worker thread is
    built,           \* size of workers_
    stop_, stopper,  \* where the stop() call is, and its thread
    joined,          \* threads it has joined or skipped
    added, started,  \* submissions made, submissions whose body was entered (history)
    finished, prior  \* bodies that returned, submissions older than stop() (history)

stopping == <<stop_, stopper, joined>>
history == <<added, started, finished, prior>>
vars == <<dispatch_queue_, task, last_worker_, pc, built, stop_, stopper, joined,
          added, started, finished, prior>>

Init ==
    /\ dispatch_queue_ = <<>>
    /\ task = [w \in Worker |-> NULL]
    /\ last_worker_ = [w \in Worker |-> FALSE]
    /\ pc = [w \in Worker |-> "unborn"]
    /\ built = 0
    /\ stop_ = "no"
    /\ stopper = Outside
    /\ joined = 0
    /\ added = {}
    /\ started = {}
    /\ finished = {}
    /\ prior = {}

Construct ==
    /\ built < NumWorkers
    /\ built' = built + 1
    /\ pc' = [pc EXCEPT ![built + 1] = "check"]
    /\ UNCHANGED <<dispatch_queue_, task, last_worker_, stopping, history>>

-----------------------------------------------------------------------------
Asleep == {w \in Worker : pc[w] = "asleep"}

(* Mutants: the signal is forgotten; signal() in the place of signalAll(). *)
NoSignal == UNCHANGED pc
SignalOne ==
    \/ Asleep = {} /\ UNCHANGED pc
    \/ \E w \in Asleep : pc' = [pc EXCEPT ![w] = "check"]

(* signal() wakes one of the sleepers, if there is one; signalAll() all.   *)
Signal ==
    IF Asleep = {} THEN UNCHANGED pc
    ELSE \E w \in Asleep : pc' = [pc EXCEPT ![w] = "check"]
SignalAll == pc' = [w \in Worker |-> IF w \in Asleep THEN "check" ELSE pc[w]]

(* Inside stop() the calling thread does nothing else. *)
Free(w) == pc[w] = "running" /\ ~(stopper = w /\ stop_ = "joining")

AddTask(caller, t) ==
    /\ built = NumWorkers
    /\ stop_ # "destroyed"
    /\ (caller # Outside) => Free(caller)
    /\ t \notin added
    /\ added' = added \cup {t}
    /\ dispatch_queue_' = Append(dispatch_queue_, t)
    /\ Signal
    /\ UNCHANGED <<task, last_worker_, built, stopping, started, finished, prior>>

-----------------------------------------------------------------------------
(* workerLoop *)

Sleep(w) ==
    /\ pc[w] = "check"
    /\ dispatch_queue_ = <<>>
    /\ pc' = [pc EXCEPT ![w] = "asleep"]
    /\ UNCHANGED <<dispatch_queue_, task, last_worker_, built, stopping, history>>

(* A condition variable may wake without a signal. *)
SpuriousWakeup(w) ==
    /\ pc[w] = "asleep"
    /\ pc' = [pc EXCEPT ![w] = "check"]
    /\ UNCHANGED <<dispatch_queue_, task, last_worker_, built, stopping, history>>

TakeTask(w) ==
    /\ pc[w] = "check"
    /\ dispatch_queue_ # <<>>
    /\ task' = [task EXCEPT ![w] = Head(dispatch_queue_)]
    /\ dispatch_queue_' = Tail(dispatch_queue_)
    /\ pc' = [pc EXCEPT ![w] = "got"]
    /\ UNCHANGED <<last_worker_, built, stopping, history>>

StopWorker(w) ==
    /\ pc[w] = "got"
    /\ task[w] = NULL
    /\ pc' = [pc EXCEPT ![w] = "ended"]
    /\ UNCHANGED <<dispatch_queue_, task, last_worker_, built, stopping, history>>

StartTask(w) ==
    /\ pc[w] = "got"
    /\ task[w] # NULL
    /\ pc' = [pc EXCEPT ![w] = "running"]
    /\ started' = started \cup {task[w]}
    /\ UNCHANGED <<dispatch_queue_, task, last_worker_, built, stopping, added, finished,
                   prior>>

FinishTask(w) ==
    /\ Free(w)
    /\ pc' = [pc EXCEPT ![w] = IF last_worker_[w] THEN "ended" ELSE "check"]
    /\ finished' = finished \cup {task[w]}
    /\ UNCHANGED <<dispatch_queue_, task, last_worker_, built, stopping, added, started,
                   prior>>

-----------------------------------------------------------------------------
(* stop and the destructor *)

Nulls == [i \in 1..NumWorkers |-> NULL]

(* Mutant: the NULLs go in front of the tasks. *)
CallStopInFront(c) ==
    /\ built = NumWorkers
    /\ stop_ = "no"
    /\ (c # Outside) => (pc[c] = "running")
    /\ stop_' = "joining"
    /\ stopper' = c
    /\ prior' = added
    /\ dispatch_queue_' = Nulls \o dispatch_queue_
    /\ SignalAll
    /\ UNCHANGED <<task, last_worker_, built, joined, added, started, finished>>

CallStop(c) ==
    /\ built = NumWorkers
    /\ stop_ = "no"
    /\ (c # Outside) => (pc[c] = "running")
    /\ stop_' = "joining"
    /\ stopper' = c
    /\ prior' = added
    /\ dispatch_queue_' = dispatch_queue_ \o Nulls
    /\ SignalAll
    /\ UNCHANGED <<task, last_worker_, built, joined, added, started, finished>>

(* One turn of the loop: a worker does not join itself. *)
JoinNext ==
    /\ stop_ = "joining"
    /\ joined < NumWorkers
    /\ (stopper # joined + 1) => (pc[joined + 1] = "ended")
    /\ joined' = joined + 1
    /\ UNCHANGED <<dispatch_queue_, task, last_worker_, pc, built, stop_, stopper, history>>

StopReturns ==
    /\ stop_ = "joining"
    /\ joined = NumWorkers
    /\ stop_' = "returned"
    /\ last_worker_' = [w \in Worker |-> last_worker_[w] \/ w = stopper]
    /\ UNCHANGED <<dispatch_queue_, task, pc, built, stopper, joined, history>>

Destroy ==
    /\ stop_ = "returned"
    /\ stop_' = "destroyed"
    /\ dispatch_queue_' = <<>>
    /\ UNCHANGED <<task, last_worker_, pc, built, stopper, joined, history>>

-----------------------------------------------------------------------------
WorkerStep(w) ==
    Sleep(w) \/ TakeTask(w) \/ StopWorker(w) \/ StartTask(w) \/ FinishTask(w)

StopStep == JoinNext \/ StopReturns

Next ==
    \/ Construct
    \/ \E c \in Worker \cup {Outside}, t \in Task : AddTask(c, t)
    \/ \E w \in Worker : WorkerStep(w) \/ SpuriousWakeup(w)
    \/ \E c \in Worker \cup {Outside} : CallStop(c)
    \/ StopStep
    \/ Destroy

Spec == Init /\ [][Next]_vars

(* Threads are scheduled, and the bodies of tasks return. *)
FairSpec ==
    /\ Spec
    /\ WF_vars(Construct)
    /\ \A w \in Worker : WF_vars(WorkerStep(w))
    /\ WF_vars(StopStep)
-----------------------------------------------------------------------------
(* Properties *)

(* While a worker sleeps, as many workers as there are queued tasks are    *)
(* awake and on their way to the queue: one signal per task is enough, no  *)
(* task waits behind a worker that nobody wakes, and no worker sleeps      *)
(* through the NULL it needs.                                              *)
EnoughAwake ==
    (Asleep # {}) => (Cardinality({w \in Worker : pc[w] = "check"}) >= Len(dispatch_queue_))

(* stop() returns, provided that tasks return. *)
StopTerminates == (stop_ = "joining") ~> (stop_ \in {"returned", "destroyed"})

Status(t) ==
    IF t \notin added THEN "new"
    ELSE IF t \in finished THEN "done"
    ELSE IF t \in started THEN "running"
    ELSE IF stop_ = "destroyed" THEN "dropped" ELSE "pending"

Phase ==
    CASE stop_ = "no" -> "open"
      [] stop_ = "joining" -> "stopping"
      [] stop_ = "returned" -> "stopped"
      [] stop_ = "destroyed" -> "destroyed"

Pool == INSTANCE ThreadPool WITH
    NoTask  <- NULL,
    status  <- [t \in Task |-> Status(t)],
    phase   <- Phase,
    stopper <- IF stopper = Outside THEN NULL ELSE task[stopper]

(* Every step of ThreadPoolNormal is a step of the abstract pool or leaves *)
(* it alone: the two pools are interchangeable to their users.             *)
ImplementsThreadPool == Pool!Spec
=============================================================================
