--------------------------- MODULE ThreadPoolFast ---------------------------
(***************************************************************************)
(* thread_pool_fast.cpp: a pool that keeps a list of free workers and      *)
(* hands a task straight to one of them.                                   *)
(*                                                                         *)
(* A step is one critical section (of m_dispatch_, with the nested m_ of a *)
(* worker where assignTask is called, or of m_ alone) or one access        *)
(* outside of any lock.  A Task is one addTask() call; the body of a task  *)
(* may add tasks and may call stop().  IOManager::stop, the only caller of *)
(* stop() outside of tests, guards it, so a pool sees one stop() call.     *)
(***************************************************************************)
EXTENDS Naturals, Sequences

CONSTANTS
    NumWorkers,  \* num_workers of the constructor
    Task,        \* the submissions of the run
    NULL         \* the NULL callback: a request to stop a worker

ASSUME NumWorkersAssumption == NumWorkers \in Nat \ {0}
ASSUME TaskAssumption == NULL \notin Task

Worker == 1..NumWorkers
Outside == 0       \* a thread that is not a worker of the pool

VARIABLES
    dispatch_queue_,  \* tasks waiting for a worker
    workers_,         \* free workers, most recently freed first
    has_task_, task_, \* the mailbox of each worker
    last_worker_,     \* the thread-local flag of each worker thread
    pc,               \* where each worker thread is
    built,            \* workers made by the constructor so far
    stop_,            \* where the stop() call is
    stopper,          \* the thread that called it
    issued,           \* NULL tasks it has added
    joined,           \* threads it has joined or skipped
    added, started,   \* submissions made, submissions whose body was entered (history)
    finished, prior   \* bodies that returned, submissions older than stop() (history)

pool == <<dispatch_queue_, workers_, has_task_, task_>>
stopping == <<stop_, stopper, issued, joined>>
history == <<added, started, finished, prior>>
vars == <<dispatch_queue_, workers_, has_task_, task_, last_worker_, pc, built,
          stop_, stopper, issued, joined, added, started, finished, prior>>

Init ==
    /\ dispatch_queue_ = <<>>
    /\ workers_ = <<>>
    /\ has_task_ = [w \in Worker |-> FALSE]
    /\ task_ = [w \in Worker |-> NULL]
    /\ last_worker_ = [w \in Worker |-> FALSE]
    /\ pc = [w \in Worker |-> "unborn"]
    /\ built = 0
    /\ stop_ = "no"
    /\ stopper = Outside
    /\ issued = 0
    /\ joined = 0
    /\ added = {}
    /\ started = {}
    /\ finished = {}
    /\ prior = {}

-----------------------------------------------------------------------------
(* The mailbox of a worker *)

(* Mutant: the signal is forgotten. *)
NotSignalled(w) == pc

(* Wakes the worker when it sleeps on cv_has_task_. *)
Signalled(w) == IF pc[w] = "asleep" THEN [pc EXCEPT ![w] = "check"] ELSE pc

assignTask(w, t) ==
    /\ task_' = [task_ EXCEPT ![w] = t]
    /\ has_task_' = [has_task_ EXCEPT ![w] = TRUE]

(* What addTask does inside m_dispatch_: the front free worker gets the    *)
(* task, and without a free worker the task is queued.                     *)
addTaskOrQueue(t) ==
    IF workers_ # <<>>
      THEN /\ workers_' = Tail(workers_)
           /\ assignTask(Head(workers_), t)
           /\ UNCHANGED dispatch_queue_
      ELSE /\ dispatch_queue_' = Append(dispatch_queue_, t)
           /\ UNCHANGED <<workers_, has_task_, task_>>

(* The program counters after addTask: only a free worker can be asleep.   *)
SignalledByAdd == IF workers_ # <<>> THEN Signalled(Head(workers_)) ELSE pc

-----------------------------------------------------------------------------
(* Constructor *)

(* One turn of the loop: the thread starts and the worker is queued.       *)
Construct ==
    /\ built < NumWorkers
    /\ built' = built + 1
    /\ pc' = [pc EXCEPT ![built + 1] = "check"]
    /\ workers_' = <<built + 1>> \o workers_
    /\ UNCHANGED <<dispatch_queue_, has_task_, task_, last_worker_, stopping, history>>

Constructed == built = NumWorkers

-----------------------------------------------------------------------------
(* Callers of addTask *)

AddFromOutside(t) ==
    /\ Constructed
    /\ stop_ # "destroyed"
    /\ t \notin added
    /\ added' = added \cup {t}
    /\ addTaskOrQueue(t)
    /\ pc' = SignalledByAdd
    /\ UNCHANGED <<last_worker_, built, stopping, started, finished, prior>>

AddFromTask(w, t) ==
    /\ pc[w] = "running"
    /\ ~(stopper = w /\ stop_ \in {"issuing", "joining"})
    /\ stop_ # "destroyed"
    /\ t \notin added
    /\ added' = added \cup {t}
    /\ addTaskOrQueue(t)
    /\ pc' = SignalledByAdd
    /\ UNCHANGED <<last_worker_, built, stopping, started, finished, prior>>

-----------------------------------------------------------------------------
(* Worker::workerLoop *)

(* The wait loop, inside m_.  An empty mailbox puts the thread to sleep. *)
TakeTask(w) ==
    /\ pc[w] = "check"
    /\ has_task_[w]
    /\ has_task_' = [has_task_ EXCEPT ![w] = FALSE]
    /\ pc' = [pc EXCEPT ![w] = "got"]
    /\ UNCHANGED <<dispatch_queue_, workers_, task_, last_worker_, built, stopping, history>>

Sleep(w) ==
    /\ pc[w] = "check"
    /\ ~has_task_[w]
    /\ pc' = [pc EXCEPT ![w] = "asleep"]
    /\ UNCHANGED <<pool, last_worker_, built, stopping, history>>

(* A condition variable may wake without a signal. *)
SpuriousWakeup(w) ==
    /\ pc[w] = "asleep"
    /\ pc' = [pc EXCEPT ![w] = "check"]
    /\ UNCHANGED <<pool, last_worker_, built, stopping, history>>

(* task_ is read without m_: a NULL ends the worker, which deletes itself. *)
StopWorker(w) ==
    /\ pc[w] = "got"
    /\ task_[w] = NULL
    /\ pc' = [pc EXCEPT ![w] = "ended"]
    /\ UNCHANGED <<pool, last_worker_, built, stopping, history>>

StartTask(w) ==
    /\ pc[w] = "got"
    /\ task_[w] # NULL
    /\ pc' = [pc EXCEPT ![w] = "running"]
    /\ started' = started \cup {task_[w]}
    /\ UNCHANGED <<pool, last_worker_, built, stopping, added, finished, prior>>

(* The body returns.  The worker that stopped the pool ends; any other     *)
(* goes back to the pool.                                                  *)
FinishTask(w) ==
    /\ pc[w] = "running"
    /\ ~(stopper = w /\ stop_ \in {"issuing", "joining"})
    /\ pc' = [pc EXCEPT ![w] = IF last_worker_[w] THEN "ended" ELSE "queueing"]
    /\ finished' = finished \cup {task_[w]}
    /\ UNCHANGED <<pool, last_worker_, built, stopping, added, started, prior>>

(* Mutant: the worker is freed without a look at the queue. *)
queueWorkerBlindly(w) ==
    /\ pc[w] = "queueing"
    /\ workers_' = <<w>> \o workers_
    /\ pc' = [pc EXCEPT ![w] = "check"]
    /\ UNCHANGED <<dispatch_queue_, has_task_, task_, last_worker_, built, stopping, history>>

queueWorker(w) ==
    /\ pc[w] = "queueing"
    /\ IF dispatch_queue_ # <<>>
         THEN /\ assignTask(w, Head(dispatch_queue_))
              /\ dispatch_queue_' = Tail(dispatch_queue_)
              /\ UNCHANGED workers_
         ELSE /\ workers_' = <<w>> \o workers_
              /\ UNCHANGED <<dispatch_queue_, has_task_, task_>>
    /\ pc' = [pc EXCEPT ![w] = "check"]
    /\ UNCHANGED <<last_worker_, built, stopping, history>>

-----------------------------------------------------------------------------
(* stop and the destructor *)

CallStop(c) ==
    /\ Constructed
    /\ stop_ = "no"
    /\ (c # Outside) => (pc[c] = "running")
    /\ stop_' = "issuing"
    /\ stopper' = c
    /\ prior' = added
    /\ UNCHANGED <<pool, last_worker_, pc, built, issued, joined, added, started, finished>>

(* One turn of the first loop: addTask(NULL). *)
IssueNull ==
    /\ stop_ = "issuing"
    /\ issued < NumWorkers
    /\ issued' = issued + 1
    /\ addTaskOrQueue(NULL)
    /\ pc' = SignalledByAdd
    /\ UNCHANGED <<last_worker_, built, stop_, stopper, joined, history>>

StartJoining ==
    /\ stop_ = "issuing"
    /\ issued = NumWorkers
    /\ stop_' = "joining"
    /\ UNCHANGED <<pool, last_worker_, pc, built, stopper, issued, joined, history>>

(* Mutant: the thread is not joined. *)
JoinNothing ==
    /\ stop_ = "joining"
    /\ joined < NumWorkers
    /\ joined' = joined + 1
    /\ UNCHANGED <<pool, last_worker_, pc, built, stop_, stopper, issued, history>>

(* One turn of the second loop: a worker does not join itself. *)
JoinNext ==
    /\ stop_ = "joining"
    /\ joined < NumWorkers
    /\ (stopper # joined + 1) => (pc[joined + 1] = "ended")
    /\ joined' = joined + 1
    /\ UNCHANGED <<pool, last_worker_, pc, built, stop_, stopper, issued, history>>

(* Mutant: last_worker_ is not set. *)
StopForgetsLastWorker ==
    /\ stop_ = "joining"
    /\ joined = NumWorkers
    /\ stop_' = "returned"
    /\ UNCHANGED <<pool, last_worker_, pc, built, stopper, issued, joined, history>>

StopReturns ==
    /\ stop_ = "joining"
    /\ joined = NumWorkers
    /\ stop_' = "returned"
    /\ last_worker_' = [w \in Worker |-> last_worker_[w] \/ w = stopper]
    /\ UNCHANGED <<pool, pc, built, stopper, issued, joined, history>>

Destroy ==
    /\ stop_ = "returned"
    /\ stop_' = "destroyed"
    /\ dispatch_queue_' = <<>>
    /\ UNCHANGED <<workers_, has_task_, task_, last_worker_, pc, built, stopper,
                   issued, joined, history>>

-----------------------------------------------------------------------------
WorkerStep(w) ==
    \/ TakeTask(w)
    \/ Sleep(w)
    \/ StopWorker(w)
    \/ StartTask(w)
    \/ FinishTask(w)
    \/ queueWorker(w)

StopStep == IssueNull \/ StartJoining \/ JoinNext \/ StopReturns

Next ==
    \/ Construct
    \/ \E t \in Task : AddFromOutside(t)
    \/ \E w \in Worker, t \in Task : AddFromTask(w, t)
    \/ \E w \in Worker : WorkerStep(w) \/ SpuriousWakeup(w)
    \/ \E c \in Worker \cup {Outside} : CallStop(c)
    \/ StopStep
    \/ Destroy

Spec == Init /\ [][Next]_vars

(* Threads are scheduled, and the bodies of tasks return. *)
FairSpec ==
    /\ Spec
    /\ WF_vars(Construct)
    /\ \A w \in Worker : WF_vars(WorkerStep(w))
    /\ WF_vars(StopStep)
-----------------------------------------------------------------------------
(* Properties *)

TypeOK ==
    /\ dispatch_queue_ \in Seq(Task \cup {NULL})
    /\ workers_ \in Seq(Worker)
    /\ has_task_ \in [Worker -> BOOLEAN]
    /\ task_ \in [Worker -> Task \cup {NULL}]
    /\ last_worker_ \in [Worker -> BOOLEAN]
    /\ pc \in [Worker -> {"unborn", "check", "asleep", "got", "running", "queueing", "ended"}]
    /\ built \in 0..NumWorkers
    /\ stop_ \in {"no", "issuing", "joining", "returned", "destroyed"}
    /\ stopper \in Worker \cup {Outside}
    /\ issued \in 0..NumWorkers
    /\ joined \in 0..NumWorkers
    /\ added \in SUBSET Task
    /\ started \in SUBSET Task
    /\ finished \in SUBSET Task
    /\ prior \in SUBSET Task

(* A worker in the free list waits for a task and has none, and is in the  *)
(* list once: assignTask never overwrites a task that was not run and      *)
(* never writes to a Worker that deleted itself.                           *)
FreeWorkersAreIdle ==
    /\ \A i \in 1..Len(workers_) :
          pc[workers_[i]] \in {"check", "asleep"} /\ ~has_task_[workers_[i]]
    /\ \A i, j \in 1..Len(workers_) : (workers_[i] = workers_[j]) => (i = j)

(* addTask and queueWorker keep one of the two containers empty: no task   *)
(* waits in the queue while a worker sits in the free list.                *)
NoIdleWorkerWhileQueued == workers_ = <<>> \/ dispatch_queue_ = <<>>

(* No wake-up is lost: a worker asleep on cv_has_task_ has an empty        *)
(* mailbox, however assignTask and the wait loop interleave.               *)
NoLostWakeup == \A w \in Worker : (pc[w] = "asleep") => ~has_task_[w]

(* When stop() has returned, every other worker has ended, no worker is    *)
(* left in the free list, and the worker that called stop() will not go    *)
(* back to the pool: the destructor may run while that worker unwinds.     *)
StoppedPoolIsQuiet ==
    (stop_ \in {"returned", "destroyed"}) =>
      /\ \A w \in Worker \ {stopper} : pc[w] = "ended"
      /\ (stopper # Outside) => pc[stopper] \in {"running", "ended"}
      /\ workers_ = <<>>

(* stop() returns: no worker sleeps through its NULL and no NULL is taken  *)
(* by a worker that another needs, provided that tasks return.             *)
StopTerminates == (stop_ = "issuing") ~> (stop_ \in {"returned", "destroyed"})

(* Unless the pool is stopped, a submitted task is started. *)
SubmittedIsServed ==
    \A t \in Task : (t \in added) ~> (t \in started \/ stop_ # "no")

(* "The stopping sequence waits until all previously enqueued callbacks    *)
(* were served" (io_service.cpp:88-91, of the stop() of this pool).        *)
PreviouslyEnqueuedServed ==
    (stop_ = "returned") => (prior \ started = {})

(* The pool implements the interface of thread_pool.hpp. *)
Status(t) ==
    IF t \notin added THEN "new"
    ELSE IF t \in finished THEN "done"
    ELSE IF t \in started THEN "running"
    ELSE IF stop_ = "destroyed" THEN "dropped" ELSE "pending"

Phase ==
    CASE stop_ = "no" -> "open"
      [] stop_ \in {"issuing", "joining"} -> "stopping"
      [] stop_ = "returned" -> "stopped"
      [] stop_ = "destroyed" -> "destroyed"

Pool == INSTANCE ThreadPool WITH
    NoTask  <- NULL,
    status  <- [t \in Task |-> Status(t)],
    phase   <- Phase,
    stopper <- IF stopper = Outside THEN NULL ELSE task_[stopper]

(* Every step of ThreadPoolFast is a step of the abstract pool or leaves   *)
(* it alone: what is promised to the users of the interface.               *)
ImplementsThreadPool == Pool!Spec
=============================================================================
