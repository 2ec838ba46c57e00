----------------------------- MODULE ThreadPool -----------------------------
(***************************************************************************)
(* What the ThreadPool interface (thread_pool.hpp) promises, whatever the  *)
(* strategy: the abstract specification that ThreadPoolFast and            *)
(* ThreadPoolNormal are checked to implement.                              *)
(*                                                                         *)
(* A Task stands for one addTask() call with a non-NULL callback.  There   *)
(* is one stop() call per pool, issued by some task or by another thread,  *)
(* and the destructor, which requires that stop() has returned.            *)
(***************************************************************************)
EXTENDS Naturals

CONSTANTS
    Task,       \* the submissions of the run
    NoTask,     \* the stopper, when stop() is called from outside the pool
    NumWorkers  \* the number of worker threads

VARIABLES
    status,     \* where each submission is
    phase,      \* the life of the pool
    stopper,    \* the task that called stop()
    prior       \* the submissions made before stop() was called

vars == <<status, phase, stopper, prior>>

Status == {"new", "pending", "running", "done", "dropped"}

Init ==
    /\ status = [t \in Task |-> "new"]
    /\ phase = "open"
    /\ stopper = NoTask
    /\ prior = {}

(* Requests the execution of a task, at any time before the destructor. *)
AddTask(t) ==
    /\ phase # "destroyed"
    /\ status[t] = "new"
    /\ status' = [status EXCEPT ![t] = "pending"]
    /\ UNCHANGED <<phase, stopper, prior>>

Start(t) ==
    /\ phase \in {"open", "stopping"}
    /\ status[t] = "pending"
    /\ status' = [status EXCEPT ![t] = "running"]
    /\ UNCHANGED <<phase, stopper, prior>>

Finish(t) ==
    /\ status[t] = "running"
    /\ (phase = "stopping") => (t # stopper)
    /\ status' = [status EXCEPT ![t] = "done"]
    /\ UNCHANGED <<phase, stopper, prior>>

StopFrom(caller) ==
    /\ phase = "open"
    /\ (caller # NoTask) => (status[caller] = "running")
    /\ phase' = "stopping"
    /\ stopper' = caller
    /\ prior' = {t \in Task : status[t] # "new"}
    /\ UNCHANGED status

(* Every worker but the caller has ended, so no other task is running.  A  *)
(* pool whose only worker calls stop() serves nothing more; any other pool *)
(* has served what was submitted before the call.                          *)
StopReturns ==
    /\ phase = "stopping"
    /\ \A t \in Task : (status[t] = "running") => (t = stopper)
    /\ (stopper = NoTask \/ NumWorkers > 1)
         => \A t \in prior \ {stopper} : status[t] = "done"
    /\ phase' = "stopped"
    /\ UNCHANGED <<status, stopper, prior>>

(* The destructor drops what was never executed. *)
Destroy ==
    /\ phase = "stopped"
    /\ phase' = "destroyed"
    /\ status' = [t \in Task |-> IF status[t] = "pending" THEN "dropped" ELSE status[t]]
    /\ UNCHANGED <<stopper, prior>>

Next ==
    \/ \E t \in Task : AddTask(t) \/ Start(t) \/ Finish(t)
    \/ \E c \in Task \cup {NoTask} : StopFrom(c)
    \/ StopReturns
    \/ Destroy

Spec == Init /\ [][Next]_vars
=============================================================================
