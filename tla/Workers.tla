------------------------------ MODULE Workers ------------------------------
(***************************************************************************)
(* Worker threads of pools that are started one after the other: the       *)
(* thread function, the number a worker keeps in thread-local storage      *)
(* (thread_pool_fast.cpp), the statistics it records under that number     *)
(* (http_connection.cpp), and the report of a crash.  The queue of tasks   *)
(* is modelled in ThreadPoolFast.                                          *)
(***************************************************************************)
EXTENDS ThreadLocal, RequestStats

CONSTANT Load   \* what may happen in a run: the bounds, one record of them per run

ASSUME ThreadAssumption == Thread \subseteq Nat   \* numbered as they are made

VARIABLES
    loop,    \* where a worker is at the start of workerLoop
    bound    \* what may still happen

vars == <<registry, handler, local, stats, loop, bound>>

Init ==
    /\ ThreadsInit
    /\ LocalInit
    /\ StatsInit
    /\ loop = [t \in Thread |-> "slot"]
    /\ bound \in Load

(* The bounds: threads to make and to stop, ticks, requests, queries
   and faults. *)
Use(what) ==
    /\ bound[what] > 0
    /\ bound' = [bound EXCEPT ![what] = @ - 1]

Made == {t \in Thread : life[t] # "none"}

(* Threads are made in order, NumWorkers for each pool. *)
Instance(t) == (t - 1) % NumWorkers
Pool(t) == {u \in Thread : (u - 1) \div NumWorkers = (t - 1) \div NumWorkers}
Earlier(t) == {u \in Thread : (u - 1) \div NumWorkers < (t - 1) \div NumWorkers}

(* The constructor of a pool makes its threads; the one before has joined  *)
(* all of its own.                                                         *)
NewWorker(t) ==
    /\ Use("threads")
    /\ \A u \in Thread : u < t => u \in Made
    /\ \A u \in Earlier(t) : life[u] = "ended"
    /\ makeThread(t)
    /\ UNCHANGED <<local, stats, loop>>

Register(t) ==
    /\ registerThread(t)
    /\ UNCHANGED <<local, stats, loop, bound>>

(* worker_num_.setVal(instance) *)
TakeSlot(t) ==
    /\ Runs(t, "body") /\ loop[t] = "slot"
    /\ getLocalState(t)
    /\ loop' = [loop EXCEPT ![t] = "number"]
    /\ UNCHANGED <<registry, handler, stats, bound>>

SetNumber(t) ==
    /\ Runs(t, "body") /\ loop[t] = "number"
    /\ setVal(t, Instance(t))
    /\ loop' = [loop EXCEPT ![t] = "tasks"]
    /\ UNCHANGED <<registry, handler, stats, bound>>

(* Memory behind the object: any number, NumWorkers for all too large. *)
ME(t) == getVal(t, 0..NumWorkers)

(* The end of handleRequest: stats->finishedRequest(ME(), getTicks()). *)
Finish(t) ==
    \E n \in ME(t) :
      IF n \in Number
        THEN finishedRequest(t, n, now) /\ UNCHANGED handler
        ELSE /\ dead' = TRUE
             /\ UNCHANGED <<stats, in_progress, sem, fatal, tids, asked, usr1, dump, traces>>

HandleRequest(t) ==
    /\ Runs(t, "body") /\ loop[t] = "tasks"
    /\ task[t] = Idle
    /\ Use("requests")
    /\ Finish(t)
    /\ UNCHANGED <<registry, local, loop>>

(* A request for the statistics is answered by ReturnStats, and not itself *)
(* counted.                                                                *)
HandleStats(t) ==
    /\ Runs(t, "body") /\ loop[t] = "tasks"
    /\ task[t] = Idle
    /\ Use("queries")
    /\ getStats(t, now)
    /\ UNCHANGED <<registry, handler, local, loop>>

Stats(t) ==
    /\ Runs(t, "body")
    /\ StatsStep(t)
    /\ UNCHANGED <<registry, handler, local, loop, bound>>

(* The pool is stopped: the loop returns, and so does threadFunction. *)
LeaveLoop(t) ==
    /\ loop[t] = "tasks" /\ task[t] = Idle
    /\ Pool(t) \subseteq Made
    /\ Use("stops")
    /\ unregisterThread(t)
    /\ UNCHANGED <<local, stats, loop>>

End(t) ==
    /\ ThreadEnds(t)
    /\ destroyLocalKey(t)
    /\ UNCHANGED <<stats, loop, bound>>

Crash(t) ==
    /\ Use("faults")
    /\ Fault(t)
    /\ UNCHANGED <<local, stats, loop>>

Handle(t) ==
    /\ HandlerStep(t)
    /\ UNCHANGED <<local, stats, loop, bound>>

TimePasses ==
    /\ ~dead
    /\ Use("ticks")
    /\ Tick
    /\ UNCHANGED <<registry, handler, local, loop>>

Next ==
    \/ \E t \in Thread :
         \/ NewWorker(t) \/ Register(t) \/ TakeSlot(t) \/ SetNumber(t)
         \/ HandleRequest(t) \/ HandleStats(t) \/ Stats(t)
         \/ LeaveLoop(t) \/ End(t)
    \/ \E t \in Anyone : Crash(t) \/ Handle(t)
    \/ TimePasses

Spec == Init /\ [][Next]_vars

(* The kernel delivers signals, and a handler that may run does. *)
FairSpec == Spec /\ \A t \in Anyone : WF_vars(Handle(t))

-----------------------------------------------------------------------------
(* finishedRequest(i,...) "is only called by the i-th thread"              *)
(* (request_stats.hpp:21): ME() gives a worker its own number, however     *)
(* many threads have come and gone, until more than MAXNUMOFTHREADS of     *)
(* them have used a slot since the process began.                          *)
OwnNumber ==
    taken <= MaxThreads =>
      \A t \in Thread :
        (loop[t] = "tasks" /\ life[t] # "ended") => ME(t) = {Instance(t)}

(* The stacks are gathered in one static array, which no lock protects     *)
(* (signal_handler.cpp:34).  After one fault they are printed one at a     *)
(* time, each once, and when the process dies every thread that the        *)
(* handler found in the registry has printed its own.  Once the slots have *)
(* run out, the FATAL of finishedRequest may end the process before that.  *)
ReportSound ==
    taken <= MaxThreads =>
      \A t \in Anyone : Faulted = {t} =>
        /\ Cardinality(Printing) <= 1
        /\ \A u \in Anyone : traces[u] <= 1
        /\ dead => \A u \in asked[t] \cup {t} : traces[u] = 1
=============================================================================
