--------------------------- MODULE IOServiceProofs ---------------------------
(***************************************************************************)
(* The hand-over of doAccept, and the order in which a service stops, for  *)
(* any number of workers, clients and timers.                              *)
(***************************************************************************)
EXTENDS IOService, FiniteSetTheorems, TLAPS

Looping == {"wait", "timers", "dispatch", "push"}
MainPlace == {"start", "poll", "check", "hold", "returned", "destroying", "delete manager",
              "destroyed"} \cup Looping
StopPlace == {"no", "enter", "await", "close", "delete", "clear", "manager", "polling", "pool",
              "join", "tell", "done"}
WorkerPlace == {"idle", "accept", "rewait", "schedule", "stopping", "done", "ended", "crashed"}
Callback == Timer \cup {"accept", "quit", "NULL"}

ServiceType ==
    /\ stop_requested_ \in BOOLEAN /\ stopped_ \in BOOLEAN
    /\ mgr_stopped_ \in BOOLEAN /\ polling_ \in BOOLEAN
    /\ edge \in BOOLEAN
    /\ accepting \in [can : BOOLEAN, waiting : BOOLEAN]
    /\ now \in Nat /\ asking \in Nat
    /\ batch \in [accept : BOOLEAN, quits : Nat, now : Nat]
    /\ timer_queue_ \subseteq Timer
    /\ ts \in [Timer -> Int] /\ ran \in [Timer -> Nat]
    /\ main \in MainPlace
    /\ queue \in Seq(Callback)
    /\ pc \in [Worker -> WorkerPlace]
    /\ back \in [Worker -> {"idle", "done", "accept"}]
    /\ last_worker_ \in Caller
    /\ stopAt \in [Caller -> StopPlace]

-----------------------------------------------------------------------------
(* The queue and the right to accept *)

Has(q, x) == \E i \in 1..Len(q) : q[i] = x
Once(q, x) == \A i, j \in 1..Len(q) : (q[i] = x /\ q[j] = x) => (i = j)

Waits == accepting.waiting = TRUE
Accepts(w) ==
    \/ pc[w] \in {"accept", "rewait", "schedule"}
    \/ pc[w] = "stopping" /\ back[w] = "accept"

(* Nobody has it in the queue or in the pool. *)
NoneAtWork == ~Has(queue, "accept") /\ \A w \in Worker : ~Accepts(w)

(* It is at one place, and start() is the first to give it away. *)
AcceptInv ==
    /\ Once(queue, "accept")
    /\ \A v, w \in Worker : (Accepts(v) /\ Accepts(w)) => (v = w)
    /\ Has(queue, "accept") => (\A w \in Worker : ~Accepts(w))
    /\ (Waits \/ main = "push") => NoneAtWork
    /\ Waits => (main # "push")
    /\ (main = "start") => (NoneAtWork /\ ~Waits)

-----------------------------------------------------------------------------
(* The end of the service *)

InStop == {"close", "delete", "clear", "manager", "polling", "pool", "join", "tell"}

(* One thread runs the body of stop(), and the workers that call it wait.  *)
StopInv ==
    /\ \A c, d \in Caller : (stopAt[c] \in InStop /\ stopAt[d] \in InStop) => (c = d)
    /\ \A c \in Caller : (stopAt[c] \in InStop) => (stop_requested_ /\ ~stopped_)
    /\ \A c \in Caller : (stopAt[c] = "done") => stopped_
    /\ \A w \in Worker : (stopAt[w] # "no") => (pc[w] = "stopping")
    /\ \A w \in Worker : (pc[w] = "stopping") => (back[w] # "idle")
    /\ stopped_ => stop_requested_
    /\ (main = "start") => (stopAt[Outside] = "no")
    /\ (main \in {"returned", "delete manager", "destroyed"}) => stopped_

Reached(S) == stopped_ \/ \E c \in Caller : stopAt[c] \in S

(* What stop() has done by then, against the poll loop. *)
LoopInv ==
    /\ polling_ <=> (main \in Looping \cup {"check"})
    /\ Reached({"polling", "pool", "join", "tell"}) => mgr_stopped_
    /\ Reached({"pool", "join", "tell"}) => (main \notin Looping)
    /\ Reached(InStop \ {"close"}) => (listen_fd_ = "closed")
    /\ (listen_fd_ = "open") => (descr = "live")
    /\ edge => (listen_fd_ = "open")
    /\ batch.accept => (main \in {"timers", "dispatch"} /\ descr # "freed")
    /\ batch.now <= now

NoTimerQueued == \A i \in 1..Len(queue) : queue[i] \notin Timer

(* The requests to stop come last in the queue: a worker that has taken    *)
(* one has left no timer behind it.                                        *)
JoinInv ==
    /\ (\E i \in 1..Len(queue) : queue[i] = "NULL") => Reached({"join", "tell"})
    /\ \A i, j \in 1..Len(queue) : (queue[i] = "NULL" /\ i < j) => (queue[j] \notin Timer)
    /\ \A w \in Worker : (pc[w] = "ended") => Reached({"join", "tell"})
    /\ \A w \in Worker : (pc[w] = "ended") => (w = last_worker_ \/ NoTimerQueued)
    /\ Reached({"tell"}) =>
         \A w \in Worker :
           pc[w] = "ended" \/ (w = last_worker_ /\ pc[w] \in {"stopping", "done", "accept"})
    /\ (last_worker_ # Outside) => Reached({"tell"})

(* A timer that was added waits, is queued once, or has run. *)
TimerInv ==
    /\ \A t \in Timer \ Added : t \notin timer_queue_ /\ ran[t] = 0
    /\ \A t \in timer_queue_ : ran[t] = 0
    /\ \A t \in Timer : Has(queue, t) =>
         (t \in Added /\ t \notin timer_queue_ /\ ran[t] = 0 /\ ts[t] <= now)
    /\ \A t \in Timer : Once(queue, t)
    /\ \A t \in Timer : (ran[t] = 0) \/ (ran[t] = 1 /\ ts[t] <= now)
    /\ \A t \in Added : (main # "destroyed") => (t \in timer_queue_ \/ ran[t] = 1 \/ Has(queue, t))
    /\ (main = "destroyed") => (queue = <<>>)

ServiceInv == ServiceType /\ StopInv /\ LoopInv /\ JoinInv /\ TimerInv

-----------------------------------------------------------------------------
LEMMA AppendFact ==
  ASSUME NEW S, NEW q \in Seq(S), NEW x \in S
  PROVE  /\ Append(q, x) \in Seq(S)
         /\ Len(q) \in Nat
         /\ Len(Append(q, x)) = Len(q) + 1
         /\ \A i \in 1..Len(q) : i \in 1..Len(Append(q, x)) /\ Append(q, x)[i] = q[i]
         /\ Append(q, x)[Len(q) + 1] = x
         /\ \A i \in 1..Len(Append(q, x)) : i \in 1..Len(q) \/ i = Len(q) + 1
  OBVIOUS

LEMMA TailFact ==
  ASSUME NEW S, NEW q \in Seq(S), q # <<>>
  PROVE  /\ Tail(q) \in Seq(S)
         /\ Len(q) \in Nat \ {0}
         /\ Head(q) = q[1] /\ q[1] \in S
         /\ \A i \in 1..Len(Tail(q)) : i + 1 \in 2..Len(q) /\ Tail(q)[i] = q[i + 1]
         /\ \A i \in 2..Len(q) : i - 1 \in 1..Len(Tail(q)) /\ Tail(q)[i - 1] = q[i]
  OBVIOUS

(* The requests to stop that stop() adds. *)
Nulls == [w \in Worker |-> "NULL"]

LEMMA NullsFact ==
  ASSUME NEW S, NEW q \in Seq(S), "NULL" \in S
  PROVE  /\ q \o Nulls \in Seq(S)
         /\ Len(q) \in Nat
         /\ \A i \in 1..Len(q) : i \in 1..Len(q \o Nulls) /\ (q \o Nulls)[i] = q[i]
         /\ \A i \in 1..Len(q \o Nulls) : i \in 1..Len(q) \/ (i > Len(q) /\ (q \o Nulls)[i] = "NULL")
  <1>1. Nulls \in Seq(S) /\ Len(Nulls) = NumWorkers /\ \A i \in 1..NumWorkers : Nulls[i] = "NULL"
    BY ServiceBounds DEF Nulls, Worker
  <1> QED
    BY <1>1, ServiceBounds

LEMMA WorkersCall == \A w \in Worker : w \in Caller /\ w # Outside
  BY ServiceBounds DEF Worker, Caller, Outside

(* What leaves the types alone, and what changes them. *)
LEMMA InitType == Init => ServiceType
  <1> SUFFICES ASSUME Init
               PROVE  ServiceType
    OBVIOUS
  <1>1. /\ now \in Nat /\ asking \in Nat /\ batch \in [accept : BOOLEAN, quits : Nat, now : Nat]
        /\ ts \in [Timer -> Int] /\ ran \in [Timer -> Nat] /\ queue \in Seq(Callback)
    BY DEF Init, ServiceInit, ManagerInit, NoEvents, NoTime
  <1>2. /\ stop_requested_ \in BOOLEAN /\ stopped_ \in BOOLEAN
        /\ mgr_stopped_ \in BOOLEAN /\ polling_ \in BOOLEAN /\ edge \in BOOLEAN
        /\ accepting \in [can : BOOLEAN, waiting : BOOLEAN]
        /\ timer_queue_ \subseteq Timer /\ main \in MainPlace
    BY Zenon DEF Init, ServiceInit, ManagerInit, AcceptorInit, NotReady, MainPlace
  <1>3. /\ pc \in [Worker -> WorkerPlace] /\ back \in [Worker -> {"idle", "done", "accept"}]
        /\ last_worker_ \in Caller /\ stopAt \in [Caller -> StopPlace]
    BY DEF Init, ServiceInit, ManagerInit, WorkerPlace, StopPlace, Caller
  <1> QED
    BY Zenon, <1>1, <1>2, <1>3 DEF ServiceType

(* The four kinds of callbacks. *)
LEMMA TakeCases ==
  ASSUME ServiceType, NEW w \in Worker, TakeTask(w)
  PROVE  /\ queue \in Seq(Callback) /\ queue # <<>> /\ queue' = Tail(queue) /\ pc[w] = "idle"
         /\ \/ /\ Head(queue) = "accept"
               /\ \E there \in {"crashed", "accept"} : pc' = [pc EXCEPT ![w] = there]
               /\ back' = back /\ stopAt' = stopAt /\ ran' = ran
            \/ /\ Head(queue) = "quit"
               /\ pc' = [pc EXCEPT ![w] = "stopping"]
               /\ back' = [back EXCEPT ![w] = "done"]
               /\ stopAt' = [stopAt EXCEPT ![w] = "enter"]
               /\ ran' = ran
            \/ /\ Head(queue) = "NULL"
               /\ pc' = [pc EXCEPT ![w] = "ended"]
               /\ back' = back /\ stopAt' = stopAt /\ ran' = ran
            \/ /\ Head(queue) \in Timer
               /\ pc' = [pc EXCEPT ![w] = "done"]
               /\ back' = back /\ stopAt' = stopAt
               /\ ran' = [ran EXCEPT ![Head(queue)] = @ + 1]
  <1>1. queue \in Seq(Callback) /\ queue # <<>> /\ queue' = Tail(queue) /\ pc[w] = "idle"
    BY Zenon DEF TakeTask, ServiceType
  <1>2. PICK x : x = Head(queue) /\ x \in Callback
    BY Zenon, <1>1, TailFact
  <1>3. CASE x = "accept"
    BY Zenon, <1>1, <1>2, <1>3 DEF TakeTask, Goto
  <1>4. CASE x = "quit"
    BY Zenon, <1>1, <1>2, <1>4 DEF TakeTask, CallStop, Goto
  <1>5. CASE x = "NULL"
    BY Zenon, <1>1, <1>2, <1>5 DEF TakeTask, Goto
  <1>6. CASE x \in Timer
    <2>1. x # "accept" /\ x # "quit" /\ x # "NULL"
      BY Zenon, <1>6, ServiceBounds
    <2> QED
      BY Zenon, <1>1, <1>2, <1>6, <2>1 DEF TakeTask, Goto
  <1> QED
    BY Zenon, <1>2, <1>3, <1>4, <1>5, <1>6 DEF Callback

LEMMA MainType ==
  ASSUME ServiceType, MainStep
  PROVE  ServiceType'
  <1> USE DEF ServiceType, service, manager, listener, users, timers, workers
  <1>1. CASE Start
    <2>1. accepting' \in [can : BOOLEAN, waiting : BOOLEAN]
      BY Zenon, <1>1 DEF Start, startAccept, WhenReady, RunsNow
    <2> QED
      BY Zenon, <1>1, <2>1 DEF Start, MainPlace
  <1>2. CASE Poll \/ CheckStopped \/ StartReturns \/ DestroyAcceptors \/ CollectDeleted
    BY Zenon, <1>2
    DEF Poll, CheckStopped, StartReturns, DestroyAcceptors, CollectDeleted, MainPlace, Looping
  <1>3. CASE PollReturns
    <2>1. batch' \in [accept : BOOLEAN, quits : Nat, now : Nat] /\ asking' \in Nat
      BY <1>3 DEF PollReturns
    <2> QED
      BY Zenon, <1>3, <2>1 DEF PollReturns, MainPlace, Looping
  <1>4. CASE IssueTimers
    <2>1. Timer \subseteq Callback
      BY DEF Callback
    <2>2. \/ /\ \E t \in Timer : queue' = Append(queue, t) /\ timer_queue_' = timer_queue_ \ {t}
             /\ main' = main /\ batch' = batch
          \/ /\ queue' = queue /\ timer_queue_' = timer_queue_ /\ main' = "dispatch"
             /\ batch' = [batch EXCEPT !.now = 0]
      BY Zenon, <1>4 DEF IssueTimers, Due
    <2>3. queue' \in Seq(Callback)
      <3>1. queue \in Seq(Callback)
        BY Zenon
      <3> QED
        BY ONLY <2>1, <2>2, <3>1
    <2>4. timer_queue_' \subseteq Timer /\ main' \in MainPlace
      BY Zenon, <2>2 DEF MainPlace, Looping
    <2>5. batch' \in [accept : BOOLEAN, quits : Nat, now : Nat]
      <3>1. batch \in [accept : BOOLEAN, quits : Nat, now : Nat]
        BY Zenon
      <3> QED
        BY ONLY <2>2, <3>1
    <2> QED
      BY Zenon, <1>4, <2>3, <2>4, <2>5 DEF IssueTimers
  <1>5. CASE readIfWaiting
    <2>1. accepting' \in [can : BOOLEAN, waiting : BOOLEAN]
      BY Zenon, <1>5 DEF readIfWaiting, IfWaiting, Schedules
    <2>2. batch' \in [accept : BOOLEAN, quits : Nat, now : Nat]
      BY Zenon, <1>5 DEF readIfWaiting
    <2> QED
      BY Zenon, <1>5, <2>1, <2>2 DEF readIfWaiting, MainPlace, Looping
  <1>6. CASE PushAccept
    <2>1. queue' \in Seq(Callback)
      BY Zenon, <1>6, AppendFact DEF PushAccept, Callback
    <2> QED
      BY Zenon, <1>6, <2>1 DEF PushAccept, MainPlace, Looping
  <1>7. CASE PushQuit
    <2>1. queue' \in Seq(Callback)
      BY Zenon, <1>7, AppendFact DEF PushQuit, Callback
    <2>2. batch' \in [accept : BOOLEAN, quits : Nat, now : Nat]
      <3>1. /\ batch' = [batch EXCEPT !.quits = @ - 1] /\ batch.quits > 0
            /\ batch \in [accept : BOOLEAN, quits : Nat, now : Nat]
        BY Zenon, <1>7 DEF PushQuit
      <3> QED
        BY ONLY <3>1
    <2> QED
      BY Zenon, <1>7, <2>1, <2>2 DEF PushQuit
  <1>8. CASE DestroyManager
    <2>1. <<>> \in Seq(Callback)
      OBVIOUS
    <2> QED
      BY Zenon, <1>8, <2>1 DEF DestroyManager, MainPlace
  <1> QED
    BY Zenon, <1>1, <1>2, <1>3, <1>4, <1>5, <1>6, <1>7, <1>8 DEF MainStep, TearDown

LEMMA StopType ==
  ASSUME ServiceType, NEW c \in Caller, StopStep(c)
  PROVE  ServiceType'
  <1> USE DEF ServiceType, service, manager, listener, users, timers, workers
  <1>1. stopAt' \in [Caller -> StopPlace]
    BY Zenon
    DEF StopStep, StopEnters, StopAwaits, CloseListener, delDescriptor, ClearDescriptor,
        StopManager, AwaitPollEnd, StopPool, StopReclaims, StopEnds, StopPlace
  <1>2. CASE StopEnters(c) \/ StopAwaits(c)
    BY Zenon, <1>1, <1>2 DEF StopEnters, StopAwaits
  <1>3. CASE CloseListener(c) \/ delDescriptor(c) \/ ClearDescriptor(c)
    BY Zenon, <1>1, <1>3 DEF CloseListener, delDescriptor, ClearDescriptor
  <1>4. CASE StopManager(c) \/ AwaitPollEnd(c)
    BY Zenon, <1>1, <1>4 DEF StopManager, AwaitPollEnd
  <1>5. CASE StopPool(c)
    <2>1. queue' \in Seq(Callback)
      BY Zenon, <1>5, NullsFact DEF StopPool, Nulls, Callback
    <2> QED
      BY Zenon, <1>1, <1>5, <2>1 DEF StopPool
  <1>6. CASE StopReclaims(c) \/ StopEnds(c)
    BY Zenon, <1>1, <1>6 DEF StopReclaims, StopEnds
  <1> QED
    BY Zenon, <1>2, <1>3, <1>4, <1>5, <1>6 DEF StopStep

LEMMA WorkerType ==
  ASSUME ServiceType, NEW w \in Worker, WorkerStep(w) \/ AcceptFails(w)
  PROVE  ServiceType'
  <1>0. w \in Caller
    BY Zenon, WorkersCall
  <1> USE DEF ServiceType, service, manager, listener, users, timers, workers
  <1>1. CASE TakeTask(w)
    <2>1. queue' \in Seq(Callback)
      BY Zenon, <1>1, TailFact DEF TakeTask
    <2>2. ran' \in [Timer -> Nat]
      <3>1. ran \in [Timer -> Nat]
        BY Zenon
      <3>2. ran' = ran \/ \E t \in Timer : ran' = [ran EXCEPT ![t] = @ + 1]
        BY Zenon, <1>1, TakeCases
      <3> QED
        BY ONLY <3>1, <3>2
    <2>3. \E there \in WorkerPlace : pc' = [pc EXCEPT ![w] = there]
      BY Zenon, <1>1, TakeCases DEF WorkerPlace
    <2>4. back' = back \/ back' = [back EXCEPT ![w] = "done"]
      BY Zenon, <1>1, TakeCases
    <2>5. stopAt' = stopAt \/ stopAt' = [stopAt EXCEPT ![w] = "enter"]
      BY Zenon, <1>1, TakeCases
    <2>6. pc' \in [Worker -> WorkerPlace]
      BY Zenon, <2>3
    <2>7. back' \in [Worker -> {"idle", "done", "accept"}] /\ stopAt' \in [Caller -> StopPlace]
      BY Zenon, <1>0, <2>4, <2>5 DEF StopPlace
    <2> QED
      BY Zenon, <1>1, <2>1, <2>2, <2>6, <2>7 DEF TakeTask
  <1>2. CASE AcceptOne(w)
    BY Zenon, <1>2 DEF AcceptOne
  <1>3. CASE AcceptNone(w)
    BY Zenon, <1>3 DEF AcceptNone, Goto, WorkerPlace
  <1>4. CASE AcceptFails(w)
    BY Zenon, <1>0, <1>4 DEF AcceptFails, CallStop, Goto, WorkerPlace, StopPlace
  <1>5. CASE readWhenReady(w)
    <2>1. accepting' \in [can : BOOLEAN, waiting : BOOLEAN]
      BY Zenon, <1>5 DEF readWhenReady, WhenReady, RunsNow
    <2> QED
      BY Zenon, <1>5, <2>1 DEF readWhenReady, Goto, WorkerPlace
  <1>6. CASE ScheduleAccept(w)
    <2>1. queue' \in Seq(Callback)
      <3>1. /\ queue \in Seq(Callback) /\ "accept" \in Callback
            /\ queue' = queue \/ queue' = Append(queue, "accept")
        BY Zenon, <1>6 DEF ScheduleAccept, Callback
      <3> QED
        BY ONLY <3>1
    <2> QED
      BY Zenon, <1>6, <2>1 DEF ScheduleAccept, Goto, WorkerPlace
  <1>7. CASE StopReturns(w) \/ TaskDone(w)
    <2>1. {"idle", "done", "accept"} \subseteq WorkerPlace
      BY Zenon DEF WorkerPlace
    <2>2. pc' \in [Worker -> WorkerPlace] /\ stopAt' \in [Caller -> StopPlace]
      BY Zenon, <1>0, <1>7, <2>1 DEF StopReturns, TaskDone, Goto, WorkerPlace, StopPlace
    <2> QED
      BY Zenon, <1>7, <2>2 DEF StopReturns, TaskDone
  <1> QED
    BY Zenon, <1>1, <1>2, <1>3, <1>4, <1>5, <1>6, <1>7 DEF WorkerStep

LEMMA NextType == ServiceType /\ [Next]_vars => ServiceType'
  <1> SUFFICES ASSUME ServiceType, [Next]_vars
               PROVE  ServiceType'
    OBVIOUS
  <1> USE DEF ServiceType, service, manager, listener, users, timers, workers
  <1>1. CASE UNCHANGED vars
    BY Zenon, <1>1 DEF vars
  <1>2. CASE ClientConnects
    BY Zenon, <1>2 DEF ClientConnects
  <1>3. CASE ClientAsksToQuit
    <2>1. asking' \in Nat
      BY <1>3 DEF ClientAsksToQuit
    <2> QED
      BY Zenon, <1>3, <2>1 DEF ClientAsksToQuit
  <1>4. CASE Tick
    <2>1. now' \in Nat
      BY <1>4 DEF Tick
    <2> QED
      BY Zenon, <1>4, <2>1 DEF Tick
  <1>5. ASSUME NEW t \in Timer, NEW delay \in 0..1, addTimer(t, delay)
        PROVE  ServiceType'
    <2>1. PICK read \in 0..now : ts' = [ts EXCEPT ![t] = read + delay]
      BY Zenon, <1>5 DEF addTimer
    <2>2. ts' \in [Timer -> Int]
      <3>1. ts \in [Timer -> Int] /\ now \in Nat
        BY Zenon
      <3> QED
        BY ONLY <2>1, <3>1, t \in Timer, delay \in 0..1
    <2>3. timer_queue_' \subseteq Timer
      BY Zenon, <1>5 DEF addTimer
    <2> QED
      BY Zenon, <1>5, <2>2, <2>3 DEF addTimer
  <1>6. CASE StopFromOutside \/ DestroyUnstarted
    <2>1. stopAt' \in [Caller -> StopPlace] /\ main' \in MainPlace
      BY Zenon, <1>6 DEF StopFromOutside, DestroyUnstarted, StopPlace, MainPlace
    <2> QED
      BY Zenon, <1>6, <2>1 DEF StopFromOutside, DestroyUnstarted
  <1> QED
    BY Zenon, <1>1, <1>2, <1>3, <1>4, <1>5, <1>6, MainType, StopType, WorkerType DEF Next

-----------------------------------------------------------------------------
(* One thread runs stop(). *)

LEMMA InitStop == Init => StopInv
  BY WorkersCall
  DEF Init, ServiceInit, ManagerInit, StopInv, InStop, Caller

(* The steps between calls of stop(). *)
LEMMA StopFrame ==
  ASSUME StopInv, UNCHANGED <<stopAt, stop_requested_, stopped_>>,
         \A w \in Worker : (pc'[w] = "stopping") <=> (pc[w] = "stopping"),
         \A w \in Worker : (pc'[w] = "stopping") => (back'[w] = back[w]),
         (main' = "start") => (main = "start"),
         (main' \in {"returned", "delete manager", "destroyed"}) => stopped_
  PROVE  StopInv'
  BY Zenon DEF StopInv

LEMMA MainKeepsStop ==
  ASSUME ServiceType, StopInv, MainStep
  PROVE  StopInv'
  <1>1. /\ UNCHANGED <<stopAt, stop_requested_, stopped_>>
        /\ pc' = pc /\ back' = back
    BY Zenon DEF MainStep, TearDown, Start, Poll, CheckStopped, PollReturns, IssueTimers,
       readIfWaiting, PushAccept, PushQuit, CollectDeleted, StartReturns, DestroyAcceptors,
       DestroyManager, service, workers
  <1>2. main' # "start" \/ main' = main
    BY Zenon DEF MainStep, TearDown, Start, Poll, CheckStopped, PollReturns, IssueTimers,
       readIfWaiting, PushAccept, PushQuit, CollectDeleted, StartReturns, DestroyAcceptors,
       DestroyManager
  <1>3. CASE StartReturns
    BY Zenon, <1>1, <1>2, <1>3, StopFrame DEF StartReturns
  <1>4. CASE DestroyAcceptors \/ DestroyManager
    <2>1. stopped_
      BY Zenon, <1>4 DEF DestroyAcceptors, DestroyManager, StopInv, Caller
    <2> QED
      BY Zenon, <1>1, <1>2, <2>1, StopFrame
  <1>5. CASE ~StartReturns /\ ~DestroyAcceptors /\ ~DestroyManager
    <2>1. main' \notin {"returned", "delete manager", "destroyed"}
      BY Zenon, <1>5 DEF MainStep, TearDown, Start, Poll, CheckStopped, PollReturns, IssueTimers,
         readIfWaiting, PushAccept, PushQuit, CollectDeleted
    <2> QED
      BY Zenon, <1>1, <1>2, <2>1, StopFrame
  <1> QED
    BY Zenon, <1>3, <1>4, <1>5

(* A step that brings nobody into the body of stop(), or out at its end.   *)
LEMMA StopAround ==
  ASSUME StopInv, UNCHANGED <<stop_requested_, stopped_>>,
         \A d \in Caller : /\ (stopAt'[d] \in InStop) => (stopAt[d] \in InStop)
                           /\ (stopAt'[d] = "done") => stopped_,
         \A v \in Worker : (stopAt'[v] # "no") => (pc'[v] = "stopping"),
         \A v \in Worker : (pc'[v] = "stopping") => (back'[v] # "idle"),
         (main' = "start") => (stopAt'[Outside] = "no"),
         (main' \in {"returned", "delete manager", "destroyed"}) => stopped_
  PROVE  StopInv'
  <1>1. \A c, d \in Caller : (stopAt'[c] \in InStop /\ stopAt'[d] \in InStop) => (c = d)
    BY Zenon DEF StopInv
  <1>2. \A c \in Caller : (stopAt'[c] \in InStop) => (stop_requested_' /\ ~stopped_')
    BY Zenon DEF StopInv
  <1> QED
    BY Zenon, <1>1, <1>2 DEF StopInv

(* A thread that starts a stop() was not in one. *)
LEMMA CallKeepsStop ==
  ASSUME ServiceType, StopInv, NEW c \in Caller, stopAt[c] = "no",
         stopAt' = [stopAt EXCEPT ![c] = "enter"],
         UNCHANGED <<stop_requested_, stopped_>>,
         \A w \in Worker \ {c} : pc'[w] = pc[w] /\ back'[w] = back[w],
         (c \in Worker) => (pc'[c] = "stopping" /\ back'[c] # "idle"),
         \/ main' = main /\ (main = "start" => c # Outside)
         \/ main' = "destroying"
  PROVE  StopInv'
  <1>1. stopAt'[c] = "enter" /\ \A d \in Caller : (d # c) => (stopAt'[d] = stopAt[d])
    BY Zenon DEF ServiceType
  <1>2. \A d \in Caller : /\ (stopAt'[d] \in InStop) => (stopAt[d] \in InStop)
                          /\ (stopAt'[d] = "done") => stopped_
    <2>1. "enter" \notin InStop /\ "enter" # "done"
      BY Zenon DEF InStop
    <2> QED
      BY Zenon, <1>1, <2>1 DEF StopInv
  <1>3. \A w \in Worker : w \in Caller /\ ((stopAt'[w] # "no") => (pc'[w] = "stopping"))
    BY Zenon, <1>1, WorkersCall DEF StopInv
  <1>4. (main' = "start") => (stopAt'[Outside] = "no")
    BY Zenon, <1>1 DEF StopInv, Caller
  <1>5. \A w \in Worker : (pc'[w] = "stopping") => (back'[w] # "idle")
    BY Zenon DEF StopInv
  <1>6. (main' \in {"returned", "delete manager", "destroyed"}) => stopped_
    BY Zenon DEF StopInv
  <1> QED
    BY Zenon, <1>2, <1>3, <1>4, <1>5, <1>6, StopAround

LEMMA StopKeepsStop ==
  ASSUME ServiceType, StopInv, NEW c \in Caller, StopStep(c)
  PROVE  StopInv'
  <1>1. UNCHANGED <<main, pc, back>>
    BY Zenon DEF StopStep, StopEnters, StopAwaits, CloseListener, delDescriptor, ClearDescriptor,
       StopManager, AwaitPollEnd, StopPool, StopReclaims, StopEnds, workers
  <1>2. stopAt[c] # "no" /\ \E there \in StopPlace \ {"no"} : stopAt' = [stopAt EXCEPT ![c] = there]
    BY Zenon DEF StopStep, StopEnters, StopAwaits, CloseListener, delDescriptor, ClearDescriptor,
       StopManager, AwaitPollEnd, StopPool, StopReclaims, StopEnds, StopPlace
  <1>3. \A d \in Caller \ {c} : stopAt'[d] = stopAt[d]
    BY Zenon, <1>2 DEF ServiceType
  <1>4. \A w \in Worker : (stopAt'[w] # "no") => (pc'[w] = "stopping")
    BY Zenon, <1>1, <1>2, <1>3, WorkersCall DEF StopInv
  <1>5. (main' = "start") => (stopAt'[Outside] = "no")
    BY Zenon, <1>1, <1>2, <1>3 DEF StopInv, Caller
  <1>6. ASSUME stopAt'[c] \in InStop => stopAt[c] \in InStop,
               UNCHANGED <<stopped_, stop_requested_>>, stopAt'[c] # "done"
        PROVE  StopInv'
    <2>1. \A d \in Caller : /\ (stopAt'[d] \in InStop) => (stopAt[d] \in InStop)
                            /\ (stopAt'[d] = "done") => (stopAt[d] = "done")
      BY Zenon, <1>3, <1>6
    <2> QED
      BY Zenon, <1>1, <1>4, <1>5, <1>6, <2>1 DEF StopInv
  <1>7. CASE StopEnters(c)
    <2>1. /\ stopAt'[c] = IF stop_requested_ THEN "await" ELSE "close"
          /\ stop_requested_' /\ stopped_' = stopped_
      BY Zenon, <1>7 DEF StopEnters, ServiceType
    <2>2. CASE stop_requested_
      BY Zenon, <1>6, <2>1, <2>2 DEF InStop, ServiceType
    <2>3. CASE ~stop_requested_
      <3>1. ~stopped_ /\ \A d \in Caller : stopAt[d] \notin InStop
        BY Zenon, <2>3 DEF StopInv
      <3>2. \A d \in Caller : /\ (stopAt'[d] \in InStop) => (d = c)
                              /\ (stopAt'[d] = "done") => (stopAt[d] = "done")
        BY Zenon, <1>3, <2>1, <2>3, <3>1
      <3> QED
        BY Zenon, <1>1, <1>4, <1>5, <2>1, <3>1, <3>2 DEF StopInv
    <2> QED
      BY Zenon, <2>2, <2>3
  <1>8. CASE StopAwaits(c)
    <2>1. stopAt'[c] = "done" /\ stopped_ /\ UNCHANGED <<stopped_, stop_requested_>>
      BY Zenon, <1>8 DEF StopAwaits, ServiceType, service
    <2>2. \A d \in Caller : (stopAt'[d] \in InStop) => (stopAt[d] \in InStop)
      BY Zenon, <1>3, <2>1 DEF InStop
    <2> QED
      BY Zenon, <1>1, <1>4, <1>5, <2>1, <2>2 DEF StopInv
  <1>9. CASE StopEnds(c)
    <2>1. /\ stopAt[c] \in InStop /\ stopAt'[c] \notin InStop
          /\ stopped_' /\ stop_requested_' = stop_requested_
      BY <1>9 DEF StopEnds, ServiceType, InStop
    <2>2. \A d \in Caller : stopAt'[d] \notin InStop
      BY Zenon, <1>3, <2>1 DEF StopInv
    <2> QED
      BY Zenon, <1>1, <1>4, <1>5, <2>1, <2>2 DEF StopInv
  <1>10. CASE \/ CloseListener(c) \/ delDescriptor(c) \/ ClearDescriptor(c) \/ StopManager(c)
              \/ AwaitPollEnd(c) \/ StopPool(c) \/ StopReclaims(c)
    <2>1. UNCHANGED <<stopped_, stop_requested_>>
      BY Zenon, <1>10 DEF CloseListener, delDescriptor, ClearDescriptor, StopManager, AwaitPollEnd,
         StopPool, StopReclaims, service
    <2>2. stopAt[c] \in InStop /\ stopAt'[c] # "done"
      BY <1>10 DEF CloseListener, delDescriptor, ClearDescriptor, StopManager, AwaitPollEnd,
         StopPool, StopReclaims, ServiceType, InStop
    <2> QED
      BY Zenon, <1>6, <2>1, <2>2
  <1> QED
    BY Zenon, <1>7, <1>8, <1>9, <1>10 DEF StopStep

LEMMA WorkerKeepsStop ==
  ASSUME ServiceType, StopInv, NEW w \in Worker, WorkerStep(w) \/ AcceptFails(w)
  PROVE  StopInv'
  <1>0. w \in Caller /\ w # Outside
    BY Zenon, WorkersCall
  <1>1. UNCHANGED <<stop_requested_, stopped_, main>>
    BY Zenon DEF WorkerStep, TakeTask, AcceptOne, AcceptNone, AcceptFails, readWhenReady,
       ScheduleAccept, StopReturns, TaskDone, service
  <1>2. ASSUME pc[w] # "stopping", stopAt' = stopAt, back' = back,
               \E there \in WorkerPlace \ {"stopping"} : pc' = [pc EXCEPT ![w] = there]
        PROVE  StopInv'
    <2>1. \A v \in Worker : ((pc'[v] = "stopping") <=> (pc[v] = "stopping"))
      BY Zenon, <1>2 DEF ServiceType
    <2> QED
      BY Zenon, <1>1, <1>2, <2>1, StopFrame DEF StopInv
  <1>3. ASSUME pc[w] # "stopping", NEW ret \in {"done", "accept"}, CallStop(w, ret)
        PROVE  StopInv'
    <2>1. stopAt[w] = "no" /\ stopAt' = [stopAt EXCEPT ![w] = "enter"]
      BY Zenon, <1>3 DEF StopInv, CallStop
    <2>2. /\ \A v \in Worker \ {w} : pc'[v] = pc[v] /\ back'[v] = back[v]
          /\ pc'[w] = "stopping" /\ back'[w] # "idle"
      BY <1>3 DEF CallStop, Goto, ServiceType
    <2> QED
      BY Zenon, <1>0, <1>1, <2>1, <2>2, CallKeepsStop
  <1>4. CASE TakeTask(w)
    <2>1. pc[w] # "stopping"
      BY Zenon, <1>4 DEF TakeTask
    <2>2. CASE Head(queue) = "quit" /\ CallStop(w, "done")
      BY Zenon, <1>3, <2>1, <2>2
    <2>3. CASE ~(Head(queue) = "quit" /\ CallStop(w, "done"))
      BY Zenon, <1>2, <1>4, <2>1, <2>3, TakeCases DEF WorkerPlace, CallStop, Goto
    <2> QED
      BY Zenon, <2>2, <2>3
  <1>5. CASE AcceptOne(w)
    BY Zenon, <1>1, <1>5, StopFrame DEF AcceptOne, workers, StopInv
  <1>6. CASE AcceptNone(w)
    BY Zenon, <1>2, <1>6 DEF AcceptNone, Goto, WorkerPlace
  <1>7. CASE AcceptFails(w)
    BY Zenon, <1>3, <1>7 DEF AcceptFails
  <1>8. CASE readWhenReady(w)
    BY Zenon, <1>2, <1>8 DEF readWhenReady, Goto, WorkerPlace
  <1>9. CASE ScheduleAccept(w)
    BY Zenon, <1>2, <1>9 DEF ScheduleAccept, Goto, WorkerPlace
  <1>10. CASE TaskDone(w)
    BY Zenon, <1>2, <1>10 DEF TaskDone, Goto, WorkerPlace
  <1>11. CASE StopReturns(w)
    <2>1. /\ pc[w] = "stopping" /\ stopAt[w] = "done" /\ stopAt'[w] = "no" /\ back' = back
          /\ pc'[w] \in {"done", "accept"}
          /\ \A v \in Worker \ {w} : pc'[v] = pc[v]
          /\ \A d \in Caller \ {w} : stopAt'[d] = stopAt[d]
      BY <1>0, <1>11 DEF StopReturns, Goto, ServiceType, StopInv
    <2>2. \A d \in Caller : /\ (stopAt'[d] \in InStop) => (stopAt[d] \in InStop)
                            /\ (stopAt'[d] = "done") => stopped_
      BY Zenon, <2>1 DEF InStop, StopInv
    <2>3. \A v \in Worker : (stopAt'[v] # "no") => (pc'[v] = "stopping")
      BY Zenon, <2>1, WorkersCall DEF StopInv
    <2>4. \A v \in Worker : (pc'[v] = "stopping") => (back'[v] # "idle")
      BY Zenon, <2>1 DEF StopInv
    <2>5. /\ (main' = "start") => (stopAt'[Outside] = "no")
          /\ (main' \in {"returned", "delete manager", "destroyed"}) => stopped_
      BY Zenon, <1>0, <1>1, <2>1 DEF StopInv, Caller
    <2> QED
      BY Zenon, <1>1, <2>2, <2>3, <2>4, <2>5, StopAround
  <1> QED
    BY Zenon, <1>4, <1>5, <1>6, <1>7, <1>8, <1>9, <1>10, <1>11 DEF WorkerStep

LEMMA NextStop == ServiceType /\ StopInv /\ [Next]_vars => StopInv'
  <1> SUFFICES ASSUME ServiceType, StopInv, [Next]_vars
               PROVE  StopInv'
    OBVIOUS
  <1>1. ASSUME UNCHANGED <<stopAt, stop_requested_, stopped_, pc, back, main>>
        PROVE  StopInv'
    BY Zenon, <1>1, StopFrame DEF StopInv
  <1>2. CASE UNCHANGED vars
    BY Zenon, <1>1, <1>2 DEF vars
  <1>3. CASE ClientConnects \/ ClientAsksToQuit \/ Tick
    BY Zenon, <1>1, <1>3 DEF ClientConnects, ClientAsksToQuit, Tick, service, workers
  <1>4. ASSUME NEW t \in Timer, NEW delay \in 0..1, addTimer(t, delay)
        PROVE  StopInv'
    BY Zenon, <1>1, <1>4 DEF addTimer, service, workers
  <1>5. CASE StopFromOutside \/ DestroyUnstarted
    <2>1. /\ stopAt[Outside] = "no" /\ stopAt' = [stopAt EXCEPT ![Outside] = "enter"]
          /\ UNCHANGED <<stop_requested_, stopped_, pc, back>>
          /\ (main' = main /\ main # "start") \/ main' = "destroying"
      BY Zenon, <1>5 DEF StopFromOutside, DestroyUnstarted, service, workers, StopInv
    <2>2. Outside \in Caller /\ Outside \notin Worker
      BY Zenon, WorkersCall DEF Caller
    <2> QED
      BY Zenon, <2>1, <2>2, CallKeepsStop
  <1> QED
    BY Zenon, <1>2, <1>3, <1>4, <1>5, MainKeepsStop, StopKeepsStop, WorkerKeepsStop DEF Next

-----------------------------------------------------------------------------
(* stop() and the poll loop *)

LEMMA InitLoop == Init => LoopInv
  BY DEF Init, ServiceInit, ManagerInit, AcceptorInit, LoopInv, Reached, InStop, Looping, NoEvents

(* A step that takes stop() no further. *)
LEMMA LoopFrame ==
  ASSUME LoopInv, UNCHANGED <<mgr_stopped_, listen_fd_>>,
         \A S \in SUBSET InStop : Reached(S)' => Reached(S),
         polling_' <=> (main' \in Looping \cup {"check"}),
         Reached({"pool", "join", "tell"}) => (main' \notin Looping),
         descr' = descr \/ (descr = "garbage" /\ ~batch'.accept),
         edge' = edge \/ edge' = FALSE,
         batch'.accept => (main' \in {"timers", "dispatch"} /\ (batch.accept \/ edge)),
         batch'.now <= now'
  PROVE  LoopInv'
  <1>1. /\ Reached({"polling", "pool", "join", "tell"})' => mgr_stopped_'
        /\ Reached({"pool", "join", "tell"})' => (main' \notin Looping)
        /\ Reached(InStop \ {"close"})' => (listen_fd_' = "closed")
    <2>1. /\ {"polling", "pool", "join", "tell"} \in SUBSET InStop
          /\ {"pool", "join", "tell"} \in SUBSET InStop
          /\ InStop \ {"close"} \in SUBSET InStop
      BY Zenon DEF InStop
    <2> QED
      BY Zenon, <2>1 DEF LoopInv
  <1>2. (listen_fd_' = "open") => (descr' = "live")
    BY Zenon DEF LoopInv
  <1>3. batch'.accept => (descr' # "freed")
    BY Zenon DEF LoopInv
  <1>4. edge' => (listen_fd_' = "open")
    <2>1. edge => (listen_fd_ = "open")
      BY Zenon DEF LoopInv
    <2> QED
      BY Zenon, <2>1
  <1> QED
    BY Zenon, <1>1, <1>2, <1>3, <1>4 DEF LoopInv

LEMMA SameReach ==
  ASSUME UNCHANGED <<stopAt, stopped_>>
  PROVE  \A S : Reached(S)' <=> Reached(S)
  BY Zenon DEF Reached

LEMMA MainKeepsLoop ==
  ASSUME ServiceType, StopInv, LoopInv, MainStep
  PROVE  LoopInv'
  <1>1. /\ UNCHANGED <<mgr_stopped_, listen_fd_, stopAt, stopped_, now>>
        /\ edge' = edge \/ edge' = FALSE
    BY Zenon DEF MainStep, TearDown, Start, Poll, CheckStopped, PollReturns, IssueTimers,
       readIfWaiting, PushAccept, PushQuit, CollectDeleted, StartReturns, DestroyAcceptors,
       DestroyManager, service, manager, listener, timers
  <1>2. \A S \in SUBSET InStop : Reached(S)' => Reached(S)
    BY Zenon, <1>1, SameReach
  <1>3. polling_' <=> (main' \in Looping \cup {"check"})
    <2>1. CASE Poll
      BY Zenon, <2>1 DEF Poll
    <2>2. CASE CheckStopped
      <3>1. \/ polling_' = FALSE /\ main' = "hold"
            \/ polling_' = polling_ /\ polling_ /\ main' = "wait"
        BY Zenon, <2>2 DEF CheckStopped, LoopInv
      <3> QED
        BY ONLY <3>1 DEF Looping
    <2>3. CASE ~Poll /\ ~CheckStopped
      <3>1. /\ polling_' = polling_
            /\ (main' \in Looping \cup {"check"}) <=> (main \in Looping \cup {"check"})
        BY Zenon, <2>3 DEF MainStep, TearDown, Start, PollReturns, IssueTimers,
           readIfWaiting, PushAccept, PushQuit, CollectDeleted, StartReturns, DestroyAcceptors,
           DestroyManager, manager, Looping
      <3> QED
        BY <3>1 DEF LoopInv
    <2> QED
      BY Zenon, <2>1, <2>2, <2>3
  <1>4. (main' \in Looping) => (main \in Looping \/ (main = "check" /\ ~mgr_stopped_))
    BY Zenon DEF MainStep, TearDown, Start, Poll, CheckStopped, PollReturns, IssueTimers,
       readIfWaiting, PushAccept, PushQuit, CollectDeleted, StartReturns, DestroyAcceptors,
       DestroyManager, Looping
  <1>5. Reached({"pool", "join", "tell"}) => (main' \notin Looping)
    BY Zenon, <1>4 DEF LoopInv, Reached
  <1>6. /\ descr' = descr \/ (descr = "garbage" /\ ~batch'.accept)
        /\ batch'.accept => (main' \in {"timers", "dispatch"} /\ (batch.accept \/ edge))
        /\ batch'.now <= now
    <2>1. CASE PollReturns
      BY <1>1, <2>1 DEF PollReturns, ServiceType
    <2>2. CASE IssueTimers
      <3>1. /\ descr' = descr /\ main = "timers"
            /\ \/ main' = main /\ batch' = batch
               \/ main' = "dispatch" /\ batch' = [batch EXCEPT !.now = 0]
        BY Zenon, <2>2 DEF IssueTimers, listener
      <3>2. batch \in [accept : BOOLEAN, quits : Nat, now : Nat] /\ now \in Nat /\ batch.now <= now
        BY Zenon DEF ServiceType, LoopInv
      <3>3. batch'.now <= now /\ batch'.accept = batch.accept
        BY ONLY <3>1, <3>2
      <3> QED
        BY ONLY <3>1, <3>3
    <2>3. CASE readIfWaiting \/ PushQuit
      <3>1. /\ descr' = descr /\ ~batch'.accept /\ batch'.now = batch.now
        <4>1. /\ descr' = descr
              /\ ~batch.accept \/ batch' = [batch EXCEPT !.accept = FALSE]
              /\ \/ batch' = [batch EXCEPT !.accept = FALSE]
                 \/ batch' = [batch EXCEPT !.quits = @ - 1]
              /\ batch \in [accept : BOOLEAN, quits : Nat, now : Nat]
          BY Zenon, <2>3 DEF readIfWaiting, PushQuit, listener, ServiceType
        <4> QED
          BY ONLY <4>1
      <3> QED
        BY Zenon, <3>1 DEF LoopInv
    <2>4. CASE CollectDeleted
      BY <1>1, <2>4 DEF CollectDeleted, NoEvents, ServiceType, LoopInv
    <2>5. CASE ~PollReturns /\ ~IssueTimers /\ ~readIfWaiting /\ ~PushQuit /\ ~CollectDeleted
      <3>1. UNCHANGED <<descr, batch>> /\ main \notin {"timers", "dispatch"}
        BY Zenon, <2>5 DEF MainStep, TearDown, Start, Poll, CheckStopped, PushAccept, StartReturns,
           DestroyAcceptors, DestroyManager, listener
      <3> QED
        BY Zenon, <3>1 DEF LoopInv
    <2> QED
      BY Zenon, <2>1, <2>2, <2>3, <2>4, <2>5
  <1> QED
    BY Zenon, <1>1, <1>2, <1>3, <1>5, <1>6, LoopFrame

LEMMA StopKeepsLoop ==
  ASSUME ServiceType, StopInv, LoopInv, NEW c \in Caller, StopStep(c)
  PROVE  LoopInv'
  <1>1. UNCHANGED <<polling_, main, batch, now>>
    BY Zenon DEF StopStep, StopEnters, StopAwaits, CloseListener, delDescriptor, ClearDescriptor,
       StopManager, AwaitPollEnd, StopPool, StopReclaims, StopEnds, manager, timers
  <1>2. \A d \in Caller \ {c} : stopAt'[d] = stopAt[d]
    BY Zenon DEF StopStep, StopEnters, StopAwaits, CloseListener, delDescriptor, ClearDescriptor,
       StopManager, AwaitPollEnd, StopPool, StopReclaims, StopEnds, ServiceType
  <1>3. ASSUME NEW S, stopped_' = stopped_, stopAt'[c] \notin S \/ stopAt[c] \in S
        PROVE  Reached(S)' => Reached(S)
    BY Zenon, <1>2, <1>3 DEF Reached
  <1>4. \A S : stopAt[c] \in S => Reached(S)
    BY Zenon DEF Reached
  <1> DEFINE S1 == {"polling", "pool", "join", "tell"}
             S2 == {"pool", "join", "tell"}
             S3 == InStop \ {"close"}
  <1>5. /\ Reached(S1) => mgr_stopped_
        /\ Reached(S2) => (main \notin Looping)
        /\ Reached(S3) => (listen_fd_ = "closed")
        /\ polling_ <=> (main \in Looping \cup {"check"})
        /\ (listen_fd_ = "open") => (descr = "live")
        /\ edge => (listen_fd_ = "open")
        /\ batch.accept => (main \in {"timers", "dispatch"} /\ descr # "freed")
        /\ batch.now <= now
    BY Zenon DEF LoopInv
  <1>6. SUFFICES
          /\ Reached(S1)' => mgr_stopped_'
          /\ Reached(S2)' => (main \notin Looping)
          /\ Reached(S3)' => (listen_fd_' = "closed")
          /\ (listen_fd_' = "open") => (descr' = "live")
          /\ edge' => (listen_fd_' = "open")
          /\ batch.accept => (descr' # "freed")
    <2>1. polling_' <=> (main' \in Looping \cup {"check"})
      BY <1>1, <1>5
    <2> QED
      BY Zenon, <1>1, <1>5, <1>6, <2>1 DEF LoopInv
  <1> HIDE DEF S1, S2, S3
  <1>7. CASE StopEnters(c) \/ StopAwaits(c)
    <2>1. UNCHANGED <<stopped_, mgr_stopped_, listen_fd_, descr, edge>>
      BY Zenon, <1>7 DEF StopEnters, StopAwaits, service, manager, listener
    <2>2. stopAt'[c] \notin S1 /\ stopAt'[c] \notin S2 /\ stopAt'[c] \notin S3
      BY <1>7 DEF StopEnters, StopAwaits, ServiceType, S1, S2, S3, InStop
    <2>3. (Reached(S1)' => Reached(S1)) /\ (Reached(S2)' => Reached(S2)) /\ (Reached(S3)' => Reached(S3))
      BY Zenon, <1>3, <2>1, <2>2
    <2> QED
      BY <1>5, <2>1, <2>3
  <1>8. CASE CloseListener(c)
    <2>1. /\ UNCHANGED <<stopped_, mgr_stopped_, descr>> /\ listen_fd_' = "closed" /\ edge' = FALSE
          /\ stopAt'[c] = "delete"
      BY Zenon, <1>8 DEF CloseListener, service, manager, ServiceType
    <2>2. stopAt'[c] \notin S1 /\ stopAt'[c] \notin S2
      BY Zenon, <2>1 DEF S1, S2
    <2>3. (Reached(S1)' => Reached(S1)) /\ (Reached(S2)' => Reached(S2))
      BY Zenon, <1>3, <2>1, <2>2
    <2> QED
      BY <1>5, <2>1, <2>3
  <1>9. CASE delDescriptor(c) \/ ClearDescriptor(c)
    <2>1. /\ UNCHANGED <<stopped_, mgr_stopped_, listen_fd_, edge>> /\ descr' \in {descr, "garbage"}
          /\ stopAt[c] \in {"delete", "clear"} /\ stopAt'[c] \in {"clear", "manager"}
      BY Zenon, <1>9 DEF delDescriptor, ClearDescriptor, service, manager, ServiceType
    <2>2. stopAt'[c] \notin S1 /\ stopAt'[c] \notin S2 /\ stopAt[c] \in S3
      BY Zenon, <2>1 DEF S1, S2, S3, InStop
    <2>3. /\ (Reached(S1)' => Reached(S1)) /\ (Reached(S2)' => Reached(S2))
          /\ (Reached(S3)' => Reached(S3)) /\ Reached(S3)
      BY Zenon, <1>3, <1>4, <2>1, <2>2
    <2> QED
      BY <1>5, <2>1, <2>3
  <1>10. CASE StopManager(c)
    <2>1. /\ UNCHANGED <<stopped_, listen_fd_, edge, descr>> /\ mgr_stopped_' = TRUE
          /\ stopAt[c] = "manager" /\ stopAt'[c] = "polling"
      BY Zenon, <1>10 DEF StopManager, service, listener, ServiceType
    <2>2. stopAt'[c] \notin S2 /\ stopAt[c] \in S3
      BY Zenon, <2>1 DEF S2, S3, InStop
    <2>3. (Reached(S2)' => Reached(S2)) /\ (Reached(S3)' => Reached(S3))
      BY Zenon, <1>3, <2>1, <2>2
    <2> QED
      BY <1>5, <2>1, <2>3
  <1>11. CASE AwaitPollEnd(c)
    <2>1. /\ UNCHANGED <<stopped_, mgr_stopped_, listen_fd_, edge, descr>>
          /\ ~polling_ /\ stopAt[c] = "polling" /\ stopAt'[c] = "pool"
      BY Zenon, <1>11 DEF AwaitPollEnd, service, manager, listener, ServiceType
    <2>2. stopAt[c] \in S1 /\ stopAt[c] \in S3
      BY Zenon, <2>1 DEF S1, S3, InStop
    <2>3. (Reached(S1)' => Reached(S1)) /\ (Reached(S3)' => Reached(S3))
      BY Zenon, <1>3, <2>1, <2>2
    <2> QED
      BY Zenon, <1>5, <2>1, <2>3
  <1>12. CASE StopPool(c) \/ StopReclaims(c) \/ StopEnds(c)
    <2>1. /\ UNCHANGED <<mgr_stopped_, listen_fd_, edge>>
          /\ stopAt[c] \in {"pool", "join", "tell"}
      BY Zenon, <1>12 DEF StopPool, StopReclaims, StopEnds, manager, listener, ServiceType
    <2>2. Reached(S1) /\ Reached(S2) /\ Reached(S3)
      BY Zenon, <1>4, <2>1 DEF S1, S2, S3, InStop
    <2>3. mgr_stopped_ /\ main \notin Looping /\ listen_fd_ = "closed"
      BY Zenon, <1>5, <2>2
    <2>4. ~batch.accept
      BY Zenon, <1>5, <2>3 DEF Looping
    <2>5. listen_fd_' # "open" /\ listen_fd_' = "closed" /\ ~edge' /\ mgr_stopped_'
      BY <1>5, <2>1, <2>3
    <2> QED
      BY Zenon, <2>3, <2>4, <2>5
  <1> QED
    BY Zenon, <1>7, <1>8, <1>9, <1>10, <1>11, <1>12 DEF StopStep

(* A thread comes into stop() or leaves it: its body is as before. *)
LEMMA ReachAround ==
  ASSUME stopped_' = stopped_,
         \A d \in Caller : (stopAt'[d] \in InStop \/ stopAt[d] \in InStop) => (stopAt'[d] = stopAt[d])
  PROVE  \A S \in SUBSET InStop : Reached(S)' <=> Reached(S)
  <1> SUFFICES ASSUME NEW S \in SUBSET InStop
               PROVE  Reached(S)' <=> Reached(S)
    OBVIOUS
  <1>1. \A d \in Caller : (stopAt'[d] \in S) <=> (stopAt[d] \in S)
    BY Zenon
  <1> QED
    BY <1>1 DEF Reached

LEMMA OthersReach ==
  ASSUME ServiceType, StopInv,
         \/ UNCHANGED vars
         \/ ClientConnects \/ ClientAsksToQuit \/ Tick
         \/ \E t \in Timer, delay \in 0..1 : addTimer(t, delay)
         \/ StopFromOutside \/ DestroyUnstarted \/ MainStep
         \/ \E w \in Worker : WorkerStep(w) \/ AcceptFails(w)
  PROVE  /\ stopped_' = stopped_
         /\ \A S \in SUBSET InStop : Reached(S)' <=> Reached(S)
  <1>1. stopped_' = stopped_
    BY Zenon DEF vars, ClientConnects, ClientAsksToQuit, Tick, addTimer, StopFromOutside, DestroyUnstarted,
       MainStep, TearDown, Start, Poll, CheckStopped, PollReturns, IssueTimers, readIfWaiting,
       PushAccept, PushQuit, CollectDeleted, StartReturns, DestroyAcceptors, DestroyManager,
       WorkerStep, TakeTask, AcceptOne, AcceptNone, AcceptFails, readWhenReady, ScheduleAccept,
       StopReturns, TaskDone, service
  <1>2. ASSUME NEW c \in Caller, stopAt[c] \in {"no", "done"},
               \E there \in {"no", "enter"} : stopAt' = [stopAt EXCEPT ![c] = there]
        PROVE  \A S \in SUBSET InStop : Reached(S)' <=> Reached(S)
    <2>1. stopAt[c] \notin InStop /\ stopAt'[c] \notin InStop
      BY <1>2 DEF InStop, ServiceType
    <2>2. \A d \in Caller : (d # c) => (stopAt'[d] = stopAt[d])
      BY Zenon, <1>2 DEF ServiceType
    <2> QED
      BY Zenon, <1>1, <2>1, <2>2, ReachAround
  <1>3. CASE UNCHANGED stopAt
    BY Zenon, <1>1, <1>3, ReachAround
  <1>4. CASE \/ UNCHANGED vars \/ ClientConnects \/ ClientAsksToQuit \/ Tick \/ MainStep
             \/ \E t \in Timer, delay \in 0..1 : addTimer(t, delay)
    <2>1. UNCHANGED stopAt
      BY Zenon, <1>4 DEF vars, ClientConnects, ClientAsksToQuit, Tick, addTimer, MainStep, TearDown,
         Start, Poll, CheckStopped, PollReturns, IssueTimers, readIfWaiting, PushAccept, PushQuit,
         CollectDeleted, StartReturns, DestroyAcceptors, DestroyManager
    <2> QED
      BY Zenon, <1>3, <2>1
  <1>5. CASE StopFromOutside \/ DestroyUnstarted
    <2>1. PICK c \in Caller : stopAt[c] = "no" /\ stopAt' = [stopAt EXCEPT ![c] = "enter"]
      BY Zenon, <1>5 DEF StopFromOutside, DestroyUnstarted, Caller, StopInv
    <2> QED
      BY Zenon, <1>1, <1>2, <2>1
  <1>6. ASSUME NEW w \in Worker, WorkerStep(w) \/ AcceptFails(w)
        PROVE  \A S \in SUBSET InStop : Reached(S)' <=> Reached(S)
    <2>0. w \in Caller
      BY Zenon, WorkersCall
    <2>1. CASE StopReturns(w)
      BY Zenon, <1>2, <2>0, <2>1 DEF StopReturns
    <2>2. CASE AcceptFails(w)
      BY Zenon, <1>2, <2>0, <2>2 DEF AcceptFails, CallStop, StopInv
    <2>3. CASE TakeTask(w)
      <3>1. stopAt' = stopAt \/ stopAt' = [stopAt EXCEPT ![w] = "enter"]
        BY Zenon, <2>3, TakeCases
      <3>2. stopAt[w] = "no"
        BY Zenon, <2>3 DEF TakeTask, StopInv
      <3> QED
        BY Zenon, <1>2, <1>3, <2>0, <3>1, <3>2
    <2>4. CASE ~StopReturns(w) /\ ~AcceptFails(w) /\ ~TakeTask(w)
      BY Zenon, <1>3, <1>6, <2>4 DEF WorkerStep, AcceptOne, AcceptNone, readWhenReady,
         ScheduleAccept, TaskDone
    <2> QED
      BY Zenon, <2>1, <2>2, <2>3, <2>4
  <1> QED
    BY Zenon, <1>1, <1>4, <1>5, <1>6

LEMMA NextLoop == ServiceType /\ StopInv /\ LoopInv /\ [Next]_vars => LoopInv'
  <1> SUFFICES ASSUME ServiceType, StopInv, LoopInv, [Next]_vars
               PROVE  LoopInv'
    OBVIOUS
  <1>1. ASSUME UNCHANGED <<mgr_stopped_, polling_, listen_fd_, main, descr, edge, batch>>, now' >= now,
               \A S \in SUBSET InStop : Reached(S)' <=> Reached(S)
        PROVE  LoopInv'
    <2>1. batch'.now <= now'
      <3>1. /\ batch' = batch /\ now' >= now /\ now \in Nat /\ now' \in Nat
            /\ batch \in [accept : BOOLEAN, quits : Nat, now : Nat] /\ batch.now <= now
        BY Zenon, <1>1, NextType DEF LoopInv, ServiceType
      <3> QED
        BY ONLY <3>1
    <2>2. Reached({"pool", "join", "tell"}) => (main' \notin Looping)
      BY Zenon, <1>1 DEF LoopInv
    <2>3. batch'.accept => (main' \in {"timers", "dispatch"} /\ batch.accept)
      BY Zenon, <1>1 DEF LoopInv
    <2>4. polling_' <=> (main' \in Looping \cup {"check"})
      BY <1>1 DEF LoopInv
    <2> QED
      BY Zenon, <1>1, <2>1, <2>2, <2>3, <2>4, LoopFrame
  <1>2. now' = now \/ now' = now + 1
    BY Zenon DEF Next, vars, ClientConnects, ClientAsksToQuit, Tick, addTimer, StopFromOutside,
       DestroyUnstarted, MainStep, TearDown, Start, Poll, CheckStopped, PollReturns, IssueTimers,
       readIfWaiting, PushAccept, PushQuit, CollectDeleted, StartReturns, DestroyAcceptors,
       DestroyManager, StopStep, StopEnters, StopAwaits, CloseListener, delDescriptor,
       ClearDescriptor, StopManager, AwaitPollEnd, StopPool, StopReclaims, StopEnds,
       WorkerStep, TakeTask, AcceptOne, AcceptNone, AcceptFails, readWhenReady, ScheduleAccept,
       StopReturns, TaskDone, timers
  <1>3. now' >= now
    BY <1>2 DEF ServiceType
  <1>4. CASE \/ UNCHANGED vars \/ ClientAsksToQuit \/ Tick
             \/ \E t \in Timer, delay \in 0..1 : addTimer(t, delay)
             \/ StopFromOutside
             \/ \E w \in Worker : WorkerStep(w) \/ AcceptFails(w)
    <2>1. UNCHANGED <<mgr_stopped_, polling_, listen_fd_, main, descr, edge, batch>>
      BY Zenon, <1>4 DEF vars, ClientAsksToQuit, Tick, addTimer, StopFromOutside, WorkerStep, TakeTask,
         AcceptOne, AcceptNone, AcceptFails, readWhenReady, ScheduleAccept, StopReturns, TaskDone,
         manager, listener
    <2>2. \A S \in SUBSET InStop : Reached(S)' <=> Reached(S)
      BY Zenon, <1>4, OthersReach
    <2> QED
      BY Zenon, <1>1, <1>3, <2>1, <2>2
  <1>5. CASE ClientConnects
    <2>1. /\ UNCHANGED <<mgr_stopped_, polling_, listen_fd_, main, descr, batch, now, stopAt, stopped_>>
          /\ edge' = TRUE /\ listen_fd_ = "open"
      BY Zenon, <1>5 DEF ClientConnects, service, manager, timers
    <2>2. polling_' <=> (main' \in Looping \cup {"check"})
      BY <2>1 DEF LoopInv
    <2> QED
      BY Zenon, <2>1, <2>2, SameReach DEF LoopInv
  <1>6. CASE DestroyUnstarted
    <2>1. /\ UNCHANGED <<mgr_stopped_, polling_, listen_fd_, descr, edge, batch, now>>
          /\ main = "start" /\ main' = "destroying"
      BY Zenon, <1>6 DEF DestroyUnstarted, manager, listener, timers
    <2>2. \A S \in SUBSET InStop : Reached(S)' => Reached(S)
      BY Zenon, <1>6, OthersReach
    <2>3. polling_' <=> (main' \in Looping \cup {"check"})
      BY <2>1 DEF LoopInv, Looping
    <2>4. batch'.now <= now'
      BY Zenon, <2>1 DEF LoopInv
    <2>5. main' \notin Looping /\ ~batch'.accept
      BY Zenon, <2>1 DEF LoopInv, Looping
    <2> QED
      BY Zenon, <2>1, <2>2, <2>3, <2>4, <2>5, LoopFrame
  <1> QED
    BY Zenon, <1>4, <1>5, <1>6, MainKeepsLoop, StopKeepsLoop DEF Next

-----------------------------------------------------------------------------
(* stop() and the workers *)

LEMMA InitJoin == Init => JoinInv
  BY DEF Init, ServiceInit, ManagerInit, JoinInv, Reached

Ends == {"join", "tell"}

(* What a step does with the queue. *)
QueueStep ==
    /\ (\E i \in 1..Len(queue') : queue'[i] = "NULL") => (\E i \in 1..Len(queue) : queue[i] = "NULL")
    /\ \A i, j \in 1..Len(queue') : (queue'[i] = "NULL" /\ i < j) => (queue'[j] \notin Timer)
    /\ (NoTimerQueued /\ Reached(Ends)) => NoTimerQueued'

LEMMA QueueStays ==
  ASSUME JoinInv, queue' = queue
  PROVE  QueueStep
  BY Zenon DEF JoinInv, QueueStep, NoTimerQueued

LEMMA QueueAppends ==
  ASSUME ServiceType, JoinInv, NEW x \in Callback \ {"NULL"}, queue' = Append(queue, x),
         (x \in Timer) => ~Reached(Ends)
  PROVE  QueueStep
  <1>1. /\ Len(queue) \in Nat /\ Len(queue') = Len(queue) + 1
        /\ \A i \in 1..Len(queue) : queue'[i] = queue[i]
        /\ queue'[Len(queue) + 1] = x
        /\ \A i \in 1..Len(queue') : i \in 1..Len(queue) \/ i = Len(queue) + 1
    <2>1. queue \in Seq(Callback) /\ x \in Callback
      BY Zenon DEF ServiceType
    <2> QED
      BY <2>1, AppendFact
  <1>2. ASSUME NEW i \in 1..Len(queue'), queue'[i] = "NULL"
        PROVE  i \in 1..Len(queue) /\ queue[i] = "NULL"
    BY Zenon, <1>1, <1>2
  <1>3. ASSUME NEW i \in 1..Len(queue'), NEW j \in 1..Len(queue'), queue'[i] = "NULL", i < j
        PROVE  queue'[j] \notin Timer
    <2>1. i \in 1..Len(queue) /\ queue[i] = "NULL"
      BY Zenon, <1>2, <1>3
    <2>2. Reached(Ends)
      BY Zenon, <2>1 DEF JoinInv, Ends
    <2> QED
      BY Zenon, <1>1, <1>3, <2>1, <2>2 DEF JoinInv
  <1>4. (NoTimerQueued /\ Reached(Ends)) => NoTimerQueued'
    BY Zenon, <1>1 DEF NoTimerQueued
  <1> QED
    BY Zenon, <1>2, <1>3, <1>4 DEF QueueStep

LEMMA QueueShifts ==
  ASSUME ServiceType, JoinInv, queue # <<>>, queue' = Tail(queue)
  PROVE  QueueStep /\ ((Head(queue) = "NULL") => NoTimerQueued')
  <1>1. /\ Len(queue) \in Nat \ {0} /\ Head(queue) = queue[1]
        /\ \A i \in 1..Len(queue') : i + 1 \in 2..Len(queue) /\ queue'[i] = queue[i + 1]
    <2>1. queue \in Seq(Callback)
      BY Zenon DEF ServiceType
    <2> QED
      BY <2>1, TailFact
  <1>2. \A i \in 1..Len(queue') : i \in Int /\ i + 1 \in 1..Len(queue) /\ 1 < i + 1 /\ 1 \in 1..Len(queue)
    BY <1>1
  <1>3. ASSUME NEW i \in 1..Len(queue'), queue'[i] = "NULL"
        PROVE  \E k \in 1..Len(queue) : queue[k] = "NULL"
    BY Zenon, <1>1, <1>2, <1>3
  <1>4. ASSUME NEW i \in 1..Len(queue'), NEW j \in 1..Len(queue'), queue'[i] = "NULL", i < j
        PROVE  queue'[j] \notin Timer
    <2>1. i + 1 < j + 1
      BY <1>2, <1>4
    <2>2. queue[i + 1] = "NULL" /\ queue'[j] = queue[j + 1]
      BY Zenon, <1>1, <1>4
    <2>3. i + 1 \in 1..Len(queue) /\ j + 1 \in 1..Len(queue)
      BY Zenon, <1>2
    <2> QED
      BY Zenon, <2>1, <2>2, <2>3 DEF JoinInv
  <1>5. ASSUME NoTimerQueued, NEW i \in 1..Len(queue')
        PROVE  queue'[i] \notin Timer
    BY Zenon, <1>1, <1>2, <1>5 DEF NoTimerQueued
  <1>6. ASSUME Head(queue) = "NULL", NEW i \in 1..Len(queue')
        PROVE  queue'[i] \notin Timer
    <2>1. queue[1] = "NULL" /\ queue'[i] = queue[i + 1]
      BY Zenon, <1>1, <1>6
    <2>2. i + 1 \in 1..Len(queue) /\ 1 < i + 1 /\ 1 \in 1..Len(queue)
      BY Zenon, <1>2
    <2> QED
      BY Zenon, <2>1, <2>2 DEF JoinInv
  <1> QED
    BY Zenon, <1>3, <1>4, <1>5, <1>6 DEF QueueStep, NoTimerQueued

(* What a worker may be doing once the others were joined. *)
Joined(w) == pc[w] = "ended" \/ (w = last_worker_ /\ pc[w] \in {"stopping", "done", "accept"})

LEMMA JoinFrame ==
  ASSUME JoinInv, QueueStep, last_worker_' = last_worker_,
         Reached(Ends)' <=> Reached(Ends), Reached({"tell"})' <=> Reached({"tell"}),
         \A w \in Worker : (pc'[w] = "ended" /\ pc[w] # "ended") =>
            (Reached(Ends) /\ (w = last_worker_ \/ NoTimerQueued')),
         Reached({"tell"}) => \A w \in Worker : Joined(w)'
  PROVE  JoinInv'
  <1>1. (\E i \in 1..Len(queue') : queue'[i] = "NULL") => Reached({"join", "tell"})'
    BY Zenon DEF QueueStep, JoinInv, Ends
  <1>2. \A w \in Worker : (pc'[w] = "ended") =>
          (Reached({"join", "tell"})' /\ (w = last_worker_' \/ NoTimerQueued'))
    BY Zenon DEF QueueStep, JoinInv, Ends
  <1>3. (last_worker_' # Outside) => Reached({"tell"})'
    BY Zenon DEF JoinInv
  <1>4. Reached({"tell"})' =>
          \A w \in Worker : pc'[w] = "ended"
             \/ (w = last_worker_' /\ pc'[w] \in {"stopping", "done", "accept"})
    BY Zenon DEF Joined
  <1> QED
    BY Zenon, <1>1, <1>2, <1>3, <1>4 DEF JoinInv, QueueStep

LEMMA SameWorkersJoin ==
  ASSUME JoinInv, QueueStep, UNCHANGED <<pc, last_worker_>>,
         Reached(Ends)' <=> Reached(Ends), Reached({"tell"})' <=> Reached({"tell"})
  PROVE  JoinInv'
  <1>1. Reached({"tell"}) => \A w \in Worker : Joined(w)'
    BY Zenon DEF JoinInv, Joined
  <1> QED
    BY Zenon, <1>1, JoinFrame

LEMMA MainKeepsJoin ==
  ASSUME ServiceType, StopInv, LoopInv, JoinInv, MainStep
  PROVE  JoinInv'
  <1>1. (Reached(Ends)' <=> Reached(Ends)) /\ (Reached({"tell"})' <=> Reached({"tell"}))
    BY Zenon, OthersReach DEF Ends, InStop
  <1>2. UNCHANGED <<pc, last_worker_>>
    BY Zenon DEF MainStep, TearDown, Start, Poll, CheckStopped, PollReturns, IssueTimers,
       readIfWaiting, PushAccept, PushQuit, CollectDeleted, StartReturns, DestroyAcceptors,
       DestroyManager, workers
  <1>3. CASE IssueTimers
    <2>1. main = "timers" /\ (queue' = queue \/ \E t \in Timer : queue' = Append(queue, t))
      BY Zenon, <1>3 DEF IssueTimers, Due, ServiceType
    <2>2. ~Reached(Ends)
      BY Zenon, <2>1 DEF LoopInv, Looping, Reached, Ends
    <2>3. \A t \in Timer : t \in Callback \ {"NULL"}
      BY Zenon, ServiceBounds DEF Callback
    <2>4. ASSUME NEW t \in Timer, queue' = Append(queue, t)
          PROVE  QueueStep
      BY Zenon, <2>2, <2>3, <2>4, QueueAppends
    <2>5. QueueStep
      BY Zenon, <2>1, <2>4, QueueStays
    <2> QED
      BY Zenon, <1>1, <1>2, <2>5, SameWorkersJoin
  <1>4. CASE PushAccept \/ PushQuit
    <2>1. PICK x \in {"accept", "quit"} : queue' = Append(queue, x)
      BY Zenon, <1>4 DEF PushAccept, PushQuit
    <2>2. x \in Callback \ {"NULL"} /\ x \notin Timer
      BY Zenon, <2>1, ServiceBounds DEF Callback
    <2>3. QueueStep
      BY Zenon, <2>1, <2>2, QueueAppends
    <2> QED
      BY Zenon, <1>1, <1>2, <2>3, SameWorkersJoin
  <1>5. CASE DestroyManager
    <2>1. \A i \in 1..Len(queue') : FALSE
      <3>1. queue' = <<>>
        BY Zenon, <1>5 DEF DestroyManager
      <3> QED
        BY ONLY <3>1
    <2>2. QueueStep
      BY Zenon, <2>1 DEF QueueStep, NoTimerQueued
    <2> QED
      BY Zenon, <1>1, <1>2, <2>2, SameWorkersJoin
  <1>6. CASE ~IssueTimers /\ ~PushAccept /\ ~PushQuit /\ ~DestroyManager
    <2>1. queue' = queue
      BY Zenon, <1>6 DEF MainStep, TearDown, Start, Poll, CheckStopped, PollReturns,
         readIfWaiting, CollectDeleted, StartReturns, DestroyAcceptors
    <2> QED
      BY Zenon, <1>1, <1>2, <2>1, SameWorkersJoin, QueueStays
  <1> QED
    BY Zenon, <1>3, <1>4, <1>5, <1>6

LEMMA StopKeepsJoin ==
  ASSUME ServiceType, StopInv, LoopInv, JoinInv, NEW c \in Caller, StopStep(c)
  PROVE  JoinInv'
  <1>1. pc' = pc
    BY Zenon DEF StopStep, StopEnters, StopAwaits, CloseListener, delDescriptor, ClearDescriptor,
       StopManager, AwaitPollEnd, StopPool, StopReclaims, StopEnds, workers
  <1>2. \A d \in Caller : (d # c) => (stopAt'[d] = stopAt[d])
    BY Zenon DEF StopStep, StopEnters, StopAwaits, CloseListener, delDescriptor, ClearDescriptor,
       StopManager, AwaitPollEnd, StopPool, StopReclaims, StopEnds, ServiceType
  <1>3. ASSUME stopAt[c] \in InStop \ {"tell"}, stopped_' = stopped_, stopAt'[c] # "tell"
        PROVE  ~Reached({"tell"}) /\ ~Reached({"tell"})'
    BY Zenon, <1>2, <1>3 DEF Reached, StopInv, InStop
  <1>4. CASE \/ StopEnters(c) \/ StopAwaits(c) \/ CloseListener(c) \/ delDescriptor(c)
             \/ ClearDescriptor(c) \/ StopManager(c) \/ AwaitPollEnd(c)
    <2>1. UNCHANGED <<queue, last_worker_, stopped_>>
      BY Zenon, <1>4 DEF StopEnters, StopAwaits, CloseListener, delDescriptor, ClearDescriptor,
         StopManager, AwaitPollEnd, workers, service
    <2>2. stopAt[c] \notin Ends /\ stopAt'[c] \notin Ends
      BY Zenon, <1>4 DEF StopEnters, StopAwaits, CloseListener, delDescriptor, ClearDescriptor,
         StopManager, AwaitPollEnd, ServiceType, Ends
    <2>3. \A d \in Caller : /\ (stopAt'[d] \in Ends) <=> (stopAt[d] \in Ends)
                            /\ (stopAt'[d] \in {"tell"}) <=> (stopAt[d] \in {"tell"})
      BY Zenon, <1>2, <2>2 DEF Ends
    <2>4. (Reached(Ends)' <=> Reached(Ends)) /\ (Reached({"tell"})' <=> Reached({"tell"}))
      BY <2>1, <2>3 DEF Reached
    <2> QED
      BY Zenon, <1>1, <2>1, <2>4, SameWorkersJoin, QueueStays
  <1>5. CASE StopPool(c)
    <2>1. /\ stopAt[c] = "pool" /\ stopAt'[c] = "join" /\ queue' = queue \o Nulls
          /\ last_worker_' = last_worker_ /\ stopped_' = stopped_ /\ ~stopped_
      BY Zenon, <1>5 DEF StopPool, Nulls, workers, service, ServiceType, StopInv, InStop
    <2>2. ~Reached(Ends)
      BY Zenon, <2>1 DEF Reached, Ends, StopInv, InStop
    <2>3. Reached({"join", "tell"})' /\ ~Reached({"tell"}) /\ ~Reached({"tell"})'
      BY Zenon, <1>3, <2>1 DEF Reached, InStop
    <2>4. /\ \A i \in 1..Len(queue) : queue[i] # "NULL"
          /\ \A w \in Worker : pc[w] # "ended"
          /\ last_worker_ = Outside
      BY Zenon, <2>2, <2>3 DEF JoinInv, Ends
    <2>5. ASSUME NEW i \in 1..Len(queue'), NEW j \in 1..Len(queue'), queue'[i] = "NULL", i < j
          PROVE  queue'[j] \notin Timer
      <3>1. queue \in Seq(Callback) /\ "NULL" \in Callback /\ "NULL" \notin Timer
        BY Zenon, ServiceBounds DEF ServiceType, Callback
      <3>2. /\ Len(queue) \in Nat
            /\ \A k \in 1..Len(queue) : queue'[k] = queue[k]
            /\ \A k \in 1..Len(queue') : k \in 1..Len(queue) \/ (k > Len(queue) /\ queue'[k] = "NULL")
        <4>1. PICK q : q = queue' /\ q = queue \o Nulls
          BY Zenon, <2>1
        <4>2. /\ Len(queue) \in Nat
              /\ \A k \in 1..Len(queue) : q[k] = queue[k]
              /\ \A k \in 1..Len(q) : k \in 1..Len(queue) \/ (k > Len(queue) /\ q[k] = "NULL")
          BY <3>1, <4>1, NullsFact
        <4> QED
          BY Zenon, <4>1, <4>2
      <3>3. i > Len(queue) /\ j > Len(queue)
        <4>1. i > Len(queue)
          BY Zenon, <2>4, <2>5, <3>2
        <4> QED
          BY <2>5, <3>2, <4>1
      <3>4. j \notin 1..Len(queue)
        BY <3>2, <3>3
      <3> QED
        BY Zenon, <3>1, <3>2, <3>4
    <2> QED
      BY Zenon, <1>1, <2>1, <2>3, <2>4, <2>5 DEF JoinInv
  <1>6. CASE StopReclaims(c)
    <2>1. /\ stopAt[c] = "join" /\ stopAt'[c] = "tell" /\ queue' = queue /\ last_worker_' = c
          /\ stopped_' = stopped_ /\ ~stopped_
          /\ \A w \in Worker \ {c} : pc[w] = "ended"
      BY Zenon, <1>6 DEF StopReclaims, service, ServiceType, StopInv, InStop
    <2>2. Reached({"join", "tell"})' /\ Reached({"tell"})'
      BY Zenon, <2>1 DEF Reached
    <2>3. last_worker_ = Outside
      BY Zenon, <2>1 DEF JoinInv, Reached, StopInv, InStop
    <2>4. \A w \in Worker : (pc[w] = "ended") => NoTimerQueued
      BY Zenon, <2>3, WorkersCall DEF JoinInv
    <2>5. (c \in Worker) => (pc[c] = "stopping")
      BY Zenon, <2>1 DEF StopInv
    <2>6. \A w \in Worker :
            pc'[w] = "ended" \/ (w = last_worker_' /\ pc'[w] \in {"stopping", "done", "accept"})
      BY Zenon, <1>1, <2>1, <2>5
    <2>7. \A w \in Worker : (pc'[w] = "ended") => NoTimerQueued'
      BY Zenon, <1>1, <2>1, <2>4 DEF NoTimerQueued
    <2> QED
      BY Zenon, <2>1, <2>2, <2>6, <2>7 DEF JoinInv
  <1>7. CASE StopEnds(c)
    <2>1. UNCHANGED <<queue, last_worker_>> /\ stopped_' /\ stopAt[c] = "tell"
      BY Zenon, <1>7 DEF StopEnds, workers
    <2>2. /\ Reached(Ends)' /\ Reached({"tell"})'
          /\ Reached(Ends) /\ Reached({"tell"})
      BY Zenon, <2>1 DEF Reached, Ends
    <2> QED
      BY Zenon, <1>1, <2>1, <2>2, SameWorkersJoin, QueueStays
  <1> QED
    BY Zenon, <1>4, <1>5, <1>6, <1>7 DEF StopStep

(* A worker moves itself only. *)
LEMMA WorkerMoves ==
  ASSUME ServiceType, NEW w \in Worker, WorkerStep(w) \/ AcceptFails(w)
  PROVE  /\ last_worker_' = last_worker_ /\ main' = main
         /\ \A v \in Worker : (v # w) => (pc'[v] = pc[v] /\ back'[v] = back[v])
  <1>1. last_worker_' = last_worker_ /\ main' = main
    BY Zenon DEF WorkerStep, TakeTask, AcceptOne, AcceptNone, AcceptFails, readWhenReady,
       ScheduleAccept, StopReturns, TaskDone, workers
  <1>2. (back' = back) \/ (\E there : back' = [back EXCEPT ![w] = there])
    <2>1. CASE TakeTask(w)
      BY Zenon, <2>1, TakeCases
    <2>2. CASE ~TakeTask(w)
      BY Zenon, <2>2 DEF WorkerStep, AcceptOne, AcceptNone, AcceptFails, readWhenReady,
         ScheduleAccept, StopReturns, TaskDone, CallStop, workers
    <2> QED
      BY Zenon, <2>1, <2>2
  <1>3. (pc' = pc) \/ (\E there : pc' = [pc EXCEPT ![w] = there])
    <2>1. CASE TakeTask(w)
      BY Zenon, <2>1, TakeCases
    <2>2. CASE ~TakeTask(w)
      BY Zenon, <2>2 DEF WorkerStep, AcceptOne, AcceptNone, AcceptFails, readWhenReady,
         ScheduleAccept, StopReturns, TaskDone, CallStop, Goto, workers
    <2> QED
      BY Zenon, <2>1, <2>2
  <1> QED
    BY Zenon, <1>1, <1>2, <1>3 DEF ServiceType

LEMMA WorkerKeepsJoin ==
  ASSUME ServiceType, StopInv, LoopInv, JoinInv, NEW w \in Worker, WorkerStep(w) \/ AcceptFails(w)
  PROVE  JoinInv'
  <1>1. (Reached(Ends)' <=> Reached(Ends)) /\ (Reached({"tell"})' <=> Reached({"tell"}))
    BY Zenon, OthersReach DEF Ends, InStop
  <1>2. last_worker_' = last_worker_ /\ \A v \in Worker : (v # w) => (pc'[v] = pc[v])
    BY Zenon, WorkerMoves
  <1>3. Reached({"tell"}) => (listen_fd_ = "closed" /\ \A v \in Worker : Joined(v))
    BY Zenon DEF JoinInv, LoopInv, Joined, Reached, InStop
  <1>4. ASSUME QueueStep, pc'[w] # "ended", ~Reached({"tell"}) \/ Joined(w)'
        PROVE  JoinInv'
    <2>1. Reached({"tell"}) => \A v \in Worker : Joined(v)'
      BY Zenon, <1>2, <1>3, <1>4 DEF Joined
    <2> QED
      BY Zenon, <1>1, <1>2, <1>4, <2>1, JoinFrame
  <1>5. CASE TakeTask(w)
    <2>1. ~Reached({"tell"})
      BY Zenon, <1>3, <1>5 DEF TakeTask, Joined
    <2>2. QueueStep /\ ((Head(queue) = "NULL") => NoTimerQueued')
      BY Zenon, <1>5, TakeCases, QueueShifts
    <2>3. CASE Head(queue) = "NULL"
      <3>1. 1 \in 1..Len(queue) /\ queue[1] = "NULL"
        BY <1>5, <2>3, TailFact DEF TakeTask, ServiceType
      <3>2. Reached(Ends) /\ NoTimerQueued'
        BY Zenon, <2>2, <2>3, <3>1 DEF JoinInv, Ends
      <3> QED
        BY Zenon, <1>1, <1>2, <2>1, <2>2, <3>2, JoinFrame
    <2>4. CASE Head(queue) # "NULL"
      <3>1. pc'[w] # "ended"
        BY Zenon, <1>5, <2>4, TakeCases DEF ServiceType
      <3> QED
        BY Zenon, <1>4, <2>1, <2>2, <3>1
    <2> QED
      BY Zenon, <2>3, <2>4
  <1>6. CASE AcceptOne(w) \/ AcceptNone(w) \/ AcceptFails(w)
    <2>1. ~Reached({"tell"})
      BY Zenon, <1>3, <1>6 DEF AcceptOne, AcceptNone, AcceptFails
    <2>2. queue' = queue /\ pc'[w] # "ended"
      BY Zenon, <1>6 DEF AcceptOne, AcceptNone, AcceptFails, CallStop, Goto, workers, ServiceType
    <2> QED
      BY Zenon, <1>4, <2>1, <2>2, QueueStays
  <1>7. CASE readWhenReady(w) \/ ScheduleAccept(w)
    <2>1. ~Reached({"tell"})
      BY Zenon, <1>3, <1>7 DEF readWhenReady, ScheduleAccept, Joined
    <2>2. pc'[w] # "ended"
      BY Zenon, <1>7 DEF readWhenReady, ScheduleAccept, Goto, ServiceType
    <2>3. queue' = queue \/ queue' = Append(queue, "accept")
      BY Zenon, <1>7 DEF readWhenReady, ScheduleAccept
    <2>4. "accept" \in Callback \ {"NULL"} /\ "accept" \notin Timer
      BY Zenon, ServiceBounds DEF Callback
    <2>5. QueueStep
      BY Zenon, <2>3, <2>4, QueueStays, QueueAppends
    <2> QED
      BY Zenon, <1>4, <2>1, <2>2, <2>5
  <1>8. CASE StopReturns(w)
    <2>1. /\ queue' = queue /\ pc[w] = "stopping" /\ pc'[w] \in {"done", "accept"}
          /\ last_worker_' = last_worker_
      BY Zenon, <1>8 DEF StopReturns, Goto, ServiceType, StopInv
    <2>2. ~Reached({"tell"}) \/ Joined(w)'
      BY Zenon, <1>3, <2>1 DEF Joined
    <2> QED
      BY Zenon, <1>4, <2>1, <2>2, QueueStays
  <1>9. CASE TaskDone(w)
    <2>1. queue' = queue /\ pc[w] = "done"
          /\ pc'[w] = IF last_worker_ = w THEN "ended" ELSE "idle"
      BY Zenon, <1>9 DEF TaskDone, Goto, ServiceType
    <2>2. CASE last_worker_ = w
      <3>1. Reached({"tell"}) /\ Reached(Ends)
        BY Zenon, <2>2, WorkersCall DEF JoinInv, Reached, Ends
      <3>2. \A v \in Worker : Joined(v)'
        BY Zenon, <1>2, <1>3, <2>1, <2>2, <3>1 DEF Joined
      <3> QED
        BY Zenon, <1>1, <1>2, <2>1, <2>2, <3>1, <3>2, QueueStays, JoinFrame
    <2>3. CASE last_worker_ # w
      BY Zenon, <1>3, <1>4, <2>1, <2>3, QueueStays DEF Joined
    <2> QED
      BY Zenon, <2>2, <2>3
  <1> QED
    BY Zenon, <1>5, <1>6, <1>7, <1>8, <1>9 DEF WorkerStep

LEMMA NextJoin == ServiceType /\ StopInv /\ LoopInv /\ JoinInv /\ [Next]_vars => JoinInv'
  <1> SUFFICES ASSUME ServiceType, StopInv, LoopInv, JoinInv, [Next]_vars
               PROVE  JoinInv'
    OBVIOUS
  <1>1. CASE \/ UNCHANGED vars \/ ClientConnects \/ ClientAsksToQuit \/ Tick
             \/ \E t \in Timer, delay \in 0..1 : addTimer(t, delay)
             \/ StopFromOutside \/ DestroyUnstarted
    <2>1. UNCHANGED <<queue, pc, last_worker_>>
      BY Zenon, <1>1 DEF vars, ClientConnects, ClientAsksToQuit, Tick, addTimer, StopFromOutside,
         DestroyUnstarted, workers
    <2>2. (Reached(Ends)' <=> Reached(Ends)) /\ (Reached({"tell"})' <=> Reached({"tell"}))
      BY Zenon, <1>1, OthersReach DEF Ends, InStop
    <2> QED
      BY Zenon, <2>1, <2>2, QueueStays, SameWorkersJoin
  <1> QED
    BY Zenon, <1>1, MainKeepsJoin, StopKeepsJoin, WorkerKeepsJoin DEF Next

-----------------------------------------------------------------------------
(* What a sequence has, callback by callback *)

LEMMA AppendHas ==
  ASSUME NEW S, NEW q \in Seq(S), NEW y \in S
  PROVE  /\ Has(Append(q, y), y)
         /\ \A x : (x # y) => (Has(Append(q, y), x) <=> Has(q, x))
         /\ \A x : (Once(q, x) /\ ((x = y) => ~Has(q, x))) => Once(Append(q, y), x)
  <1>1. PICK r : r = Append(q, y)
    BY Zenon
  <1>2. PICK n : /\ \A i \in 1..Len(q) : i \in 1..Len(r) /\ r[i] = q[i]
                 /\ r[n] = y /\ n \in 1..Len(r)
                 /\ \A i \in 1..Len(r) : i \in 1..Len(q) \/ i = n
    BY <1>1, AppendFact
  <1>3. Has(r, y)
    BY Zenon, <1>2 DEF Has
  <1>4. ASSUME NEW x, x # y
        PROVE  Has(r, x) <=> Has(q, x)
    BY Zenon, <1>2, <1>4 DEF Has
  <1>5. ASSUME NEW x, Once(q, x), (x = y) => ~Has(q, x), NEW i \in 1..Len(r), NEW j \in 1..Len(r),
               r[i] = x, r[j] = x
        PROVE  i = j
    <2>1. CASE x = y
      BY Zenon, <1>2, <1>5, <2>1 DEF Has
    <2>2. CASE x # y
      BY Zenon, <1>2, <1>5, <2>2 DEF Once
    <2> QED
      BY Zenon, <2>1, <2>2
  <1> QED
    BY Zenon, <1>1, <1>3, <1>4, <1>5 DEF Once

LEMMA TailHas ==
  ASSUME NEW S, NEW q \in Seq(S), q # <<>>
  PROVE  /\ Has(q, Head(q))
         /\ \A x : Once(q, x) => Once(Tail(q), x)
         /\ Once(q, Head(q)) => ~Has(Tail(q), Head(q))
         /\ \A x : (x # Head(q)) => (Has(Tail(q), x) <=> Has(q, x))
  <1>1. PICK r : r = Tail(q)
    BY Zenon
  <1>2. /\ Head(q) = q[1] /\ 1 \in 1..Len(q)
        /\ \A i \in 1..Len(r) : i + 1 \in 1..Len(q) /\ i + 1 # 1 /\ r[i] = q[i + 1]
        /\ \A i \in 1..Len(q) : i = 1 \/ (i - 1 \in 1..Len(r) /\ r[i - 1] = q[i])
        /\ \A i, j \in 1..Len(r) : (i + 1 = j + 1) => (i = j)
    BY <1>1, TailFact
  <1>3. Has(q, Head(q))
    BY Zenon, <1>2 DEF Has
  <1>4. ASSUME NEW x, Once(q, x), NEW i \in 1..Len(r), NEW j \in 1..Len(r), r[i] = x, r[j] = x
        PROVE  i = j
    <2>1. /\ i + 1 \in 1..Len(q) /\ q[i + 1] = x
          /\ j + 1 \in 1..Len(q) /\ q[j + 1] = x
      BY Zenon, <1>2, <1>4
    <2>2. PICK k, l \in 1..Len(q) : k = i + 1 /\ l = j + 1 /\ q[k] = x /\ q[l] = x
      BY Zenon, <2>1
    <2>3. k = l
      BY Zenon, <1>4, <2>2 DEF Once
    <2> QED
      BY Zenon, <1>2, <2>2, <2>3
  <1>5. ASSUME Once(q, Head(q)), NEW i \in 1..Len(r), r[i] = Head(q)
        PROVE  FALSE
    <2>1. q[i + 1] = Head(q) /\ q[1] = Head(q) /\ i + 1 # 1
          /\ i + 1 \in 1..Len(q) /\ 1 \in 1..Len(q)
      BY Zenon, <1>2, <1>5
    <2> QED
      BY Zenon, <1>5, <2>1 DEF Once
  <1>6. ASSUME NEW x, x # Head(q), Has(q, x)
        PROVE  Has(r, x)
    <2>1. PICK i \in 1..Len(q) : q[i] = x
      BY Zenon, <1>6 DEF Has
    <2>2. i # 1
      BY Zenon, <1>2, <1>6, <2>1
    <2>3. i - 1 \in 1..Len(r) /\ r[i - 1] = x
      BY Zenon, <1>2, <2>1, <2>2
    <2> QED
      BY Zenon, <2>3 DEF Has
  <1>7. ASSUME NEW x, Has(r, x)
        PROVE  Has(q, x)
    <2>1. PICK i \in 1..Len(r) : r[i] = x
      BY Zenon, <1>7 DEF Has
    <2>2. i + 1 \in 1..Len(q) /\ q[i + 1] = x
      BY Zenon, <1>2, <2>1
    <2> QED
      BY Zenon, <2>2 DEF Has
  <1>8. \A x : Once(q, x) => Once(r, x)
    BY Zenon, <1>4 DEF Once
  <1>9. Once(q, Head(q)) => ~Has(r, Head(q))
    BY Zenon, <1>5 DEF Has
  <1> QED
    BY Zenon, <1>1, <1>3, <1>6, <1>7, <1>8, <1>9

LEMMA NullsHas ==
  ASSUME NEW S, NEW q \in Seq(S), "NULL" \in S
  PROVE  \A x : (x # "NULL") => /\ Has(q \o Nulls, x) <=> Has(q, x)
                                /\ Once(q, x) => Once(q \o Nulls, x)
  <1>1. PICK r : r = q \o Nulls
    BY Zenon
  <1>2. /\ \A i \in 1..Len(q) : i \in 1..Len(r) /\ r[i] = q[i]
        /\ \A i \in 1..Len(r) : i \in 1..Len(q) \/ r[i] = "NULL"
    BY <1>1, NullsFact
  <1>3. ASSUME NEW x, x # "NULL"
        PROVE  Has(r, x) <=> Has(q, x)
    BY Zenon, <1>2, <1>3 DEF Has
  <1>4. ASSUME NEW x, x # "NULL", Once(q, x)
        PROVE  Once(r, x)
    BY Zenon, <1>2, <1>4 DEF Once
  <1> QED
    BY Zenon, <1>1, <1>3, <1>4

-----------------------------------------------------------------------------
(* The timers *)

LEMMA InitTimer == Init => TimerInv
  <1> SUFFICES ASSUME Init
               PROVE  TimerInv
    OBVIOUS
  <1>1. /\ queue = <<>> /\ main = "start" /\ timer_queue_ = {}
        /\ ts = [t \in Timer |-> NoTime] /\ ran = [t \in Timer |-> 0]
    BY Zenon DEF Init, ServiceInit, ManagerInit
  <1>2. \A x : ~Has(queue, x) /\ Once(queue, x)
    BY ONLY <1>1 DEF Has, Once
  <1>3. Added = {}
    BY Zenon, <1>1 DEF Added
  <1> QED
    BY Zenon, <1>1, <1>2, <1>3 DEF TimerInv

(* Steps that do nothing to a timer, though the clock may advance. *)
LEMMA TimerFrame ==
  ASSUME ServiceType, TimerInv, UNCHANGED <<timer_queue_, ts, ran>>,
         now' = now \/ now' = now + 1,
         \A t \in Timer : (Has(queue, t)' <=> Has(queue, t)) /\ Once(queue, t)',
         (main' = "destroyed") <=> (main = "destroyed"),
         (main = "destroyed") => (queue' = queue)
  PROVE  TimerInv'
  <1>1. \A t \in Timer : (ts[t] <= now) => (ts[t] <= now')
    <2>1. now \in Nat /\ ts \in [Timer -> Int]
      BY Zenon DEF ServiceType
    <2> QED
      BY ONLY <2>1, now' = now \/ now' = now + 1
  <1>2. Added' = Added
    BY Zenon DEF Added
  <1>3. /\ \A t \in Timer \ Added' : t \notin timer_queue_' /\ ran'[t] = 0
        /\ \A t \in timer_queue_' : ran'[t] = 0
        /\ \A t \in Timer : Has(queue, t)' =>
             (t \in Added' /\ t \notin timer_queue_' /\ ran'[t] = 0 /\ ts'[t] <= now')
        /\ \A t \in Timer : (ran'[t] = 0) \/ (ran'[t] = 1 /\ ts'[t] <= now')
    BY Zenon, <1>1, <1>2 DEF TimerInv
  <1>4. \A t \in Added' : (main' # "destroyed") =>
          (t \in timer_queue_' \/ ran'[t] = 1 \/ Has(queue, t)')
    <2>1. ASSUME NEW t \in Added, main' # "destroyed"
          PROVE  t \in timer_queue_ \/ ran[t] = 1 \/ Has(queue, t)'
      <3>1. CASE main # "destroyed"
        BY Zenon, <2>1, <3>1 DEF TimerInv, Added
      <3>2. CASE main = "destroyed"
        BY Zenon, <2>1, <3>2
      <3> QED
        BY Zenon, <3>1, <3>2
    <2> QED
      BY Zenon, <1>2, <2>1
  <1>5. (main' = "destroyed") => (queue' = <<>>)
    BY Zenon DEF TimerInv
  <1> QED
    BY Zenon, <1>3, <1>4, <1>5 DEF TimerInv

(* A timer is waiting, and becomes a callback of the pool. *)
LEMMA IssueKeepsTimer ==
  ASSUME ServiceType, LoopInv, TimerInv, NEW t \in Due(batch.now), IssueTimers,
         queue' = Append(queue, t), timer_queue_' = timer_queue_ \ {t}
  PROVE  TimerInv'
  <1>1. UNCHANGED <<now, ts, ran>> /\ main = "timers"
    BY Zenon DEF IssueTimers
  <1>2. main' # "destroyed" /\ main # "destroyed"
    BY Zenon DEF IssueTimers
  <1>3. t \in timer_queue_ /\ ts[t] <= batch.now /\ t \in Timer /\ t \in Callback
    BY Zenon DEF Due, ServiceType, Callback
  <1>4. ts[t] <= now
    <2>1. now \in Nat /\ batch.now \in Nat /\ ts[t] \in Int /\ batch.now <= now
      BY Zenon, <1>3 DEF ServiceType, LoopInv
    <2> QED
      BY ONLY <1>3, <2>1
  <1>5. ~Has(queue, t) /\ ran[t] = 0 /\ t \in Added
    BY Zenon, <1>3 DEF TimerInv
  <1>6. /\ Has(queue', t)
        /\ \A x : (x # t) => (Has(queue', x) <=> Has(queue, x))
        /\ \A u \in Timer : Once(queue', u)
    <2>1. queue \in Seq(Callback) /\ \A u \in Timer : Once(queue, u)
      BY Zenon DEF ServiceType, TimerInv
    <2> QED
      BY Zenon, <1>3, <1>5, <2>1, AppendHas
  <1>7. Added' = Added
    BY Zenon, <1>1 DEF Added
  <1>8. /\ \A u \in Timer \ Added' : u \notin timer_queue_' /\ ran'[u] = 0
        /\ \A u \in timer_queue_' : ran'[u] = 0
        /\ \A u \in Timer : (ran'[u] = 0) \/ (ran'[u] = 1 /\ ts'[u] <= now')
    BY Zenon, <1>1, <1>7 DEF TimerInv
  <1>9. \A u \in Timer : Has(queue, u)' =>
          (u \in Added' /\ u \notin timer_queue_' /\ ran'[u] = 0 /\ ts'[u] <= now')
    <2>1. ASSUME NEW u \in Timer, u # t, Has(queue', u)
          PROVE  u \in Added' /\ u \notin timer_queue_' /\ ran'[u] = 0 /\ ts'[u] <= now'
      BY Zenon, <1>1, <1>6, <1>7, <2>1 DEF TimerInv
    <2>2. t \in Added' /\ t \notin timer_queue_' /\ ran'[t] = 0 /\ ts'[t] <= now'
      BY Zenon, <1>1, <1>4, <1>5, <1>7
    <2> QED
      BY Zenon, <2>1, <2>2
  <1>10. \A u \in Added' : u \in timer_queue_' \/ ran'[u] = 1 \/ Has(queue, u)'
    <2>1. ASSUME NEW u \in Added, u # t
          PROVE  u \in timer_queue_' \/ ran'[u] = 1 \/ Has(queue', u)
      BY Zenon, <1>1, <1>2, <1>6, <2>1 DEF TimerInv
    <2> QED
      BY Zenon, <1>6, <1>7, <2>1
  <1> QED
    BY Zenon, <1>2, <1>6, <1>8, <1>9, <1>10 DEF TimerInv

(* A timer is added. *)
LEMMA AddKeepsTimer ==
  ASSUME ServiceType, TimerInv, NEW t \in Timer, NEW delay \in 0..1, addTimer(t, delay)
  PROVE  TimerInv'
  <1>1. /\ UNCHANGED <<now, ran, queue, main>> /\ timer_queue_' = timer_queue_ \cup {t}
        /\ t \notin Added /\ main # "destroyed"
    BY Zenon DEF addTimer
  <1>2. ts'[t] # NoTime /\ \A u \in Timer : (u # t) => (ts'[u] = ts[u])
    <2>1. PICK read \in 0..now : ts' = [ts EXCEPT ![t] = read + delay]
      BY Zenon DEF addTimer
    <2>2. now \in Nat /\ ts \in [Timer -> Int]
      BY Zenon DEF ServiceType
    <2> QED
      BY ONLY <2>1, <2>2, t \in Timer, delay \in 0..1 DEF NoTime
  <1>3. Added' = Added \cup {t}
    BY Zenon, <1>2 DEF Added
  <1>4. ran[t] = 0 /\ ~Has(queue, t)
    BY Zenon, <1>1 DEF TimerInv
  <1>5. /\ \A u \in Timer \ Added' : u \notin timer_queue_' /\ ran'[u] = 0
        /\ \A u \in timer_queue_' : ran'[u] = 0
        /\ \A u \in Timer : Once(queue, u)'
    BY Zenon, <1>1, <1>3, <1>4 DEF TimerInv
  <1>6. \A u \in Timer : (ran'[u] = 0) \/ (ran'[u] = 1 /\ ts'[u] <= now')
    BY Zenon, <1>1, <1>2, <1>4 DEF TimerInv
  <1>7. \A u \in Timer : Has(queue, u)' =>
          (u \in Added' /\ u \notin timer_queue_' /\ ran'[u] = 0 /\ ts'[u] <= now')
    <2>1. ASSUME NEW u \in Timer, Has(queue, u)
          PROVE  u # t /\ u \in Added /\ u \notin timer_queue_ /\ ran[u] = 0 /\ ts[u] <= now
      BY Zenon, <1>4, <2>1 DEF TimerInv
    <2> QED
      BY Zenon, <1>1, <1>2, <1>3, <2>1
  <1>8. \A u \in Added' : u \in timer_queue_' \/ ran'[u] = 1 \/ Has(queue, u)'
    BY Zenon, <1>1, <1>3 DEF TimerInv
  <1> QED
    BY Zenon, <1>1, <1>5, <1>6, <1>7, <1>8 DEF TimerInv

(* A timer runs. *)
LEMMA RunKeepsTimer ==
  ASSUME ServiceType, TimerInv, NEW w \in Worker, TakeTask(w), Head(queue) \in Timer
  PROVE  TimerInv'
  <1>1. UNCHANGED <<now, ts, timer_queue_, main>>
    BY Zenon DEF TakeTask
  <1>2. PICK t \in Timer : t = Head(queue)
    BY Zenon
  <1>3. queue \in Seq(Callback) /\ queue # <<>> /\ queue' = Tail(queue)
        /\ ran' = [ran EXCEPT ![t] = @ + 1]
    <2>1. t # "accept" /\ t # "quit" /\ t # "NULL"
      BY Zenon, <1>2, ServiceBounds
    <2> QED
      BY Zenon, <1>2, <2>1, TakeCases
  <1>4. /\ Has(queue, t) /\ ~Has(queue', t)
        /\ \A x : (x # t) => (Has(queue', x) <=> Has(queue, x))
        /\ \A u \in Timer : Once(queue', u)
    <2>1. \A u \in Timer : Once(queue, u)
      BY Zenon DEF TimerInv
    <2> QED
      BY Zenon, <1>2, <1>3, <2>1, TailHas
  <1>5. ran[t] = 0 /\ ts[t] <= now /\ t \in Added /\ t \notin timer_queue_ /\ main # "destroyed"
    BY Zenon, <1>3, <1>4 DEF TimerInv
  <1>6. ran'[t] = 1 /\ \A u \in Timer : (u # t) => (ran'[u] = ran[u])
    <2>1. ran \in [Timer -> Nat]
      BY Zenon DEF ServiceType
    <2> QED
      BY ONLY <1>3, <1>5, <2>1, t \in Timer
  <1>7. Added' = Added
    BY Zenon, <1>1 DEF Added
  <1>8. timer_queue_ \subseteq Timer
    BY Zenon DEF ServiceType
  <1>9. /\ \A u \in Timer \ Added' : u \notin timer_queue_' /\ ran'[u] = 0
        /\ \A u \in timer_queue_' : ran'[u] = 0
    BY Zenon, <1>1, <1>5, <1>6, <1>7, <1>8 DEF TimerInv
  <1>10. \A u \in Timer : (ran'[u] = 0) \/ (ran'[u] = 1 /\ ts'[u] <= now')
    BY Zenon, <1>1, <1>5, <1>6 DEF TimerInv
  <1>11. \A u \in Timer : Has(queue, u)' =>
          (u \in Added' /\ u \notin timer_queue_' /\ ran'[u] = 0 /\ ts'[u] <= now')
    <2>1. ASSUME NEW u \in Timer, Has(queue', u)
          PROVE  u # t /\ u \in Added /\ u \notin timer_queue_ /\ ran[u] = 0 /\ ts[u] <= now
      BY Zenon, <1>4, <2>1 DEF TimerInv
    <2> QED
      BY Zenon, <1>1, <1>6, <1>7, <2>1
  <1>12. \A u \in Added' : u \in timer_queue_' \/ ran'[u] = 1 \/ Has(queue, u)'
    <2>1. ASSUME NEW u \in Added, u # t
          PROVE  u \in timer_queue_' \/ ran'[u] = 1 \/ Has(queue', u)
      <3>1. u \in Timer
        BY Zenon DEF Added
      <3> QED
        BY Zenon, <1>1, <1>4, <1>5, <1>6, <2>1, <3>1 DEF TimerInv
    <2> QED
      BY Zenon, <1>6, <1>7, <2>1
  <1> QED
    BY Zenon, <1>1, <1>4, <1>5, <1>9, <1>10, <1>11, <1>12 DEF TimerInv

(* The queue stays, or gets a callback that is not a timer. *)
LEMMA NoTimerGains ==
  ASSUME ServiceType, TimerInv,
         \/ queue' = queue
         \/ \E x \in {"accept", "quit"} : queue' = Append(queue, x)
         \/ queue' = queue \o Nulls
         \/ queue # <<>> /\ Head(queue) \notin Timer /\ queue' = Tail(queue)
  PROVE  \A t \in Timer : (Has(queue, t)' <=> Has(queue, t)) /\ Once(queue, t)'
  <1>1. /\ queue \in Seq(Callback) /\ "NULL" \in Callback
        /\ \A t \in Timer : Once(queue, t) /\ t # "accept" /\ t # "quit" /\ t # "NULL"
    BY Zenon, ServiceBounds DEF ServiceType, TimerInv, Callback
  <1>2. CASE queue' = queue
    BY Zenon, <1>1, <1>2
  <1>3. CASE \E x \in {"accept", "quit"} : queue' = Append(queue, x)
    <2>1. PICK x \in {"accept", "quit"} : queue' = Append(queue, x)
      BY Zenon, <1>3
    <2>2. x \in Callback
      BY Zenon DEF Callback
    <2> QED
      BY Zenon, <1>1, <2>1, <2>2, AppendHas
  <1>4. CASE queue' = queue \o Nulls
    BY Zenon, <1>1, <1>4, NullsHas
  <1>5. CASE queue # <<>> /\ Head(queue) \notin Timer /\ queue' = Tail(queue)
    BY Zenon, <1>1, <1>5, TailHas
  <1> QED
    BY Zenon, <1>2, <1>3, <1>4, <1>5

LEMMA MainKeepsTimer ==
  ASSUME ServiceType, LoopInv, TimerInv, MainStep
  PROVE  TimerInv'
  <1>1. CASE \/ Start \/ Poll \/ CheckStopped \/ PollReturns \/ readIfWaiting \/ CollectDeleted
             \/ StartReturns \/ DestroyAcceptors \/ PushAccept \/ PushQuit
    <2>1. UNCHANGED <<now, timer_queue_, ts, ran>>
      BY Zenon, <1>1 DEF Start, Poll, CheckStopped, PollReturns, readIfWaiting, CollectDeleted,
         StartReturns, DestroyAcceptors, PushAccept, PushQuit, timers
    <2>2. main # "destroyed" /\ main' # "destroyed"
      BY Zenon, <1>1 DEF Start, Poll, CheckStopped, PollReturns, readIfWaiting, CollectDeleted,
         StartReturns, DestroyAcceptors, PushAccept, PushQuit
    <2>3. queue' = queue \/ \E x \in {"accept", "quit"} : queue' = Append(queue, x)
      BY Zenon, <1>1 DEF Start, Poll, CheckStopped, PollReturns, readIfWaiting, CollectDeleted,
         StartReturns, DestroyAcceptors, PushAccept, PushQuit
    <2> QED
      BY Zenon, <2>1, <2>2, <2>3, NoTimerGains, TimerFrame
  <1>2. CASE IssueTimers
    <2>1. CASE \E t \in Due(batch.now) : queue' = Append(queue, t) /\ timer_queue_' = timer_queue_ \ {t}
      BY Zenon, <1>2, <2>1, IssueKeepsTimer
    <2>2. CASE main' = "dispatch" /\ UNCHANGED <<queue, timer_queue_>>
      <3>1. UNCHANGED <<now, ts, ran>> /\ main # "destroyed" /\ main' # "destroyed"
        BY Zenon, <1>2, <2>2 DEF IssueTimers
      <3> QED
        BY Zenon, <2>2, <3>1, NoTimerGains, TimerFrame
    <2> QED
      BY Zenon, <1>2, <2>1, <2>2 DEF IssueTimers
  <1>3. CASE DestroyManager
    <2>1. UNCHANGED <<now, ts, ran>> /\ main' = "destroyed" /\ queue' = <<>> /\ timer_queue_' = {}
      BY Zenon, <1>3 DEF DestroyManager
    <2>2. \A x : ~Has(<<>>, x) /\ Once(<<>>, x)
      BY ONLY TRUE DEF Has, Once
    <2>3. Added' = Added
      BY Zenon, <2>1 DEF Added
    <2>4. \A t \in Timer : ~Has(queue, t)' /\ Once(queue, t)'
      BY Zenon, <2>1, <2>2
    <2> QED
      BY Zenon, <2>1, <2>3, <2>4 DEF TimerInv
  <1> QED
    BY Zenon, <1>1, <1>2, <1>3 DEF MainStep, TearDown

LEMMA StopKeepsTimer ==
  ASSUME ServiceType, StopInv, TimerInv, NEW c \in Caller, StopStep(c)
  PROVE  TimerInv'
  <1>1. UNCHANGED <<now, timer_queue_, ts, ran, main>>
    BY Zenon DEF StopStep, StopEnters, StopAwaits, CloseListener, delDescriptor, ClearDescriptor,
       StopManager, AwaitPollEnd, StopPool, StopReclaims, StopEnds, timers
  <1>2. queue' = queue \/ (queue' = queue \o Nulls /\ stopAt[c] = "pool")
    BY Zenon DEF StopStep, StopEnters, StopAwaits, CloseListener, delDescriptor, ClearDescriptor,
       StopManager, AwaitPollEnd, StopPool, StopReclaims, StopEnds, Nulls
  <1>3. (main = "destroyed") => (queue' = queue)
    BY Zenon, <1>2 DEF StopInv, InStop
  <1> QED
    BY Zenon, <1>1, <1>2, <1>3, NoTimerGains, TimerFrame

LEMMA WorkerKeepsTimer ==
  ASSUME ServiceType, StopInv, JoinInv, TimerInv, NEW w \in Worker, WorkerStep(w) \/ AcceptFails(w)
  PROVE  TimerInv'
  <1>1. CASE TakeTask(w) /\ Head(queue) \in Timer
    BY Zenon, <1>1, RunKeepsTimer
  <1>2. CASE TakeTask(w) /\ Head(queue) \notin Timer
    <2>1. UNCHANGED <<now, timer_queue_, ts, main>>
      BY Zenon, <1>2 DEF TakeTask
    <2>2. ran' = ran /\ queue # <<>> /\ queue' = Tail(queue)
      BY Zenon, <1>2, TakeCases
    <2>3. main # "destroyed"
      BY Zenon, <2>2 DEF TimerInv
    <2> QED
      BY Zenon, <1>2, <2>1, <2>2, <2>3, NoTimerGains, TimerFrame
  <1>3. CASE ~TakeTask(w)
    <2>1. UNCHANGED <<now, timer_queue_, ts, ran, main>>
      BY Zenon, <1>3 DEF WorkerStep, AcceptOne, AcceptNone, AcceptFails, readWhenReady,
         ScheduleAccept, StopReturns, TaskDone, timers
    <2>2. queue' = queue \/ (pc[w] = "schedule" /\ queue' = Append(queue, "accept"))
      BY Zenon, <1>3 DEF WorkerStep, AcceptOne, AcceptNone, AcceptFails, readWhenReady,
         ScheduleAccept, StopReturns, TaskDone
    <2>3. (main = "destroyed") => (queue' = queue)
      BY Zenon, <2>2 DEF StopInv, JoinInv, Reached
    <2> QED
      BY Zenon, <2>1, <2>2, <2>3, NoTimerGains, TimerFrame
  <1> QED
    BY Zenon, <1>1, <1>2, <1>3

LEMMA NextTimer ==
  ServiceType /\ StopInv /\ LoopInv /\ JoinInv /\ TimerInv /\ [Next]_vars => TimerInv'
  <1> SUFFICES ASSUME ServiceType, StopInv, LoopInv, JoinInv, TimerInv, [Next]_vars
               PROVE  TimerInv'
    OBVIOUS
  <1>1. CASE \/ UNCHANGED vars \/ ClientConnects \/ ClientAsksToQuit \/ Tick
             \/ StopFromOutside \/ DestroyUnstarted
    <2>1. UNCHANGED <<queue, timer_queue_, ts, ran>>
      BY Zenon, <1>1 DEF vars, ClientConnects, ClientAsksToQuit, Tick, StopFromOutside,
         DestroyUnstarted, timers
    <2>2. now' = now \/ now' = now + 1
      BY Zenon, <1>1 DEF vars, ClientConnects, ClientAsksToQuit, Tick, StopFromOutside,
         DestroyUnstarted, timers
    <2>3. (main' = "destroyed") <=> (main = "destroyed")
      BY Zenon, <1>1 DEF vars, ClientConnects, ClientAsksToQuit, Tick, StopFromOutside,
         DestroyUnstarted
    <2> QED
      BY Zenon, <2>1, <2>2, <2>3, NoTimerGains, TimerFrame
  <1> QED
    BY Zenon, <1>1, AddKeepsTimer, MainKeepsTimer, StopKeepsTimer, WorkerKeepsTimer DEF Next

-----------------------------------------------------------------------------
(* doAccept is handed over *)

LEMMA InitAccept == Init => AcceptInv
  <1> SUFFICES ASSUME Init
               PROVE  AcceptInv
    OBVIOUS
  <1>1. /\ queue = <<>> /\ main = "start" /\ accepting = [can |-> FALSE, waiting |-> FALSE]
        /\ \A w \in Worker : pc[w] = "idle"
    BY Zenon DEF Init, ServiceInit, ManagerInit, AcceptorInit, NotReady
  <1>2. \A x : ~Has(queue, x) /\ Once(queue, x)
    BY ONLY <1>1 DEF Has, Once
  <1>3. ~Waits
    BY ONLY <1>1 DEF Waits
  <1>4. \A w \in Worker : ~Accepts(w)
    BY Zenon, <1>1 DEF Accepts
  <1> QED
    BY Zenon, <1>1, <1>2, <1>3, <1>4 DEF AcceptInv, NoneAtWork

(* Nobody gets the right. *)
LEMMA AcceptFrame ==
  ASSUME AcceptInv, Once(queue, "accept")', Has(queue, "accept")' => Has(queue, "accept"),
         \A w \in Worker : Accepts(w)' => Accepts(w),
         Waits' => Waits, main' = "push" => main = "push", main' = "start" => main = "start"
  PROVE  AcceptInv'
  <1>1. NoneAtWork => NoneAtWork'
    BY Zenon DEF NoneAtWork
  <1> QED
    BY Zenon, <1>1 DEF AcceptInv

LEMMA SameQueueAccept ==
  ASSUME AcceptInv,
         \/ queue' = queue
         \/ queue' = <<>>
  PROVE  Once(queue, "accept")' /\ (Has(queue, "accept")' => Has(queue, "accept"))
  <1>1. \A x : ~Has(<<>>, x) /\ Once(<<>>, x)
    BY ONLY TRUE DEF Has, Once
  <1> QED
    BY Zenon, <1>1 DEF AcceptInv

LEMMA MainKeepsAccept ==
  ASSUME ServiceType, AcceptInv, MainStep
  PROVE  AcceptInv'
  <1>1. \A w \in Worker : Accepts(w)' <=> Accepts(w)
    <2>1. pc' = pc /\ back' = back
      BY Zenon DEF MainStep, TearDown, Start, Poll, CheckStopped, PollReturns, IssueTimers,
         readIfWaiting, PushAccept, PushQuit, CollectDeleted, StartReturns, DestroyAcceptors,
         DestroyManager, workers
    <2> QED
      BY Zenon, <2>1 DEF Accepts
  <1>2. CASE Start
    <2>1. main = "start" /\ main' = "poll" /\ queue' = queue
      BY Zenon, <1>2 DEF Start
    <2>2. NoneAtWork /\ NoneAtWork'
      BY Zenon, <1>1, <2>1 DEF AcceptInv, NoneAtWork
    <2> QED
      BY Zenon, <2>1, <2>2, SameQueueAccept DEF AcceptInv, NoneAtWork
  <1>3. CASE readIfWaiting
    <2>1. main = "dispatch" /\ queue' = queue /\ accepting' = IfWaiting(accepting)
          /\ main' = IF Schedules(accepting) THEN "push" ELSE "dispatch"
      BY Zenon, <1>3 DEF readIfWaiting
    <2>2. accepting \in [can : BOOLEAN, waiting : BOOLEAN]
      BY Zenon DEF ServiceType
    <2>3. ~Waits' /\ main' # "start" /\ (main' = "push" => Waits)
      BY ONLY <2>1, <2>2 DEF Waits, IfWaiting, Schedules
    <2>4. main' = "push" => NoneAtWork'
      BY Zenon, <1>1, <2>1, <2>3 DEF AcceptInv, NoneAtWork
    <2> QED
      BY Zenon, <1>1, <2>1, <2>3, <2>4 DEF AcceptInv
  <1>4. CASE PushAccept
    <2>1. main = "push" /\ main' = "dispatch" /\ queue' = Append(queue, "accept")
      BY Zenon, <1>4 DEF PushAccept
    <2>2. accepting' = accepting
      BY Zenon, <1>4 DEF PushAccept, listener
    <2>3. ~Waits' /\ NoneAtWork
      BY Zenon, <2>1, <2>2 DEF AcceptInv, Waits
    <2>4. Once(queue, "accept")'
      <3>1. queue \in Seq(Callback) /\ "accept" \in Callback
        BY Zenon DEF ServiceType, Callback
      <3> QED
        BY Zenon, <2>1, <2>3, <3>1, AppendHas DEF NoneAtWork, AcceptInv
    <2> QED
      BY Zenon, <1>1, <2>1, <2>3, <2>4 DEF AcceptInv, NoneAtWork
  <1>5. CASE PushQuit \/ IssueTimers
    <2>1. main' # "push" /\ main' # "start"
      BY Zenon, <1>5 DEF PushQuit, IssueTimers
    <2>2. accepting' = accepting
      BY Zenon, <1>5 DEF PushQuit, IssueTimers, listener
    <2>3. queue' = queue \/ \E x \in Callback \ {"accept"} : queue' = Append(queue, x)
      <3>1. CASE PushQuit
        <4>1. "quit" \in Callback \ {"accept"}
          BY Zenon DEF Callback
        <4> QED
          BY Zenon, <3>1, <4>1 DEF PushQuit
      <3>2. CASE IssueTimers
        <4>1. \A t \in Due(batch.now) : t \in Callback \ {"accept"}
          BY Zenon, ServiceBounds DEF Due, ServiceType, Callback
        <4> QED
          BY Zenon, <3>2, <4>1 DEF IssueTimers
      <3> QED
        BY Zenon, <1>5, <3>1, <3>2
    <2>4. Once(queue, "accept")' /\ (Has(queue, "accept")' => Has(queue, "accept"))
      <3>1. CASE queue' = queue
        BY Zenon, <3>1, SameQueueAccept
      <3>2. ASSUME NEW x \in Callback \ {"accept"}, queue' = Append(queue, x)
            PROVE  Once(queue, "accept")' /\ (Has(queue, "accept")' => Has(queue, "accept"))
        <4>1. queue \in Seq(Callback) /\ Once(queue, "accept")
          BY Zenon DEF ServiceType, AcceptInv
        <4> QED
          BY Zenon, <3>2, <4>1, AppendHas
      <3> QED
        BY Zenon, <2>3, <3>1, <3>2
    <2> QED
      BY Zenon, <1>1, <2>1, <2>2, <2>4, AcceptFrame DEF Waits
  <1>6. CASE \/ Poll \/ CheckStopped \/ PollReturns \/ CollectDeleted \/ StartReturns
             \/ DestroyAcceptors \/ DestroyManager
    <2>1. main' # "push" /\ main' # "start"
      BY Zenon, <1>6 DEF Poll, CheckStopped, PollReturns, CollectDeleted, StartReturns,
         DestroyAcceptors, DestroyManager
    <2>2. accepting' = accepting
      BY Zenon, <1>6 DEF Poll, CheckStopped, PollReturns, CollectDeleted, StartReturns,
         DestroyAcceptors, DestroyManager, listener
    <2>3. queue' = queue \/ queue' = <<>>
      BY Zenon, <1>6 DEF Poll, CheckStopped, PollReturns, CollectDeleted, StartReturns,
         DestroyAcceptors, DestroyManager
    <2> QED
      BY Zenon, <1>1, <2>1, <2>2, <2>3, SameQueueAccept, AcceptFrame DEF Waits
  <1> QED
    BY Zenon, <1>2, <1>3, <1>4, <1>5, <1>6 DEF MainStep, TearDown

LEMMA StopKeepsAccept ==
  ASSUME ServiceType, AcceptInv, NEW c \in Caller, StopStep(c)
  PROVE  AcceptInv'
  <1>1. pc' = pc /\ back' = back /\ accepting' = accepting /\ main' = main
    BY Zenon DEF StopStep, StopEnters, StopAwaits, CloseListener, delDescriptor, ClearDescriptor,
       StopManager, AwaitPollEnd, StopPool, StopReclaims, StopEnds, workers, listener
  <1>2. queue' = queue \/ queue' = queue \o Nulls
    BY Zenon DEF StopStep, StopEnters, StopAwaits, CloseListener, delDescriptor, ClearDescriptor,
       StopManager, AwaitPollEnd, StopPool, StopReclaims, StopEnds, Nulls
  <1>3. Once(queue, "accept")' /\ (Has(queue, "accept")' => Has(queue, "accept"))
    <2>1. CASE queue' = queue
      BY Zenon, <2>1, SameQueueAccept
    <2>2. CASE queue' = queue \o Nulls
      <3>1. queue \in Seq(Callback) /\ "NULL" \in Callback /\ Once(queue, "accept")
        BY Zenon DEF ServiceType, Callback, AcceptInv
      <3> QED
        BY Zenon, <2>2, <3>1, NullsHas
    <2> QED
      BY Zenon, <1>2, <2>1, <2>2
  <1> QED
    BY Zenon, <1>1, <1>3, AcceptFrame DEF Waits, Accepts

LEMMA WorkerKeepsAccept ==
  ASSUME ServiceType, AcceptInv, NEW w \in Worker, WorkerStep(w) \/ AcceptFails(w)
  PROVE  AcceptInv'
  <1>1. main' = main /\ \A v \in Worker : (v # w) => (Accepts(v)' <=> Accepts(v))
    <2>1. main' = main /\ \A v \in Worker : (v # w) => (pc'[v] = pc[v] /\ back'[v] = back[v])
      BY Zenon, WorkerMoves
    <2> QED
      BY Zenon, <2>1 DEF Accepts
  <1>2. ASSUME Once(queue, "accept")', Has(queue, "accept")' => Has(queue, "accept"),
               Accepts(w)' => Accepts(w), accepting' = accepting
        PROVE  AcceptInv'
    <2>1. Waits' => Waits
      BY Zenon, <1>2 DEF Waits
    <2> QED
      BY Zenon, <1>1, <1>2, <2>1, AcceptFrame
  <1>3. Accepts(w) => /\ ~Waits /\ main # "push" /\ main # "start" /\ ~Has(queue, "accept")
                      /\ \A v \in Worker : (v # w) => ~Accepts(v)
    BY Zenon DEF AcceptInv, NoneAtWork
  <1>4. CASE TakeTask(w)
    <2>1. accepting' = accepting
      BY Zenon, <1>4 DEF TakeTask, listener
    <2>2. /\ queue \in Seq(Callback) /\ queue # <<>> /\ queue' = Tail(queue)
          /\ Once(queue, "accept")
      BY Zenon, <1>4, TakeCases DEF AcceptInv
    <2>3. CASE Head(queue) = "accept"
      <3>1. Has(queue, "accept") /\ ~Has(queue, "accept")' /\ Once(queue, "accept")'
        BY Zenon, <2>2, <2>3, TailHas
      <3>2. /\ ~Waits' /\ main' # "push" /\ main' # "start"
            /\ \A v \in Worker : ~Accepts(v)
        BY Zenon, <1>1, <2>1, <3>1 DEF AcceptInv, NoneAtWork, Waits
      <3>3. \A u, v \in Worker : (Accepts(u)' /\ Accepts(v)') => (u = v)
        BY Zenon, <1>1, <3>2
      <3> QED
        BY Zenon, <3>1, <3>2, <3>3 DEF AcceptInv
    <2>4. CASE Head(queue) # "accept"
      <3>1. Once(queue, "accept")' /\ (Has(queue, "accept")' => Has(queue, "accept"))
        BY Zenon, <2>2, <2>4, TailHas
      <3>2. pc'[w] \in {"ended", "done"} \/ (pc'[w] = "stopping" /\ back'[w] = "done")
        <4>1. \/ pc' = [pc EXCEPT ![w] = "stopping"] /\ back' = [back EXCEPT ![w] = "done"]
              \/ pc' = [pc EXCEPT ![w] = "ended"]
              \/ pc' = [pc EXCEPT ![w] = "done"]
          BY Zenon, <1>4, <2>4, TakeCases
        <4> QED
          BY Zenon, <4>1 DEF ServiceType
      <3>3. ~Accepts(w)'
        BY Zenon, <3>2 DEF Accepts
      <3> QED
        BY Zenon, <1>2, <2>1, <3>1, <3>3
    <2> QED
      BY Zenon, <2>3, <2>4
  <1>5. CASE readWhenReady(w)
    <2>1. pc[w] = "rewait" /\ queue' = queue /\ Accepts(w)
      BY Zenon, <1>5 DEF readWhenReady, Accepts
    <2>2. CASE accepting' = accepting
      BY Zenon, <1>2, <2>1, <2>2, SameQueueAccept
    <2>3. CASE /\ accepting' = WhenReady(accepting)
               /\ pc' = [pc EXCEPT ![w] = IF RunsNow(accepting) THEN "schedule" ELSE "done"]
      <3>1. /\ accepting \in [can : BOOLEAN, waiting : BOOLEAN]
            /\ pc'[w] = IF RunsNow(accepting) THEN "schedule" ELSE "done"
        BY Zenon, <2>3 DEF ServiceType
      <3>2. (Waits' => pc'[w] = "done") \/ Waits
        BY ONLY <2>3, <3>1 DEF Waits, WhenReady, RunsNow
      <3>3. Waits' => ~Accepts(w)'
        BY Zenon, <1>3, <2>1, <3>2 DEF Accepts
      <3>4. Waits' => NoneAtWork'
        BY Zenon, <1>1, <1>3, <2>1, <3>3 DEF NoneAtWork
      <3>5. \A u, v \in Worker : (Accepts(u)' /\ Accepts(v)') => (u = v)
        BY Zenon, <1>1, <1>3, <2>1
      <3>6. ~Has(queue, "accept")' /\ Once(queue, "accept")' /\ main' # "push" /\ main' # "start"
        BY Zenon, <1>1, <1>3, <2>1, SameQueueAccept
      <3> QED
        BY Zenon, <3>4, <3>5, <3>6 DEF AcceptInv
    <2> QED
      BY Zenon, <1>5, <2>2, <2>3 DEF readWhenReady, Goto
  <1>6. CASE ScheduleAccept(w)
    <2>1. pc[w] = "schedule" /\ Accepts(w)
      BY Zenon, <1>6 DEF ScheduleAccept, Accepts
    <2>2. accepting' = accepting
      BY Zenon, <1>6 DEF ScheduleAccept, listener
    <2>3. CASE queue' = queue
      BY Zenon, <1>2, <2>1, <2>2, <2>3, SameQueueAccept
    <2>4. CASE pc' = [pc EXCEPT ![w] = "done"] /\ queue' = Append(queue, "accept")
      <3>1. queue \in Seq(Callback) /\ "accept" \in Callback /\ Once(queue, "accept")
        BY Zenon DEF ServiceType, Callback, AcceptInv
      <3>2. Once(queue, "accept")'
        BY Zenon, <1>3, <2>1, <2>4, <3>1, AppendHas
      <3>3. pc'[w] = "done"
        BY Zenon, <2>4 DEF ServiceType
      <3>4. \A v \in Worker : ~Accepts(v)'
        BY Zenon, <1>1, <1>3, <2>1, <3>3 DEF Accepts
      <3>5. ~Waits' /\ main' # "push" /\ main' # "start"
        BY Zenon, <1>1, <1>3, <2>1, <2>2 DEF Waits
      <3> QED
        BY Zenon, <3>2, <3>4, <3>5 DEF AcceptInv
    <2> QED
      BY Zenon, <1>6, <2>3, <2>4 DEF ScheduleAccept, Goto
  <1>7. CASE AcceptOne(w) \/ AcceptNone(w) \/ AcceptFails(w) \/ StopReturns(w) \/ TaskDone(w)
    <2>1. queue' = queue
      BY Zenon, <1>7 DEF AcceptOne, AcceptNone, AcceptFails, StopReturns, TaskDone
    <2>2. accepting' = accepting
      BY Zenon, <1>7 DEF AcceptOne, AcceptNone, AcceptFails, StopReturns, TaskDone, listener
    <2>3. Accepts(w)' => Accepts(w)
      <3>1. CASE AcceptOne(w) \/ AcceptNone(w) \/ AcceptFails(w)
        BY Zenon, <3>1 DEF AcceptOne, AcceptNone, AcceptFails, Accepts
      <3>2. CASE StopReturns(w)
        <4>1. pc[w] = "stopping" /\ pc'[w] = back[w] /\ back[w] \in {"idle", "done", "accept"}
          BY Zenon, <3>2 DEF StopReturns, Goto, ServiceType
        <4> QED
          BY Zenon, <4>1 DEF Accepts
      <3>3. CASE TaskDone(w)
        <4>1. pc'[w] = IF last_worker_ = w THEN "ended" ELSE "idle"
          BY Zenon, <3>3 DEF TaskDone, Goto, ServiceType
        <4> QED
          BY Zenon, <4>1 DEF Accepts
      <3> QED
        BY Zenon, <1>7, <3>1, <3>2, <3>3
    <2> QED
      BY Zenon, <1>2, <2>1, <2>2, <2>3, SameQueueAccept
  <1> QED
    BY Zenon, <1>4, <1>5, <1>6, <1>7 DEF WorkerStep

LEMMA NextAccept == ServiceType /\ AcceptInv /\ [Next]_vars => AcceptInv'
  <1> SUFFICES ASSUME ServiceType, AcceptInv, [Next]_vars
               PROVE  AcceptInv'
    OBVIOUS
  <1>1. CASE \/ UNCHANGED vars \/ ClientConnects \/ ClientAsksToQuit \/ Tick
             \/ \E t \in Timer, delay \in 0..1 : addTimer(t, delay)
             \/ StopFromOutside \/ DestroyUnstarted
    <2>1. UNCHANGED <<queue, pc, back>>
      BY Zenon, <1>1 DEF vars, ClientConnects, ClientAsksToQuit, Tick, addTimer, StopFromOutside,
         DestroyUnstarted, workers
    <2>2. accepting' = accepting
      BY Zenon, <1>1 DEF vars, ClientConnects, ClientAsksToQuit, Tick, addTimer, StopFromOutside,
         DestroyUnstarted, listener
    <2>3. main' = main \/ main' = "destroying"
      BY Zenon, <1>1 DEF vars, ClientConnects, ClientAsksToQuit, Tick, addTimer, StopFromOutside,
         DestroyUnstarted
    <2> QED
      BY Zenon, <2>1, <2>2, <2>3, SameQueueAccept, AcceptFrame DEF Waits, Accepts
  <1> QED
    BY Zenon, <1>1, MainKeepsAccept, StopKeepsAccept, WorkerKeepsAccept DEF Next

-----------------------------------------------------------------------------
(* What the invariants say *)

LEMMA InitService == Init => ServiceInv /\ AcceptInv
  BY Zenon, InitType, InitStop, InitLoop, InitJoin, InitTimer, InitAccept DEF ServiceInv

LEMMA NextService == ServiceInv /\ AcceptInv /\ [Next]_vars => (ServiceInv /\ AcceptInv)'
  BY Zenon, NextType, NextStop, NextLoop, NextJoin, NextTimer, NextAccept DEF ServiceInv

LEMMA AtMostOne ==
  ASSUME NEW S, \A x, y \in S : x = y
  PROVE  Cardinality(S) \in {0, 1} /\ ((S = {}) => Cardinality(S) = 0)
  <1>1. CASE S = {}
    BY <1>1, FS_EmptySet
  <1>2. CASE S # {}
    <2>1. PICK x : x \in S
      BY <1>2
    <2>2. S = {x}
      BY <2>1
    <2> QED
      BY Zenon, <2>2, FS_Singleton
  <1> QED
    BY <1>1, <1>2

(* It is never at two places. *)
LEMMA AcceptInvSound == ServiceType /\ AcceptInv => OneAcceptor
  <1> SUFFICES ASSUME ServiceType, AcceptInv
               PROVE  OneAcceptor
    OBVIOUS
  <1>1. PICK I : I = {i \in 1..Len(queue) : queue[i] = "accept"}
    BY Zenon
  <1>2. PICK A : A = {w \in Worker : \/ pc[w] \in {"accept", "rewait", "schedule"}
                                     \/ (pc[w] = "stopping" /\ back[w] = "accept")}
    BY Zenon
  <1>3. (\A i, j \in I : i = j) /\ (\A v, w \in A : v = w)
    BY Zenon, <1>1, <1>2 DEF AcceptInv, Once, Accepts
  <1>4. I = {} \/ A = {}
    BY Zenon, <1>1, <1>2 DEF AcceptInv, Has, Accepts
  <1>5. (Waits \/ main = "push") => (I = {} /\ A = {})
    BY Zenon, <1>1, <1>2 DEF AcceptInv, NoneAtWork, Has, Accepts
  <1>6. Waits => main # "push"
    BY Zenon DEF AcceptInv
  <1>7. /\ Cardinality(I) \in {0, 1} /\ ((I = {}) => Cardinality(I) = 0)
        /\ Cardinality(A) \in {0, 1} /\ ((A = {}) => Cardinality(A) = 0)
    BY Zenon, <1>3, AtMostOne
  <1>8. accepting \in [can : BOOLEAN, waiting : BOOLEAN]
    BY Zenon DEF ServiceType
  <1>9. (IF accepting.waiting THEN 1 ELSE 0) + (IF main = "push" THEN 1 ELSE 0)
          + Cardinality(I) + Cardinality(A) <= 1
    BY ONLY <1>4, <1>5, <1>6, <1>7, <1>8 DEF Waits
  <1> QED
    BY Zenon, <1>1, <1>2, <1>9 DEF OneAcceptor

(* A pool of which a worker has ended has no timer left; with two workers  *)
(* one of them has.                                                        *)
LEMMA PoolServed ==
  ASSUME StopInv, JoinInv, stopped_, (NumWorkers = 1) => (last_worker_ = Outside)
  PROVE  \A t \in Timer : ~Has(queue, t)
  <1>1. \E w \in Worker : w # last_worker_
    <2>1. CASE last_worker_ = Outside
      BY ONLY <2>1, ServiceBounds DEF Worker, Outside
    <2>2. CASE last_worker_ # Outside
      <3>1. NumWorkers # 1
        BY Zenon, <2>2
      <3>2. 1 \in Worker /\ 2 \in Worker /\ 1 # 2
        BY ONLY <3>1, ServiceBounds DEF Worker
      <3> QED
        BY Zenon, <3>2
    <2> QED
      BY Zenon, <2>1, <2>2
  <1>2. PICK w \in Worker : w # last_worker_
    BY Zenon, <1>1
  <1>3. pc[w] = "ended"
    BY Zenon, <1>2 DEF JoinInv, Reached
  <1> QED
    BY Zenon, <1>2, <1>3 DEF JoinInv, NoTimerQueued, Has

LEMMA ServiceInvSound == ServiceInv => OrderlyStop
  <1> SUFFICES ASSUME ServiceInv
               PROVE  OrderlyStop
    OBVIOUS
  <1> USE DEF ServiceInv
  <1>1. batch.accept => descr # "freed"
    BY Zenon DEF LoopInv
  <1>2. ((\E c \in Caller : stopAt[c] \in {"pool", "join", "tell"}) \/ stopped_) =>
          (main \notin {"wait", "timers", "dispatch", "push"})
    BY Zenon DEF LoopInv, Reached, Looping
  <1>3. (main = "returned") => stopped_
    BY Zenon DEF StopInv
  <1>4. stopped_ => \A w \in Worker : w = last_worker_ \/ pc[w] = "ended"
    BY Zenon DEF JoinInv, Reached
  <1>5. ASSUME NEW t \in Timer
        PROVE  (ran[t] = 1 => ts[t] <= now) /\ ran[t] <= 1
    <2>1. (ran[t] = 0) \/ (ran[t] = 1 /\ ts[t] <= now)
      BY Zenon DEF TimerInv
    <2> QED
      BY ONLY <2>1
  <1>6. ASSUME NEW t \in Timer, stopped_, t \in Added, main # "destroyed",
               (NumWorkers = 1) => (last_worker_ = Outside)
        PROVE  (ran[t] = 1) <=> (t \notin timer_queue_)
    <2>1. ~Has(queue, t)
      BY Zenon, <1>6, PoolServed
    <2>2. (t \in timer_queue_) => (ran[t] = 0)
      BY Zenon DEF TimerInv
    <2>3. t \in timer_queue_ \/ ran[t] = 1
      BY Zenon, <1>6, <2>1 DEF TimerInv
    <2> QED
      BY ONLY <2>2, <2>3
  <1>7. (main = "destroyed") => (queue = <<>>)
    BY Zenon DEF TimerInv
  <1> QED
    BY Zenon, <1>1, <1>2, <1>3, <1>4, <1>5, <1>6, <1>7 DEF OrderlyStop

-----------------------------------------------------------------------------
(* io_manager.cpp, acceptor.cpp: whatever the number of workers, clients   *)
(* and timers, and wherever stop() comes in between, the right to run      *)
(* doAccept is at one place at most: with the Descriptor, the poll loop,   *)
(* the queue of the pool or one worker.                                    *)
THEOREM OneAcceptorTheorem == Spec => []OneAcceptor
  <1>1. Spec => [](ServiceInv /\ AcceptInv)
    BY InitService, NextService, PTL DEF Spec
  <1>2. ServiceInv /\ AcceptInv => OneAcceptor
    BY Zenon, AcceptInvSound DEF ServiceInv
  <1> QED
    BY <1>1, <1>2, PTL

(* io_service.cpp:66-100: the poll loop is over when the pool is stopped,  *)
(* the workers have ended when stop() is complete, the timers that were    *)
(* issued have run by then, once and not early, and start() returns only   *)
(* after it, for any number of workers, threads in stop() and timers.      *)
THEOREM OrderlyStopTheorem == Spec => []OrderlyStop
  <1>1. Spec => [](ServiceInv /\ AcceptInv)
    BY InitService, NextService, PTL DEF Spec
  <1>2. ServiceInv /\ AcceptInv => OrderlyStop
    BY Zenon, ServiceInvSound
  <1> QED
    BY <1>1, <1>2, PTL
=============================================================================
