------------------------------ MODULE IOService ------------------------------
(***************************************************************************)
(* io_service.cpp with one Acceptor (acceptor.cpp), its Descriptor, the    *)
(* poll loop, timers and stop() of the IOManager (io_manager.cpp), and a   *)
(* pool of workers as ThreadPool promises it: start(), and the destructor  *)
(* after it, on one thread, against stop() from outside, from requests to  *)
(* quit, and from a failed accept.                                         *)
(*                                                                         *)
(* A step is one critical section, one system call or one unlocked access. *)
(* Listening socket and clients are external.  A connection is only what   *)
(* it sends: at most one request to quit.                                  *)
(***************************************************************************)
EXTENDS Integers, Sequences, FiniteSets, Descriptor

CONSTANTS
    NumWorkers,   \* num_workers of the constructor
    Timer,        \* the callbacks given to addTimer
    Load          \* bounds, one of which a behaviour has: clients that connect, requests
                  \* to quit, timers, ticks of the clock

ASSUME ServiceBounds ==
    /\ NumWorkers \in Nat \ {0}
    /\ Timer \cap {"accept", "quit", "NULL"} = {}
    /\ Load \subseteq [clients : Nat, quits : Nat, timers : Nat, ticks : Nat]

Worker == 1..NumWorkers
Outside == 0
Caller == Worker \cup {Outside}   \* the threads that may call stop()

VARIABLES
    stop_requested_, stopped_,  \* of the IOService
    mgr_stopped_, polling_,     \* stopped_ and polling_ of the IOManager
    listen_fd_, backlog,        \* the listening socket, connections not accepted
    edge,                       \* it has an unreported event
    io_descr_,                  \* of the Acceptor: is it set
    descr, accepting,           \* its Descriptor: life, and read side
    clients, accepted, quits,   \* clients that came, were accepted, asked to quit
    asking,                     \* requests to quit that epoll has not reported
    bound,                      \* the Load of this behaviour
    now, timer_queue_,          \* the clock, and the timers that wait
    ts, ran,                    \* when a timer is due, and how often it ran
    batch,                      \* events the poll loop handles
    main,                       \* where the thread of start() is
    queue,                      \* callbacks in the pool
    pc, back,                   \* where a worker is, and where stop() returns to
    last_worker_,               \* the worker that stopped the pool
    stopAt                      \* where a stop() call is

service == <<stop_requested_, stopped_>>
manager == <<mgr_stopped_, polling_>>
listener == <<listen_fd_, backlog, edge, io_descr_, descr, accepting>>
users == <<clients, accepted, quits, asking>>
timers == <<bound, now, timer_queue_, ts, ran>>
workers == <<pc, back, last_worker_>>
vars == <<stop_requested_, stopped_, mgr_stopped_, polling_, listen_fd_, backlog, edge,
          io_descr_, descr, accepting, clients, accepted, quits, asking, timers, batch, main,
          queue, pc, back, last_worker_, stopAt>>

NoEvents == [accept |-> FALSE, quits |-> 0, now |-> 0]
NoTime == -1

ManagerInit ==
    /\ mgr_stopped_ = FALSE /\ polling_ = FALSE
    /\ queue = <<>>
    /\ pc = [w \in Worker |-> "idle"]
    /\ back = [w \in Worker |-> "idle"]
    /\ last_worker_ = Outside
    /\ timer_queue_ = {}

ServiceInit ==
    /\ ManagerInit
    /\ stop_requested_ = FALSE /\ stopped_ = FALSE
    /\ stopAt = [c \in Caller |-> "no"]

(* A port that cannot be had ends the program. *)
AcceptorInit ==
    /\ listen_fd_ = "open" /\ backlog = 0 /\ edge = FALSE
    /\ io_descr_ = "set" /\ descr = "live" /\ accepting = NotReady

(* HTTPService has made the service and registered its acceptor. *)
Init ==
    /\ ServiceInit
    /\ AcceptorInit
    /\ clients = 0 /\ accepted = 0 /\ quits = 0 /\ asking = 0
    /\ bound \in Load
    /\ now = 0
    /\ ts = [t \in Timer |-> NoTime] /\ ran = [t \in Timer |-> 0]
    /\ batch = NoEvents
    /\ main = "start"

-----------------------------------------------------------------------------
(* The clients *)

ClientConnects ==
    /\ listen_fd_ = "open" /\ clients < bound.clients
    /\ clients' = clients + 1
    /\ backlog' = backlog + 1
    /\ edge' = TRUE
    /\ UNCHANGED <<service, manager, listen_fd_, io_descr_, descr, accepting, accepted,
                   quits, asking, timers, batch, main, queue, workers, stopAt>>

ClientAsksToQuit ==
    /\ quits < accepted /\ quits < bound.quits
    /\ quits' = quits + 1
    /\ asking' = asking + 1
    /\ UNCHANGED <<service, manager, listener, clients, accepted, timers, batch, main,
                   queue, workers, stopAt>>

-----------------------------------------------------------------------------
(* The timers *)

Tick ==
    /\ now < bound.ticks
    /\ now' = now + 1
    /\ UNCHANGED <<service, manager, listener, users, bound, timer_queue_, ts, ran, batch,
                   main, queue, workers, stopAt>>

Added == {t \in Timer : ts[t] # NoTime}

(* The clock is read before the queue is locked, so a timer may be due     *)
(* already when it is queued.  The poll loop has the lock in "timers".     *)
addTimer(t, delay) ==
    /\ t \notin Added /\ Cardinality(Added) < bound.timers
    /\ main \notin {"timers", "delete manager", "destroyed"}
    /\ \E read \in 0..now : ts' = [ts EXCEPT ![t] = read + delay]
    /\ timer_queue_' = timer_queue_ \cup {t}
    /\ UNCHANGED <<service, manager, listener, users, bound, now, ran, batch, main, queue,
                   workers, stopAt>>

(* Mutant: a timer is left waiting in the tick it is due. *)
DueLater(time) == {t \in timer_queue_ : ts[t] < time}

Due(time) == {t \in timer_queue_ : ts[t] <= time}

-----------------------------------------------------------------------------
(* start and poll *)

(* No event has been taken from epoll yet, so the callback never runs here. *)
startAccept == accepting' = WhenReady(accepting)

Start ==
    /\ main = "start"
    /\ startAccept
    /\ main' = "poll"
    /\ UNCHANGED <<service, manager, listen_fd_, backlog, edge, io_descr_, descr, users,
                   timers, batch, queue, workers, stopAt>>

Poll ==
    /\ main = "poll"
    /\ polling_' = TRUE
    /\ main' = "check"
    /\ UNCHANGED <<service, mgr_stopped_, listener, users, timers, batch, queue, workers,
                   stopAt>>

(* Mutant: poll returns without a word to stop(). *)
CheckStoppedSilent ==
    /\ main = "check"
    /\ IF mgr_stopped_
         THEN main' = "hold" /\ UNCHANGED polling_
         ELSE main' = "wait" /\ UNCHANGED polling_
    /\ UNCHANGED <<service, mgr_stopped_, listener, users, timers, batch, queue, workers,
                   stopAt>>

(* The head of the loop, and its end. *)
CheckStopped ==
    /\ main = "check"
    /\ IF mgr_stopped_
         THEN polling_' = FALSE /\ main' = "hold"
         ELSE main' = "wait" /\ UNCHANGED polling_
    /\ UNCHANGED <<service, mgr_stopped_, listener, users, timers, batch, queue, workers,
                   stopAt>>

(* A poll that times out is a step only if it makes a difference. *)
PollReturns ==
    /\ main = "wait"
    /\ edge \/ asking > 0 \/ Due(now) # {} \/ descr = "garbage" \/ mgr_stopped_
    /\ batch' = [accept |-> edge, quits |-> asking, now |-> now]
    /\ edge' = FALSE
    /\ asking' = 0
    /\ main' = "timers"
    /\ UNCHANGED <<service, manager, listen_fd_, backlog, io_descr_, descr, accepting,
                   clients, accepted, quits, timers, queue, workers, stopAt>>

(* The timers that are due go to the pool one by one, the earliest first.  *)
IssueTimers ==
    /\ main = "timers"
    /\ \/ \E t \in Due(batch.now) :
             /\ \A u \in timer_queue_ : ts[t] <= ts[u]
             /\ queue' = Append(queue, t)
             /\ timer_queue_' = timer_queue_ \ {t}
             /\ UNCHANGED <<main, batch>>
       \/ /\ Due(batch.now) = {}
          /\ main' = "dispatch"
          /\ batch' = [batch EXCEPT !.now = 0]
          /\ UNCHANGED <<queue, timer_queue_>>
    /\ UNCHANGED <<service, manager, listener, users, bound, now, ts, ran, workers, stopAt>>

readIfWaiting ==
    /\ main = "dispatch"
    /\ batch.accept
    /\ accepting' = IfWaiting(accepting)
    /\ batch' = [batch EXCEPT !.accept = FALSE]
    /\ main' = IF Schedules(accepting) THEN "push" ELSE "dispatch"
    /\ UNCHANGED <<service, manager, listen_fd_, backlog, edge, io_descr_, descr, users,
                   timers, queue, workers, stopAt>>

PushAccept ==
    /\ main = "push"
    /\ queue' = Append(queue, "accept")
    /\ main' = "dispatch"
    /\ UNCHANGED <<service, manager, listener, users, timers, batch, workers, stopAt>>

(* The read callback of a connection whose request is to quit. *)
PushQuit ==
    /\ main = "dispatch"
    /\ ~batch.accept /\ batch.quits > 0
    /\ queue' = Append(queue, "quit")
    /\ batch' = [batch EXCEPT !.quits = @ - 1]
    /\ UNCHANGED <<service, manager, listener, users, timers, main, workers, stopAt>>

CollectDeleted ==
    /\ main = "dispatch"
    /\ batch = NoEvents
    /\ descr' = IF descr = "garbage" THEN "freed" ELSE descr
    /\ main' = "check"
    /\ UNCHANGED <<service, manager, listen_fd_, backlog, edge, io_descr_, accepting, users,
                   timers, batch, queue, workers, stopAt>>

StartReturns ==
    /\ main = "hold"
    /\ stopped_
    /\ main' = "returned"
    /\ UNCHANGED <<service, manager, listener, users, timers, batch, queue, workers,
                   stopAt>>

-----------------------------------------------------------------------------
(* The destructor, which calls stop() too.  After start() that returns at  *)
(* once; a service that was never started is stopped here.  The pool drops *)
(* the callbacks it still has, and the timers are forgotten.               *)

DestroyUnstarted ==
    /\ main = "start"
    /\ main' = "destroying"
    /\ stopAt' = [stopAt EXCEPT ![Outside] = "enter"]
    /\ UNCHANGED <<service, manager, listener, users, timers, batch, queue, workers>>

(* The acceptor was closed by stop(): only its callback is deleted. *)
DestroyAcceptors ==
    /\ main = "returned" \/ (main = "destroying" /\ stopAt[Outside] = "done")
    /\ main' = "delete manager"
    /\ UNCHANGED <<service, manager, listener, users, timers, batch, queue, workers, stopAt>>

DestroyManager ==
    /\ main = "delete manager"
    /\ main' = "destroyed"
    /\ queue' = <<>>
    /\ timer_queue_' = {}
    /\ UNCHANGED <<service, manager, listener, users, bound, now, ts, ran, batch, workers,
                   stopAt>>

(* The destructor, once its stop() has returned. *)
TearDown == DestroyAcceptors \/ DestroyManager

-----------------------------------------------------------------------------
(* stop, of the IOService, the Acceptor, the IOManager and the pool.  The  *)
(* thread outside calls it at any time once start() has its acceptor.      *)

StopFromOutside ==
    /\ main \notin {"start", "delete manager", "destroyed"}
    /\ stopAt[Outside] = "no"
    /\ stopAt' = [stopAt EXCEPT ![Outside] = "enter"]
    /\ UNCHANGED <<service, manager, listener, users, timers, batch, main, queue, workers>>

StopEnters(c) ==
    /\ stopAt[c] = "enter"
    /\ stopAt' = [stopAt EXCEPT ![c] = IF stop_requested_ THEN "await" ELSE "close"]
    /\ stop_requested_' = TRUE
    /\ UNCHANGED <<stopped_, manager, listener, users, timers, batch, main, queue, workers>>

StopAwaits(c) ==
    /\ stopAt[c] = "await"
    /\ stopped_
    /\ stopAt' = [stopAt EXCEPT ![c] = "done"]
    /\ UNCHANGED <<service, manager, listener, users, timers, batch, main, queue, workers>>

(* Closing takes the socket out of the epoll set, with its events. *)
CloseListener(c) ==
    /\ stopAt[c] = "close"
    /\ listen_fd_' = "closed"
    /\ backlog' = 0
    /\ edge' = FALSE
    /\ stopAt' = [stopAt EXCEPT ![c] = "delete"]
    /\ UNCHANGED <<service, manager, io_descr_, descr, accepting, users, timers, batch,
                   main, queue, workers>>

delDescriptor(c) ==
    /\ stopAt[c] = "delete"
    /\ descr' = "garbage"
    /\ stopAt' = [stopAt EXCEPT ![c] = "clear"]
    /\ UNCHANGED <<service, manager, listen_fd_, backlog, edge, io_descr_, accepting, users,
                   timers, batch, main, queue, workers>>

ClearDescriptor(c) ==
    /\ stopAt[c] = "clear"
    /\ io_descr_' = "NULL"
    /\ stopAt' = [stopAt EXCEPT ![c] = "manager"]
    /\ UNCHANGED <<service, manager, listen_fd_, backlog, edge, descr, accepting, users,
                   timers, batch, main, queue, workers>>

StopManager(c) ==
    /\ stopAt[c] = "manager"
    /\ mgr_stopped_' = TRUE
    /\ stopAt' = [stopAt EXCEPT ![c] = "polling"]
    /\ UNCHANGED <<service, polling_, listener, users, timers, batch, main, queue, workers>>

AwaitPollEnd(c) ==
    /\ stopAt[c] = "polling"
    /\ ~polling_
    /\ stopAt' = [stopAt EXCEPT ![c] = "pool"]
    /\ UNCHANGED <<service, manager, listener, users, timers, batch, main, queue, workers>>

(* One stop request per worker. *)
StopPool(c) ==
    /\ stopAt[c] = "pool"
    /\ queue' = queue \o [w \in Worker |-> "NULL"]
    /\ stopAt' = [stopAt EXCEPT ![c] = "join"]
    /\ UNCHANGED <<service, manager, listener, users, timers, batch, main, workers>>

(* Mutant: the workers are not joined. *)
StopReclaimsUnjoined(c) ==
    /\ stopAt[c] = "join"
    /\ last_worker_' = c
    /\ descr' = IF descr = "garbage" THEN "freed" ELSE descr
    /\ stopAt' = [stopAt EXCEPT ![c] = "tell"]
    /\ UNCHANGED <<service, manager, listen_fd_, backlog, edge, io_descr_, accepting, users,
                   timers, batch, main, queue, pc, back>>

(* The other workers are joined, and the deleted Descriptors freed. *)
StopReclaims(c) ==
    /\ stopAt[c] = "join"
    /\ \A w \in Worker \ {c} : pc[w] = "ended"
    /\ last_worker_' = c
    /\ descr' = IF descr = "garbage" THEN "freed" ELSE descr
    /\ stopAt' = [stopAt EXCEPT ![c] = "tell"]
    /\ UNCHANGED <<service, manager, listen_fd_, backlog, edge, io_descr_, accepting, users,
                   timers, batch, main, queue, pc, back>>

(* The threads that wait for the end of stop() are told. *)
StopEnds(c) ==
    /\ stopAt[c] = "tell"
    /\ stopped_' = TRUE
    /\ stopAt' = [stopAt EXCEPT ![c] = "done"]
    /\ UNCHANGED <<stop_requested_, manager, listener, users, timers, batch, main, queue,
                   workers>>

-----------------------------------------------------------------------------
(* The workers *)

Goto(w, there) == pc' = [pc EXCEPT ![w] = there]

CallStop(w, ret) ==
    /\ Goto(w, "stopping")
    /\ back' = [back EXCEPT ![w] = ret]
    /\ stopAt' = [stopAt EXCEPT ![w] = "enter"]

(* A callback of a Descriptor is freed with it: running it afterwards is a *)
(* crash, or worse.                                                        *)
TakeTask(w) ==
    /\ pc[w] = "idle"
    /\ queue # <<>>
    /\ queue' = Tail(queue)
    /\ CASE Head(queue) = "accept" ->
                /\ Goto(w, IF descr = "freed" THEN "crashed" ELSE "accept")
                /\ UNCHANGED <<back, stopAt, ran>>
         [] Head(queue) = "quit" -> CallStop(w, "done") /\ UNCHANGED ran
         [] Head(queue) = "NULL" -> Goto(w, "ended") /\ UNCHANGED <<back, stopAt, ran>>
         [] Head(queue) \in Timer ->
                /\ ran' = [ran EXCEPT ![Head(queue)] = @ + 1]
                /\ Goto(w, "done")
                /\ UNCHANGED <<back, stopAt>>
    /\ UNCHANGED <<service, manager, listener, users, bound, now, timer_queue_, ts, batch,
                   main, last_worker_>>

(* doAccept.  With the socket closed, accept fails, acceptConnection sees  *)
(* the stop and returns, and the loop goes round: the worker stays here.   *)
AcceptOne(w) ==
    /\ pc[w] = "accept" /\ listen_fd_ = "open" /\ backlog > 0
    /\ backlog' = backlog - 1
    /\ accepted' = accepted + (IF stop_requested_ THEN 0 ELSE 1)
    /\ UNCHANGED <<service, manager, listen_fd_, edge, io_descr_, descr, accepting, clients,
                   quits, asking, timers, batch, main, queue, workers, stopAt>>

AcceptNone(w) ==
    /\ pc[w] = "accept" /\ listen_fd_ = "open" /\ backlog = 0
    /\ Goto(w, "rewait")
    /\ UNCHANGED <<service, manager, listener, users, timers, batch, main, queue, back,
                   last_worker_, stopAt>>

AcceptFails(w) ==
    /\ pc[w] = "accept" /\ listen_fd_ = "open" /\ ~stop_requested_
    /\ CallStop(w, "accept")
    /\ UNCHANGED <<service, manager, listener, users, timers, batch, main, queue,
                   last_worker_>>

readWhenReady(w) ==
    /\ pc[w] = "rewait"
    /\ IF io_descr_ = "NULL" \/ descr = "freed"
         THEN Goto(w, "crashed") /\ UNCHANGED accepting
         ELSE /\ accepting' = WhenReady(accepting)
              /\ Goto(w, IF RunsNow(accepting) THEN "schedule" ELSE "done")
    /\ UNCHANGED <<service, manager, listen_fd_, backlog, edge, io_descr_, descr, users,
                   timers, batch, main, queue, back, last_worker_, stopAt>>

ScheduleAccept(w) ==
    /\ pc[w] = "schedule"
    /\ IF descr = "freed"
         THEN Goto(w, "crashed") /\ UNCHANGED queue
         ELSE Goto(w, "done") /\ queue' = Append(queue, "accept")
    /\ UNCHANGED <<service, manager, listener, users, timers, batch, main, back,
                   last_worker_, stopAt>>

StopReturns(w) ==
    /\ pc[w] = "stopping" /\ stopAt[w] = "done"
    /\ Goto(w, back[w])
    /\ stopAt' = [stopAt EXCEPT ![w] = "no"]
    /\ UNCHANGED <<service, manager, listener, users, timers, batch, main, queue, back,
                   last_worker_>>

TaskDone(w) ==
    /\ pc[w] = "done"
    /\ Goto(w, IF last_worker_ = w THEN "ended" ELSE "idle")
    /\ UNCHANGED <<service, manager, listener, users, timers, batch, main, queue, back,
                   last_worker_, stopAt>>

-----------------------------------------------------------------------------
MainStep ==
    \/ Start
    \/ Poll
    \/ CheckStopped
    \/ PollReturns
    \/ IssueTimers
    \/ readIfWaiting
    \/ PushAccept
    \/ PushQuit
    \/ CollectDeleted
    \/ StartReturns
    \/ TearDown

StopStep(c) ==
    \/ StopEnters(c)
    \/ StopAwaits(c)
    \/ CloseListener(c)
    \/ delDescriptor(c)
    \/ ClearDescriptor(c)
    \/ StopManager(c)
    \/ AwaitPollEnd(c)
    \/ StopPool(c)
    \/ StopReclaims(c)
    \/ StopEnds(c)

WorkerStep(w) ==
    \/ TakeTask(w)
    \/ AcceptOne(w)
    \/ AcceptNone(w)
    \/ readWhenReady(w)
    \/ ScheduleAccept(w)
    \/ StopReturns(w)
    \/ TaskDone(w)

Next ==
    \/ ClientConnects
    \/ ClientAsksToQuit
    \/ Tick
    \/ \E t \in Timer, delay \in 0..1 : addTimer(t, delay)
    \/ StopFromOutside
    \/ DestroyUnstarted
    \/ MainStep
    \/ \E c \in Caller : StopStep(c)
    \/ \E w \in Worker : WorkerStep(w) \/ AcceptFails(w)

Spec == Init /\ [][Next]_vars

(* The threads run.  Nobody has to connect, to stop, or to fail. *)
FairSpec ==
    /\ Spec
    /\ WF_vars(MainStep)
    /\ \A c \in Caller : WF_vars(StopStep(c))
    /\ \A w \in Worker : WF_vars(WorkerStep(w))

-----------------------------------------------------------------------------
(* The right to run doAccept, held by the Descriptor (waiting_read_), by   *)
(* the poll loop, by the queue or by a worker, exists at most once: two    *)
(* workers never accept from one socket at a time, which nothing but the   *)
(* hand-over of readWhenReady and readIfWaiting prevents.                  *)
OneAcceptor ==
    (IF accepting.waiting THEN 1 ELSE 0) + (IF main = "push" THEN 1 ELSE 0)
      + Cardinality({i \in 1..Len(queue) : queue[i] = "accept"})
      + Cardinality({w \in Worker : pc[w] \in {"accept", "rewait", "schedule"}
                                     \/ (pc[w] = "stopping" /\ back[w] = "accept")}) <= 1

(* The poll loop never touches a Descriptor that was freed, although a     *)
(* stop() may delete it after epoll reported it; and while the pool is     *)
(* being stopped and joined, and ever after, the loop gives it no callback *)
(* (io_manager.cpp:40-43).  Once stop() completed, every worker has ended  *)
(* but the one that ran it, which the destructor's comment (the "threads   *)
(* have all joined", io_service.cpp:23-24) overlooks; every timer that was *)
(* issued has run, once and not before it was due ("waits until all        *)
(* previously enqueued callbacks were served", io_service.cpp:87-88; a     *)
(* worker that has no other to join leaves them unserved); and start()     *)
(* returns only then: nothing is given to the pool the destructor frees.   *)
OrderlyStop ==
    /\ batch.accept => descr # "freed"
    /\ (\E c \in Caller : stopAt[c] \in {"pool", "join", "tell"}) \/ stopped_
         => main \notin {"wait", "timers", "dispatch", "push"}
    /\ main = "returned" => stopped_
    /\ stopped_ => \A w \in Worker : w = last_worker_ \/ pc[w] = "ended"
    /\ \A t \in Timer : /\ ran[t] = 1 => ts[t] <= now
                        /\ ran[t] <= 1
                        /\ stopped_ /\ t \in Added /\ main # "destroyed"
                           /\ (NumWorkers = 1 => last_worker_ = Outside)
                             => (ran[t] = 1 <=> t \notin timer_queue_)
    /\ main = "destroyed" => queue = <<>>

(* A client that connects is accepted, unless the service is stopped: no   *)
(* edge-triggered event of the listening socket is lost between the        *)
(* accept() that finds nothing and the wait for the next event.  A timer   *)
(* runs once it is due, whatever the traffic.                              *)
EventsServed ==
    /\ backlog > 0 ~> backlog = 0 \/ stop_requested_
    /\ \A t \in Timer : t \in timer_queue_ /\ ts[t] <= now ~> ran[t] = 1 \/ stop_requested_

(* What holds a stop() up: a worker that accepts from the closed socket    *)
(* for ever, that used the Descriptor stop() took away, or that waits for  *)
(* the other stop() to complete, which is waiting to join it.              *)
Caught(w) ==
    \/ pc[w] = "accept" /\ listen_fd_ = "closed"
    \/ pc[w] = "crashed"
    \/ stopAt[w] = "await"

(* stop() completes, start() returns and the service is destroyed, unless  *)
(* a worker is caught.                                                     *)
StopCompletes ==
    stop_requested_ ~> main = "destroyed" \/ \E w \in Worker : Caught(w)

(* io_service.hpp:34-36: stop() may be called from any thread, and more    *)
(* than once: whoever calls it, it completes.                              *)
StopIsSafe == stop_requested_ ~> stopped_
=============================================================================
