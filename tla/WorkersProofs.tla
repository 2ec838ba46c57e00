---------------------------- MODULE WorkersProofs ----------------------------
(***************************************************************************)
(* For any number of threads, pools and slots: until the slots run out, no *)
(* two threads share one, a worker finds its own number in its slot, and a *)
(* crash is reported with one stack at a time.                             *)
(***************************************************************************)
EXTENDS Workers, FiniteSetTheorems, TLAPS

Place == {"none", "register", "body", "exit", "ended"}

LocalType ==
    /\ taken \in Nat
    /\ curavail_slot_ \in Int
    /\ storageArr \in [0..(MaxThreads - 1) -> Int]
    /\ local_key_ \in [Thread -> Int]

WorkersType ==
    /\ LocalType
    /\ life \in [Anyone -> Place]
    /\ loop \in [Thread -> {"slot", "number", "tasks"}]

(* curavail_slot_ is the number of slots handed out: they are the ones     *)
(* below it, each for one thread.                                          *)
SlotsHandedOut ==
    /\ curavail_slot_ = taken
    /\ \A t \in Thread : local_key_[t] = NoSlot \/ local_key_[t] \in 0..(taken - 1)
    /\ \A t, u \in Thread :
         (local_key_[t] = local_key_[u] /\ local_key_[t] # NoSlot) => (t = u)

(* A worker past setVal has its number in its slot. *)
NumbersStored ==
    \A t \in Thread : (life[t] # "ended") =>
      /\ (loop[t] # "slot") => (local_key_[t] # NoSlot)
      /\ (loop[t] = "tasks") => (storageArr[local_key_[t]] = Instance(t))

(* Once the slots have run out there is nothing left to keep: setVal may   *)
(* write to curavail_slot_, and slots are handed out again.                *)
WorkersInv ==
    /\ WorkersType
    /\ (taken <= MaxThreads) => (SlotsHandedOut /\ NumbersStored)

-----------------------------------------------------------------------------
LEMMA InstanceType == \A t \in Thread : Instance(t) \in Int
  BY ThreadAssumption, StatsAssumption DEF Instance

LEMMA InitInv == Init => WorkersInv
  BY MaxThreadsAssumption, MainAssumption
  DEF Init, ThreadsInit, LocalInit, WorkersInv, WorkersType, LocalType, SlotsHandedOut,
      NumbersStored, NoSlot, Anyone, Place

(* Steps that leave slots and loops alone, and bring nobody back to life.  *)
LEMMA OtherSteps ==
  ASSUME WorkersInv, UNCHANGED <<local, loop>>, life' \in [Anyone -> Place],
         \A t \in Thread : (life[t] = "ended") => (life'[t] = "ended")
  PROVE  WorkersInv'
  BY DEF WorkersInv, WorkersType, LocalType, SlotsHandedOut, NumbersStored, local, Instance

(* Steps of the handler, and those of the statistics. *)
LEMMA QuietSteps ==
  ASSUME WorkersInv, UNCHANGED <<local, loop, registry>>
  PROVE  WorkersInv'
  <1>1. life' = life
    BY DEF registry
  <1> QED
    BY <1>1, OtherSteps DEF WorkersInv, WorkersType

LEMMA HandlerLeavesRegistry ==
  ASSUME NEW t \in Anyone, HandlerStep(t)
  PROVE  UNCHANGED registry
  BY DEF HandlerStep, EnterFatal, PrintOwnStack, getAllThreadIDs, AskNext, AwaitAnswer,
         CloseSemaphore, RaiseAgain, DeliverUsr1, DumpStack, PostAnswer, registry

LEMMA TakeSlotInv ==
  ASSUME WorkersInv, NEW t \in Thread, TakeSlot(t)
  PROVE  WorkersInv'
  <1>1. /\ life' = life /\ life[t] = "body"
        /\ loop' = [loop EXCEPT ![t] = "number"]
    BY DEF TakeSlot, Runs, registry
  <1>2. CASE local_key_[t] = NoSlot
    <2>1. /\ local_key_' = [local_key_ EXCEPT ![t] = curavail_slot_]
          /\ curavail_slot_' = curavail_slot_ + 1
          /\ taken' = taken + 1
          /\ storageArr' = storageArr
      BY <1>2 DEF TakeSlot, getLocalState
    <2>2. WorkersType'
      BY <1>1, <2>1 DEF WorkersInv, WorkersType, LocalType
    <2>3. (taken' <= MaxThreads) => (SlotsHandedOut' /\ NumbersStored')
      BY <1>1, <2>1, MaxThreadsAssumption
      DEF WorkersInv, WorkersType, LocalType, SlotsHandedOut, NumbersStored, NoSlot, Instance
    <2> QED
      BY <2>2, <2>3 DEF WorkersInv
  <1>3. CASE local_key_[t] # NoSlot
    <2>1. UNCHANGED local
      BY <1>3 DEF TakeSlot, getLocalState
    <2> QED
      BY <1>1, <1>3, <2>1
      DEF WorkersInv, WorkersType, LocalType, SlotsHandedOut, NumbersStored, local, Instance
  <1> QED
    BY <1>2, <1>3

LEMMA SetNumberInv ==
  ASSUME WorkersInv, NEW t \in Thread, SetNumber(t)
  PROVE  WorkersInv'
  <1>1. /\ life' = life /\ life[t] = "body"
        /\ loop[t] = "number" /\ loop' = [loop EXCEPT ![t] = "tasks"]
        /\ local_key_' = local_key_ /\ taken' = taken
        /\ storageArr' = [i \in DOMAIN storageArr |->
                            IF i = local_key_[t] THEN Instance(t) ELSE storageArr[i]]
        /\ curavail_slot_' = IF local_key_[t] = MaxThreads THEN Instance(t) ELSE curavail_slot_
    BY DEF SetNumber, Runs, registry, setVal, Store
  <1>2. WorkersType'
    BY <1>1, InstanceType DEF WorkersInv, WorkersType, LocalType
  <1>3. ASSUME taken <= MaxThreads
        PROVE  SlotsHandedOut' /\ NumbersStored'
    <2>1. local_key_[t] \in 0..(MaxThreads - 1)
      BY <1>1, <1>3, MaxThreadsAssumption
      DEF WorkersInv, WorkersType, LocalType, SlotsHandedOut, NumbersStored, NoSlot
    <2> QED
      BY <1>1, <1>3, <2>1, MaxThreadsAssumption
      DEF WorkersInv, WorkersType, LocalType, SlotsHandedOut, NumbersStored, NoSlot, Instance
  <1> QED
    BY <1>1, <1>2, <1>3 DEF WorkersInv

LEMMA EndInv ==
  ASSUME WorkersInv, NEW t \in Thread, End(t)
  PROVE  WorkersInv'
  <1>1. /\ life' = [life EXCEPT ![t] = "ended"]
        /\ loop' = loop
    BY DEF End, ThreadEnds, Live
  <1>2. CASE local_key_[t] = NoSlot
    <2>1. UNCHANGED local
      BY <1>2 DEF End, destroyLocalKey
    <2>2. /\ life' \in [Anyone -> Place]
          /\ \A u \in Thread : (life[u] = "ended") => (life'[u] = "ended")
      BY <1>1 DEF WorkersInv, WorkersType, Place, Anyone
    <2> QED
      BY <1>1, <2>1, <2>2, OtherSteps
  <1>3. CASE local_key_[t] # NoSlot
    <2>1. /\ local_key_' = [local_key_ EXCEPT ![t] = NoSlot] /\ taken' = taken
          /\ storageArr' = [i \in DOMAIN storageArr |->
                              IF i = local_key_[t] THEN 0 ELSE storageArr[i]]
          /\ curavail_slot_' = IF local_key_[t] = MaxThreads THEN 0 ELSE curavail_slot_
      BY <1>3 DEF End, destroyLocalKey, Store
    <2>2. WorkersType'
      BY <1>1, <2>1 DEF WorkersInv, WorkersType, LocalType, NoSlot, Place, Anyone
    <2>3. ASSUME taken <= MaxThreads
          PROVE  SlotsHandedOut' /\ NumbersStored'
      <3>1. local_key_[t] \in 0..(MaxThreads - 1)
        BY <1>3, <2>3, MaxThreadsAssumption DEF WorkersInv, WorkersType, LocalType, SlotsHandedOut
      <3> QED
        BY <1>1, <1>3, <2>1, <2>3, <3>1, MaxThreadsAssumption
        DEF WorkersInv, WorkersType, LocalType, SlotsHandedOut, NumbersStored, NoSlot, Instance,
            Anyone
    <2> QED
      BY <2>1, <2>2, <2>3 DEF WorkersInv
  <1> QED
    BY <1>2, <1>3

LEMMA NextInv == WorkersInv /\ [Next]_vars => WorkersInv'
  <1> SUFFICES ASSUME WorkersInv, [Next]_vars
               PROVE  WorkersInv'
    OBVIOUS
  <1>1. CASE UNCHANGED vars
    BY <1>1, QuietSteps DEF vars
  <1>2. ASSUME NEW t \in Thread, NewWorker(t)
        PROVE  WorkersInv'
    <2>1. /\ life' = [life EXCEPT ![t] = "register"] /\ life[t] = "none"
          /\ UNCHANGED <<local, loop>>
      BY <1>2 DEF NewWorker, makeThread, Live
    <2>2. /\ life' \in [Anyone -> Place]
          /\ \A u \in Thread : (life[u] = "ended") => (life'[u] = "ended")
      BY <2>1 DEF WorkersInv, WorkersType, Place, Anyone
    <2> QED
      BY <2>1, <2>2, OtherSteps
  <1>3. ASSUME NEW t \in Thread, Register(t)
        PROVE  WorkersInv'
    <2>1. /\ life' = [life EXCEPT ![t] = "body"] /\ life[t] = "register"
          /\ UNCHANGED <<local, loop>>
      BY <1>3 DEF Register, registerThread, Runs, Live
    <2>2. /\ life' \in [Anyone -> Place]
          /\ \A u \in Thread : (life[u] = "ended") => (life'[u] = "ended")
      BY <2>1 DEF WorkersInv, WorkersType, Place, Anyone
    <2> QED
      BY <2>1, <2>2, OtherSteps
  <1>4. ASSUME NEW t \in Thread, HandleRequest(t) \/ HandleStats(t) \/ Stats(t)
        PROVE  WorkersInv'
    BY <1>4, QuietSteps DEF HandleRequest, HandleStats, Stats
  <1>5. ASSUME NEW t \in Thread, LeaveLoop(t)
        PROVE  WorkersInv'
    <2>1. /\ life' = [life EXCEPT ![t] = "exit"] /\ life[t] = "body"
          /\ UNCHANGED <<local, loop>>
      BY <1>5 DEF LeaveLoop, unregisterThread, Runs, Live
    <2>2. /\ life' \in [Anyone -> Place]
          /\ \A u \in Thread : (life[u] = "ended") => (life'[u] = "ended")
      BY <2>1 DEF WorkersInv, WorkersType, Place, Anyone
    <2> QED
      BY <2>1, <2>2, OtherSteps
  <1>6. ASSUME NEW t \in Anyone, Crash(t)
        PROVE  WorkersInv'
    BY <1>6, QuietSteps DEF Crash, Fault
  <1>7. ASSUME NEW t \in Anyone, Handle(t)
        PROVE  WorkersInv'
    BY <1>7, HandlerLeavesRegistry, QuietSteps DEF Handle
  <1>8. CASE TimePasses
    BY <1>8, QuietSteps DEF TimePasses
  <1> QED
    BY <1>1, <1>2, <1>3, <1>4, <1>5, <1>6, <1>7, <1>8, TakeSlotInv, SetNumberInv, EndInv DEF Next

(* What the threads of any pools, their handlers and the statistics do     *)
(* together keeps the slots in order.                                      *)
THEOREM WorkersTheorem == Spec => []WorkersInv
  BY InitInv, NextInv, PTL DEF Spec

(* "Each thread accessing a ThreadLocal<T> will have its own instance of   *)
(* T" (thread_local.hpp:10-11), until MAXNUMOFTHREADS threads have used it *)
(* since the process began.                                                *)
THEOREM SlotsTheorem == Spec => []SlotsExclusive
  <1>1. WorkersInv => SlotsExclusive
    BY DEF WorkersInv, SlotsHandedOut, SlotsExclusive
  <1> QED
    BY <1>1, WorkersTheorem, PTL

(* finishedRequest(i,...) "is only called by the i-th thread"              *)
(* (request_stats.hpp:21): ME() gives a worker its own number.             *)
THEOREM OwnNumberTheorem == Spec => []OwnNumber
  <1>1. WorkersInv => OwnNumber
    <2> SUFFICES ASSUME WorkersInv, taken <= MaxThreads, NEW t \in Thread,
                        loop[t] = "tasks", life[t] # "ended"
                 PROVE  ME(t) = {Instance(t)}
      BY DEF OwnNumber
    <2>1. local_key_[t] \in DOMAIN storageArr /\ storageArr[local_key_[t]] = Instance(t)
      BY MaxThreadsAssumption
      DEF WorkersInv, WorkersType, LocalType, SlotsHandedOut, NumbersStored
    <2> QED
      BY <2>1 DEF ME, getVal
  <1> QED
    BY <1>1, WorkersTheorem, PTL
-----------------------------------------------------------------------------
(* The report of a crash *)

FatalPlace == {"no", "enter", "print", "list", "next", "wait", "raise"}
DumpPlace == {"no", "print", "post"}

HandlerType ==
    /\ thread_ids_ \subseteq Thread
    /\ sem \in Int
    /\ fatal \in [Anyone -> FatalPlace]
    /\ dump \in [Anyone -> DumpPlace]
    /\ tids \in [Anyone -> SUBSET Thread]
    /\ asked \in [Anyone -> SUBSET Thread]
    /\ traces \in [Anyone -> Nat]
    /\ usr1 \subseteq Anyone

(* Nobody is asked for a stack. *)
NobodyAsked == usr1 = {} /\ \A u \in Anyone : dump[u] = "no"

(* These threads have printed their stacks, once each. *)
Printed(S) == \A u \in Anyone : traces[u] = IF u \in S THEN 1 ELSE 0

(* The handler of t waits for u: until the signal reaches u, if it ever    *)
(* does, while u prints, before u posts, and with the answer there.        *)
WaitsFor(t, u) ==
    LET Before == {t} \cup (asked[t] \ (tids[t] \cup {u}))
    IN  /\ usr1 \subseteq {u}
        /\ \A v \in Anyone : (v # u) => (dump[v] = "no")
        /\ \/ dump[u] = "no" /\ sem = 0 /\ Printed(Before)
           \/ usr1 = {} /\ dump[u] = "print" /\ sem = 0 /\ Printed(Before)
           \/ usr1 = {} /\ dump[u] = "post" /\ sem = 0 /\ Printed(Before \cup {u})
           \/ usr1 = {} /\ dump[u] = "no" /\ sem = 1 /\ Printed(Before \cup {u})

(* How far the handler of t has come, and what it has to show for it. *)
Progress(t) ==
    /\ dead => (fatal[t] = "raise")
    /\ t \notin asked[t] /\ tids[t] \subseteq asked[t]
    /\ (fatal[t] \in {"no", "enter", "print"}) =>
         (NobodyAsked /\ sem = 0 /\ Printed({}))
    /\ (fatal[t] = "list") => (NobodyAsked /\ sem = 0 /\ Printed({t}))
    /\ (fatal[t] = "next") =>
         (NobodyAsked /\ sem = 0 /\ Printed({t} \cup (asked[t] \ tids[t])))
    /\ (fatal[t] = "wait") => \E u \in asked[t] \ tids[t] : WaitsFor(t, u)
    /\ (fatal[t] = "raise") => (NobodyAsked /\ Printed({t} \cup asked[t]))

(* Until another thread faults; FATAL for a number that is not one ends    *)
(* the process without a report, once the slots have run out.              *)
ReportInv ==
    /\ HandlerType
    /\ (taken <= MaxThreads) =>
         \A t \in Anyone : (Faulted \subseteq {t}) => Progress(t)

LEMMA InitReport == Init => ReportInv
  <1> SUFFICES ASSUME Init
               PROVE  ReportInv
    OBVIOUS
  <1>1. HandlerType
    <2>1. sem = 0 /\ traces = [t \in Anyone |-> 0]
      BY Zenon DEF Init, ThreadsInit
    <2>2. sem \in Int /\ traces \in [Anyone -> Nat]
      BY <2>1
    <2> QED
      BY Zenon, <2>2 DEF Init, ThreadsInit, HandlerType, FatalPlace, DumpPlace
  <1>2. ASSUME NEW t \in Anyone
        PROVE  Progress(t)
    BY DEF Init, ThreadsInit, Progress, NobodyAsked, Printed
  <1> QED
    BY Zenon, <1>1, <1>2 DEF ReportInv

(* A thread that is in the handler is the one that faulted. *)
LEMMA InHandler ==
  ASSUME NEW f \in Anyone, Faulted \subseteq {f}, NEW t \in Anyone, fatal[t] # "no"
  PROVE  t = f
  BY DEF Faulted

LEMMA HandlerKeepsType ==
  ASSUME HandlerType, NEW t \in Anyone, HandlerStep(t)
  PROVE  HandlerType' /\ \A v \in Anyone : (fatal[v] # "no") => (fatal'[v] # "no")
  <1> USE DEF HandlerType, FatalPlace, DumpPlace, registry, Goto, At
  <1>1. CASE EnterFatal(t)
    BY <1>1 DEF EnterFatal
  <1>2. CASE PrintOwnStack(t)
    BY <1>2 DEF PrintOwnStack
  <1>3. CASE getAllThreadIDs(t)
    BY <1>3 DEF getAllThreadIDs
  <1>4. ASSUME NEW u \in Thread, AskNext(t, u)
        PROVE  HandlerType' /\ \A v \in Anyone : (fatal[v] # "no") => (fatal'[v] # "no")
    <2>1. u \in Anyone
      BY DEF Anyone
    <2> QED
      BY <1>4, <2>1 DEF AskNext
  <1>5. CASE AwaitAnswer(t)
    BY <1>5 DEF AwaitAnswer, Closed
  <1>6. CASE CloseSemaphore(t)
    BY <1>6 DEF CloseSemaphore, Closed
  <1>7. CASE RaiseAgain(t)
    BY <1>7 DEF RaiseAgain
  <1>8. CASE DeliverUsr1(t)
    BY <1>8 DEF DeliverUsr1
  <1>9. CASE DumpStack(t)
    BY <1>9 DEF DumpStack
  <1>10. CASE PostAnswer(t)
    BY <1>10 DEF PostAnswer, Closed
  <1> QED
    BY Zenon, <1>1, <1>2, <1>3, <1>4, <1>5, <1>6, <1>7, <1>8, <1>9, <1>10 DEF HandlerStep

(* Up to the look at the registry, and the end of it. *)
LEMMA ListProgress ==
  ASSUME HandlerType, NEW f \in Anyone, Faulted \subseteq {f}, Progress(f),
         NEW t \in Anyone,
         \/ EnterFatal(t) \/ PrintOwnStack(t) \/ getAllThreadIDs(t)
         \/ CloseSemaphore(t) \/ RaiseAgain(t)
  PROVE  Progress(f)'
  <1>1. t = f
    BY InHandler DEF EnterFatal, PrintOwnStack, getAllThreadIDs, CloseSemaphore, RaiseAgain, At
  <1> USE DEF HandlerType, Progress, NobodyAsked, Printed, At, Goto
  <1>2. CASE EnterFatal(t)
    BY <1>1, <1>2 DEF EnterFatal
  <1>3. CASE PrintOwnStack(t)
    BY <1>1, <1>3 DEF PrintOwnStack
  <1>4. CASE getAllThreadIDs(t)
    BY <1>1, <1>4 DEF getAllThreadIDs
  <1>5. CASE CloseSemaphore(t)
    BY <1>1, <1>5 DEF CloseSemaphore
  <1>6. CASE RaiseAgain(t)
    BY <1>1, <1>6 DEF RaiseAgain
  <1> QED
    BY Zenon, <1>2, <1>3, <1>4, <1>5, <1>6

LEMMA AskProgress ==
  ASSUME HandlerType, NEW f \in Anyone, Faulted \subseteq {f}, Progress(f),
         NEW t \in Anyone, NEW u \in Thread, AskNext(t, u)
  PROVE  Progress(f)'
  <1>1. t = f
    BY InHandler DEF AskNext, At
  <1>2. /\ fatal[f] = "next" /\ fatal'[f] = "wait" /\ u \in tids[f]
        /\ tids'[f] = tids[f] \ {u} /\ asked' = asked /\ sem' = sem
        /\ traces' = traces /\ dump' = dump /\ dead' = dead /\ ~dead
    BY <1>1 DEF AskNext, At, Goto, HandlerType
  <1>3. NobodyAsked /\ sem = 0 /\ Printed({f} \cup (asked[f] \ tids[f]))
    BY Zenon, <1>2 DEF Progress
  <1>4. usr1' \subseteq {u}
    BY <1>3 DEF AskNext, NobodyAsked
  <1>5. u \in asked[f] \ tids'[f] /\ u \in Anyone
    BY <1>2 DEF Progress, Anyone
  <1>6. {f} \cup (asked[f] \ (tids'[f] \cup {u})) = {f} \cup (asked[f] \ tids[f])
    BY <1>2
  <1>7. WaitsFor(f, u)'
    BY <1>2, <1>3, <1>4, <1>5, <1>6 DEF WaitsFor, NobodyAsked, Printed
  <1>8. f \notin asked'[f] /\ tids'[f] \subseteq asked'[f]
    BY <1>2 DEF Progress
  <1> QED
    BY Zenon, <1>2, <1>5, <1>7, <1>8 DEF Progress

LEMMA AwaitProgress ==
  ASSUME HandlerType, NEW f \in Anyone, Faulted \subseteq {f}, Progress(f),
         NEW t \in Anyone, AwaitAnswer(t)
  PROVE  Progress(f)'
  <1>1. t = f /\ fatal[f] = "wait" /\ sem # 0
    BY InHandler DEF AwaitAnswer, At
  <1>2. PICK u \in asked[f] \ tids[f] : WaitsFor(f, u)
    BY Zenon, <1>1 DEF Progress
  <1>3. /\ sem = 1 /\ usr1 = {} /\ u \in Anyone
        /\ \A v \in Anyone : dump[v] = "no"
        /\ Printed(({f} \cup (asked[f] \ (tids[f] \cup {u}))) \cup {u})
    BY Zenon, <1>1, <1>2 DEF WaitsFor, HandlerType, Anyone
  <1>4. ({f} \cup (asked[f] \ (tids[f] \cup {u}))) \cup {u} = {f} \cup (asked[f] \ tids[f])
    BY <1>2
  <1>5. /\ fatal'[f] = "next" /\ sem' = 0 /\ dead' = dead
        /\ tids' = tids /\ asked' = asked /\ usr1' = usr1 /\ dump' = dump /\ traces' = traces
    BY <1>1, <1>3 DEF AwaitAnswer, Closed, Goto, HandlerType
  <1>6. NobodyAsked' /\ Printed({f} \cup (asked[f] \ tids[f]))'
    BY Zenon, <1>3, <1>4, <1>5 DEF NobodyAsked, Printed
  <1>7. ~dead
    BY DEF AwaitAnswer, At
  <1> QED
    BY Zenon, <1>5, <1>6, <1>7 DEF Progress

(* The thread that answers is the one the handler waits for. *)
LEMMA AnswerProgress ==
  ASSUME HandlerType, NEW f \in Anyone, Faulted \subseteq {f}, Progress(f),
         NEW t \in Anyone, DeliverUsr1(t) \/ DumpStack(t) \/ PostAnswer(t)
  PROVE  Progress(f)'
  <1>1. ~dead /\ (t \in usr1 \/ dump[t] # "no")
    BY Zenon DEF DeliverUsr1, DumpStack, PostAnswer
  <1>2. fatal[f] = "wait"
    BY <1>1 DEF Progress, NobodyAsked, HandlerType, FatalPlace
  <1>3. t \in asked[f] \ tids[f] /\ WaitsFor(f, t) /\ t # f
    <2>1. PICK u \in asked[f] \ tids[f] : WaitsFor(f, u)
      BY Zenon, <1>2 DEF Progress
    <2>2. t = u
      BY Zenon, <1>1, <2>1 DEF WaitsFor
    <2> QED
      BY Zenon, <2>1, <2>2 DEF Progress
  <1>4. fatal[t] = "no"
    BY <1>3 DEF Faulted
  <1>5. tids' = tids /\ asked' = asked /\ dead' = dead /\ fatal' = fatal
    <2>1. sem # Closed
      BY <1>3 DEF WaitsFor, Closed
    <2> QED
      BY Zenon, <1>4, <2>1 DEF DeliverUsr1, DumpStack, PostAnswer
  <1>6. WaitsFor(f, t)'
    <2> DEFINE B == {f} \cup (asked[f] \ (tids[f] \cup {t}))
    <2>1. t \notin B /\ \A v \in Anyone : (v # t) => (dump[v] = "no" /\ dump'[v] = "no")
      BY <1>3 DEF WaitsFor, DeliverUsr1, DumpStack, PostAnswer, HandlerType
    <2>2. CASE DeliverUsr1(t)
      <3>1. usr1' = {} /\ dump[t] = "no" /\ dump'[t] = "print" /\ sem' = sem /\ traces' = traces
        BY <1>3, <2>2 DEF DeliverUsr1, WaitsFor, HandlerType
      <3>2. sem = 0 /\ Printed(B)
        BY Zenon, <1>3, <2>2, <3>1 DEF WaitsFor, DeliverUsr1
      <3> QED
        BY <1>5, <2>1, <3>1, <3>2 DEF WaitsFor, Printed
    <2>3. CASE DumpStack(t)
      <3>1. /\ usr1' = usr1 /\ dump[t] = "print" /\ dump'[t] = "post" /\ sem' = sem
            /\ traces' = [traces EXCEPT ![t] = @ + 1]
        BY <2>3 DEF DumpStack, HandlerType
      <3>2. usr1 = {} /\ sem = 0 /\ Printed(B)
        BY <1>3, <3>1 DEF WaitsFor
      <3>3. Printed(B \cup {t})'
        BY <1>5, <2>1, <3>1, <3>2 DEF Printed, HandlerType
      <3> QED
        BY <1>5, <2>1, <3>1, <3>2, <3>3 DEF WaitsFor
    <2>4. CASE PostAnswer(t)
      <3>1. usr1' = usr1 /\ dump[t] = "post" /\ dump'[t] = "no" /\ traces' = traces
        BY <2>4 DEF PostAnswer, HandlerType
      <3>2. usr1 = {} /\ sem = 0 /\ Printed(B \cup {t})
        BY <1>3, <3>1 DEF WaitsFor
      <3>3. sem' = 1
        BY <2>4, <3>2 DEF PostAnswer, Closed
      <3> QED
        BY <1>5, <2>1, <3>1, <3>2, <3>3 DEF WaitsFor, Printed
    <2> QED
      BY Zenon, <2>2, <2>3, <2>4
  <1> QED
    BY Zenon, <1>1, <1>2, <1>3, <1>5, <1>6 DEF Progress

(* Steps of the threads themselves. *)
LEMMA ThreadsKeepReport ==
  ASSUME ReportInv, UNCHANGED handler, thread_ids_' \subseteq Thread,
         (taken' <= MaxThreads) => (taken <= MaxThreads)
  PROVE  ReportInv'
  <1>1. /\ sem' = sem /\ fatal' = fatal /\ dump' = dump /\ tids' = tids /\ asked' = asked
        /\ traces' = traces /\ usr1' = usr1 /\ dead' = dead
    BY Zenon DEF handler
  <1>2. HandlerType'
    BY Zenon, <1>1 DEF ReportInv, HandlerType
  <1>3. Faulted' = Faulted
    BY Zenon, <1>1 DEF Faulted
  <1>4. ASSUME NEW t \in Anyone, Progress(t)
        PROVE  Progress(t)'
    <2>1. \A S : Printed(S)' <=> Printed(S)
      BY Zenon, <1>1 DEF Printed
    <2>2. NobodyAsked' <=> NobodyAsked
      BY Zenon, <1>1 DEF NobodyAsked
    <2>3. \A u : WaitsFor(t, u)' <=> WaitsFor(t, u)
      BY ZenonT(60), <1>1 DEF WaitsFor, Printed
    <2> QED
      BY Zenon, <1>1, <1>4, <2>1, <2>2, <2>3 DEF Progress
  <1> QED
    BY Zenon, <1>2, <1>3, <1>4 DEF ReportInv

LEMMA CrashKeepsReport ==
  ASSUME ReportInv, NEW t \in Anyone, Crash(t)
  PROVE  ReportInv'
  <1>1. /\ fatal[t] = "no" /\ fatal' = [fatal EXCEPT ![t] = "enter"]
        /\ sem' = sem /\ dump' = dump /\ tids' = tids /\ asked' = asked /\ traces' = traces
        /\ usr1' = usr1 /\ dead' = dead /\ ~dead /\ thread_ids_' = thread_ids_ /\ taken' = taken
    BY Zenon DEF Crash, Fault, Runs, Goto, registry, local
  <1>2. HandlerType'
    BY <1>1 DEF ReportInv, HandlerType, FatalPlace
  <1>3. ASSUME NEW f \in Anyone, Faulted' \subseteq {f}, taken <= MaxThreads
        PROVE  Progress(f)'
    <2>1. t = f /\ Faulted \subseteq {f}
      BY <1>1, <1>3 DEF Faulted, ReportInv, HandlerType
    <2>2. Progress(f) /\ fatal[f] = "no" /\ fatal'[f] = "enter"
      BY <1>1, <1>3, <2>1 DEF ReportInv, HandlerType
    <2> QED
      BY Zenon, <1>1, <2>2 DEF Progress, NobodyAsked, Printed
  <1> QED
    BY Zenon, <1>1, <1>2, <1>3 DEF ReportInv

LEMMA HandlerKeepsReport ==
  ASSUME ReportInv, NEW t \in Anyone, HandlerStep(t), UNCHANGED local
  PROVE  ReportInv'
  <1>1. HandlerType' /\ \A v \in Anyone : (fatal[v] # "no") => (fatal'[v] # "no")
    BY Zenon, HandlerKeepsType DEF ReportInv
  <1>2. Faulted \subseteq Faulted'
    BY Zenon, <1>1 DEF Faulted
  <1>3. ASSUME NEW f \in Anyone, Faulted' \subseteq {f}, taken <= MaxThreads
        PROVE  Progress(f)'
    <2>1. HandlerType /\ Faulted \subseteq {f} /\ Progress(f)
      BY Zenon, <1>2, <1>3 DEF ReportInv
    <2> QED
      BY Zenon, <2>1, ListProgress, AskProgress, AwaitProgress, AnswerProgress DEF HandlerStep
  <1>4. taken' = taken
    BY Zenon DEF local
  <1> QED
    BY Zenon, <1>1, <1>3, <1>4 DEF ReportInv

(* A worker that has its own number never meets the FATAL. *)
LEMMA RequestKeepsReport ==
  ASSUME WorkersInv, ReportInv, NEW t \in Thread, HandleRequest(t)
  PROVE  ReportInv'
  <1>1. /\ thread_ids_' = thread_ids_ /\ taken' = taken
        /\ loop[t] = "tasks" /\ life[t] # "ended"
    BY Zenon DEF HandleRequest, registry, local, Runs
  <1>2. CASE taken <= MaxThreads
    <2>1. local_key_[t] \in DOMAIN storageArr /\ storageArr[local_key_[t]] = Instance(t)
      BY <1>1, <1>2, MaxThreadsAssumption
      DEF WorkersInv, WorkersType, LocalType, SlotsHandedOut, NumbersStored
    <2>2. ME(t) = {Instance(t)}
      BY <2>1 DEF ME, getVal
    <2>3. Instance(t) \in Number
      BY ThreadAssumption, StatsAssumption DEF Instance, Number
    <2>4. UNCHANGED handler
      BY Zenon, <2>2, <2>3 DEF HandleRequest, Finish
    <2> QED
      BY Zenon, <1>1, <2>4, ThreadsKeepReport DEF ReportInv, HandlerType
  <1>3. CASE ~(taken <= MaxThreads)
    <2>1. /\ sem' = sem /\ fatal' = fatal /\ dump' = dump /\ tids' = tids /\ asked' = asked
          /\ traces' = traces /\ usr1' = usr1
      BY Zenon DEF HandleRequest, Finish, handler
    <2> QED
      BY Zenon, <1>1, <1>3, <2>1 DEF ReportInv, HandlerType
  <1> QED
    BY Zenon, <1>2, <1>3

LEMMA NextReport == WorkersInv /\ ReportInv /\ [Next]_vars => ReportInv'
  <1> SUFFICES ASSUME WorkersInv, ReportInv, [Next]_vars
               PROVE  ReportInv'
    OBVIOUS
  <1>1. ASSUME UNCHANGED <<handler, thread_ids_, taken>>
        PROVE  ReportInv'
    BY Zenon, <1>1, ThreadsKeepReport DEF ReportInv, HandlerType
  <1>2. CASE UNCHANGED vars
    BY Zenon, <1>1, <1>2 DEF vars, registry, local
  <1>3. ASSUME NEW t \in Thread, NewWorker(t) \/ SetNumber(t)
        PROVE  ReportInv'
    BY Zenon, <1>1, <1>3
    DEF NewWorker, makeThread, SetNumber, setVal, Store, registry, local
  <1>4. ASSUME NEW t \in Thread, HandleStats(t) \/ Stats(t)
        PROVE  ReportInv'
    BY Zenon, <1>1, <1>4 DEF HandleStats, Stats, registry, local
  <1>5. ASSUME NEW t \in Thread, End(t)
        PROVE  ReportInv'
    BY Zenon, <1>1, <1>5 DEF End, ThreadEnds, destroyLocalKey, Store, local
  <1>6. CASE TimePasses
    BY Zenon, <1>1, <1>6 DEF TimePasses, registry, local
  <1>7. ASSUME NEW t \in Thread, Register(t) \/ LeaveLoop(t)
        PROVE  ReportInv'
    <2>1. thread_ids_' \subseteq Thread
      BY <1>7 DEF Register, LeaveLoop, registerThread, unregisterThread, ReportInv, HandlerType
    <2>2. UNCHANGED <<handler, taken>>
      BY Zenon, <1>7 DEF Register, LeaveLoop, registerThread, unregisterThread, local
    <2> QED
      BY Zenon, <2>1, <2>2, ThreadsKeepReport
  <1>8. ASSUME NEW t \in Thread, TakeSlot(t)
        PROVE  ReportInv'
    <2>1. (taken' = taken \/ taken' = taken + 1) /\ thread_ids_' = thread_ids_
      BY Zenon, <1>8 DEF TakeSlot, getLocalState, local, registry
    <2>2. (taken' <= MaxThreads) => (taken <= MaxThreads)
      BY <2>1, MaxThreadsAssumption DEF WorkersInv, WorkersType, LocalType
    <2> QED
      BY Zenon, <1>8, <2>1, <2>2, ThreadsKeepReport DEF TakeSlot, ReportInv, HandlerType
  <1>9. ASSUME NEW t \in Anyone, Handle(t)
        PROVE  ReportInv'
    BY Zenon, <1>9, HandlerKeepsReport DEF Handle
  <1> QED
    BY Zenon, <1>2, <1>3, <1>4, <1>5, <1>6, <1>7, <1>8, <1>9, CrashKeepsReport,
       RequestKeepsReport DEF Next

(* The stacks are printed one at a time into the static array that no lock *)
(* protects (signal_handler.cpp:34), each once, and the process dies with  *)
(* every stack printed that the handler set out to print: for any threads, *)
(* while one of them has faulted and the slots have not run out.  After    *)
(* that FATAL (request_stats.cpp) may end the process in mid-report.       *)
THEOREM ReportTheorem == Spec => []ReportSound
  <1>1. ASSUME WorkersInv, ReportInv
        PROVE  ReportSound
    <2> SUFFICES ASSUME taken <= MaxThreads, NEW t \in Anyone, Faulted = {t}
                 PROVE  /\ Cardinality(Printing) <= 1
                        /\ \A u \in Anyone : traces[u] <= 1
                        /\ dead => \A u \in asked[t] \cup {t} : traces[u] = 1
      BY Zenon DEF ReportSound
    <2>1. HandlerType /\ Progress(t) /\ fatal[t] \in FatalPlace
      BY <1>1 DEF ReportInv, HandlerType
    <2>2. \E S \in SUBSET Anyone : Printed(S)
      <3>1. CASE fatal[t] # "wait"
        BY <2>1, <3>1 DEF Progress, FatalPlace, HandlerType, Anyone
      <3>2. CASE fatal[t] = "wait"
        BY Zenon, <2>1, <3>2 DEF Progress, WaitsFor, HandlerType, Anyone
      <3> QED
        BY Zenon, <3>1, <3>2
    <2>3. \A u \in Anyone : traces[u] <= 1
      BY <2>2 DEF Printed
    <2>4. ASSUME dead, NEW u \in asked[t] \cup {t}
          PROVE  traces[u] = 1
      BY <2>1, <2>4 DEF Progress, Printed, HandlerType, Anyone
    <2>5. \E u \in Anyone : Printing \subseteq {u}
      <3>1. \A v \in Anyone : (fatal[v] = "print") => (v = t)
        BY DEF Faulted
      <3>2. CASE fatal[t] # "wait"
        <4>1. \A v \in Anyone : dump[v] = "no"
          BY <2>1, <3>2 DEF Progress, FatalPlace, NobodyAsked
        <4> QED
          BY Zenon, <3>1, <4>1 DEF Printing
      <3>3. CASE fatal[t] = "wait"
        <4>1. PICK u \in asked[t] \ tids[t] : WaitsFor(t, u)
          BY Zenon, <2>1, <3>3 DEF Progress
        <4>2. u \in Anyone /\ \A v \in Anyone : (v # u) => (dump[v] = "no")
          BY Zenon, <2>1, <4>1 DEF WaitsFor, HandlerType, Anyone
        <4>3. \A v \in Anyone : fatal[v] # "print"
          BY Zenon, <3>1, <3>3
        <4>4. Printing \subseteq {u}
          BY <4>2, <4>3 DEF Printing
        <4> QED
          BY Zenon, <4>2, <4>4
      <3> QED
        BY Zenon, <3>2, <3>3
    <2>6. Cardinality(Printing) <= 1
      <3>1. PICK u \in Anyone : Printing \subseteq {u}
        BY Zenon, <2>5
      <3>2. IsFiniteSet({u}) /\ Cardinality({u}) = 1
        BY Zenon, FS_Singleton
      <3>3. Cardinality(Printing) <= Cardinality({u})
        BY Zenon, <3>1, <3>2, FS_Subset
      <3> QED
        BY Zenon, <3>2, <3>3
    <2> QED
      BY Zenon, <2>3, <2>4, <2>6
  <1> QED
    BY <1>1, InitReport, NextReport, WorkersTheorem, PTL DEF Spec
=============================================================================
