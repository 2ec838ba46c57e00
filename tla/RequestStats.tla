---------------------------- MODULE RequestStats ----------------------------
(***************************************************************************)
(* request_stats.cpp: requests per second over a rolling window, kept by   *)
(* each worker in a ring of slots of its own and summed up by whichever    *)
(* worker is asked for the statistics, without a lock.                     *)
(*                                                                         *)
(* The fields are plain integers: a worker's stores may reach the reader   *)
(* in any order, and the reader's loads are one by one.                    *)
(***************************************************************************)
EXTENDS Threads

CONSTANTS
    NumWorkers,     \* num_threads_
    NumSlots,       \* kNumSlots
    TicksPerSecond  \* ticksPerSecond(), without its fraction: ticks are compared with it

ASSUME StatsAssumption ==
    /\ NumWorkers \in Nat \ {0}
    /\ NumSlots \in Nat \ {0, 1}
    /\ TicksPerSecond \in Nat
    /\ TicksPerSecond >= NumSlots

(* kTicksPerSlot.  What the division leaves is missing from the ring. *)
TicksPerSlot == TicksPerSecond \div NumSlots
TicksPerRing == NumSlots * TicksPerSlot

VARIABLES
    now,       \* the clock, the same for every processor
    counts_,   \* of every worker number
    task,      \* what a thread is doing with the statistics
    served,    \* <<thread number, tick, serial>> of finished requests (history)
    result     \* <<what getStats said, least, most it should say>> (history)

stats == <<now, counts_, task, served, result>>

Number == 0..(NumWorkers - 1)
Slot == 0..(NumSlots - 1)

Idle == [at |-> "idle"]

StatsInit ==
    /\ now = 0
    /\ counts_ = [n \in Number |->
                    [base_pos |-> 0, base_tick |-> 0, val |-> [i \in Slot |-> 0]]]
    /\ task = [t \in Thread |-> Idle]
    /\ served = {}
    /\ result = <<0, 0, 0>>

Tick == now' = now + 1 /\ UNCHANGED <<counts_, task, served, result>>

incPos(p) == (p + 1) % NumSlots
posForTick(t) == (t \div TicksPerSlot) % NumSlots
roundTick(t) == t - (t % TicksPerSlot)

(* The slots from the one after p round to q: incPos until it is q. *)
SlotsUpTo(p, q) == {i \in Slot : (i - p - 1) % NumSlots <= (q - p - 1) % NumSlots}

-----------------------------------------------------------------------------
(* finishedRequest *)

(* Mutant: only the new slot is zeroed. *)
StaleSlotsOne(c, tick) == {posForTick(tick)}

(* The slots that a request at this tick zeroes. *)
StaleSlots(c, tick) ==
    IF c.base_tick + TicksPerSecond < tick
      THEN Slot
      ELSE SlotsUpTo(c.base_pos, posForTick(tick))

(* The stores it makes before it counts the request. *)
Stores(c, tick) ==
    IF tick > c.base_tick + TicksPerSlot
      THEN [zero: StaleSlots(c, tick)] \cup
           {[base_pos |-> posForTick(tick)], [base_tick |-> roundTick(tick)]}
      ELSE {}

(* A thread that is reading sees that the counts of n may change. *)
Disturbed(w, n) ==
    IF w.at \in {"visit", "add", "test"} THEN [w EXCEPT !.quiet = @ \ {n}] ELSE w

(* FATAL for a wrong number is the end of the process: see Workers. *)
finishedRequest(t, n, tick) ==
    /\ task' = [u \in Thread |->
                 IF u = t
                   THEN [at |-> "store", n |-> n, tick |-> tick,
                         todo |-> Stores(counts_[n], tick)]
                   ELSE Disturbed(task[u], n)]
    /\ UNCHANGED <<now, counts_, served, result>>

Apply(c, s) ==
    CASE "zero" \in DOMAIN s -> [c EXCEPT !.val[s.zero] = 0]
      [] "base_pos" \in DOMAIN s -> [c EXCEPT !.base_pos = s.base_pos]
      [] "base_tick" \in DOMAIN s -> [c EXCEPT !.base_tick = s.base_tick]

StoreCount(t) ==
    /\ task[t].at = "store"
    /\ \E s \in task[t].todo :
         /\ counts_' = [counts_ EXCEPT ![task[t].n] = Apply(@, s)]
         /\ task' = [task EXCEPT ![t].todo = @ \ {s}]
    /\ UNCHANGED <<now, served, result>>

IncrementCount(t) ==
    /\ task[t].at = "store"
    /\ task[t].todo = {}
    /\ counts_' = [counts_ EXCEPT ![task[t].n].val[counts_[task[t].n].base_pos] = @ + 1]
    /\ served' = served \cup {<<task[t].n, task[t].tick, Cardinality(served)>>}
    /\ task' = [task EXCEPT ![t] = Idle]
    /\ UNCHANGED <<now, result>>

-----------------------------------------------------------------------------
(* getStats.  quiet, kept for the properties, holds the numbers whose      *)
(* counts no worker was changing at any time since the call.               *)

Writing == {task[u].n : u \in {v \in Thread : task[v].at = "store"}}

getStats(t, tick) ==
    /\ task' = [task EXCEPT ![t] = [at |-> "visit", tick |-> tick, i |-> 0, pos |-> 0,
                                    acc |-> 0, quiet |-> Number \ Writing]]
    /\ UNCHANGED <<now, counts_, served, result>>

(* now - counts.base_tick is unsigned: a later base_tick is far away too. *)
Expired(c, tick) == c.base_tick > tick \/ tick - c.base_tick > TicksPerSecond

VisitThread(t) ==
    /\ task[t].at = "visit"
    /\ task[t].i \in Number
    /\ task' = [task EXCEPT ![t] =
         IF Expired(counts_[task[t].i], task[t].tick)
           THEN [task[t] EXCEPT !.i = @ + 1]
           ELSE [task[t] EXCEPT !.at = "add", !.pos = incPos(posForTick(task[t].tick))]]
    /\ UNCHANGED <<now, counts_, served, result>>

AddSlot(t) ==
    /\ task[t].at = "add"
    /\ task' = [task EXCEPT ![t] = [task[t] EXCEPT !.at = "test",
                                      !.acc = @ + counts_[task[t].i].val[task[t].pos]]]
    /\ UNCHANGED <<now, counts_, served, result>>

(* while (curr_pos != counts.base_pos): the field is read again. *)
TestSlot(t) ==
    /\ task[t].at = "test"
    /\ task' = [task EXCEPT ![t] =
         IF task[t].pos = counts_[task[t].i].base_pos
           THEN [task[t] EXCEPT !.at = "visit", !.i = @ + 1]
           ELSE [task[t] EXCEPT !.at = "add", !.pos = incPos(@)]]
    /\ UNCHANGED <<now, counts_, served, result>>

(* Requests of worker numbers N that were finished after one tick and not  *)
(* after another.                                                          *)
Finished(N, after, upto) ==
    Cardinality({r \in served : r[1] \in N /\ r[2] > after /\ r[2] <= upto})

(* When the ring has gone round since a worker's last slot began, but the  *)
(* second is not over, which is at the tick that is a second after it and  *)
(* at as many before as the division left, the loop above visits all slots *)
(* and goes back to the second before.                                     *)
Horizon(tick) ==
    IF \E n \in Number : tick - counts_[n].base_tick \in TicksPerRing..TicksPerSecond
      THEN tick - 2 * TicksPerSecond
      ELSE tick - TicksPerSecond

(* The least and the most that the window allows. *)
ReturnStats(t) ==
    /\ task[t].at = "visit"
    /\ task[t].i = NumWorkers
    /\ result' = <<task[t].acc,
                   Finished(task[t].quiet, task[t].tick - TicksPerRing + TicksPerSlot,
                            task[t].tick),
                   IF task[t].quiet = Number
                     THEN Finished(Number, Horizon(task[t].tick), now)
                     ELSE task[t].acc>>
    /\ task' = [task EXCEPT ![t] = Idle]
    /\ UNCHANGED <<now, counts_, served>>

StatsStep(t) ==
    \/ StoreCount(t) \/ IncrementCount(t)
    \/ VisitThread(t) \/ AddSlot(t) \/ TestSlot(t) \/ ReturnStats(t)

-----------------------------------------------------------------------------
(* "the second finishing _roughly_ at the request time is used"            *)
(* (request_stats.hpp:16): getStats counts every request of the last ring  *)
(* but one slot, of the workers that were not recording one meanwhile, and *)
(* if none was, no request that is older than a second (or two, at a few   *)
(* ticks of each: see Horizon).                                            *)
WindowAccurate == result[2] <= result[1] /\ result[1] <= result[3]
=============================================================================
