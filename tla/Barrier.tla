------------------------------- MODULE Barrier -------------------------------
(***************************************************************************)
(* Barrier of thread_barrier.hpp: two semaphores that pass one token, and  *)
(* a counter that only the holder of the token touches.  Threads call      *)
(* wait() again and again; there may be more of them than participants.    *)
(***************************************************************************)
EXTENDS Naturals, FiniteSets

CONSTANTS
    Caller,
    num_participants_

ASSUME ParticipantsAssumption == num_participants_ \in Nat \ {0}

VARIABLES
    arrival_, departure_,  \* the values of the semaphores
    counter_,
    place,                 \* where each thread is in wait()
    users,                 \* the threads that use it, enough to fill a batch
    arrived                \* arrivals counted since the last batch left (history)

barrierVars == <<arrival_, departure_, counter_, place, users, arrived>>

BarrierInit ==
    /\ arrival_ = 1
    /\ departure_ = 0
    /\ counter_ = 0
    /\ place = [t \in Caller |-> "out"]
    /\ users \in {U \in SUBSET Caller : Cardinality(U) >= num_participants_}
    /\ arrived = 0

Advance(t, from, to) ==
    /\ place[t] = from
    /\ place' = [place EXCEPT ![t] = to]
    /\ UNCHANGED users

(* wait() is called, and stands before sem_wait(arrival_). *)
CallWait(t) ==
    /\ t \in users
    /\ Advance(t, "out", "calling")
    /\ UNCHANGED <<arrival_, departure_, counter_, arrived>>

WaitArrival(t) ==
    /\ Advance(t, "calling", "arriving")
    /\ arrival_ > 0
    /\ arrival_' = arrival_ - 1
    /\ UNCHANGED <<departure_, counter_, arrived>>

CountIn(t) ==
    /\ Advance(t, "arriving", "counted")
    /\ counter_' = counter_ + 1
    /\ arrived' = arrived + 1
    /\ UNCHANGED <<arrival_, departure_>>

(* Mutant: off by one in the test for the last to arrive. *)
PostArrivalEarly(t) ==
    /\ Advance(t, "counted", "inside")
    /\ IF counter_ < num_participants_ - 1
         THEN arrival_' = arrival_ + 1 /\ UNCHANGED departure_
         ELSE departure_' = departure_ + 1 /\ UNCHANGED arrival_
    /\ UNCHANGED <<counter_, arrived>>

(* The last to arrive opens the departure, any other the arrival. *)
PostArrival(t) ==
    /\ Advance(t, "counted", "inside")
    /\ IF counter_ < num_participants_
         THEN arrival_' = arrival_ + 1 /\ UNCHANGED departure_
         ELSE departure_' = departure_ + 1 /\ UNCHANGED arrival_
    /\ UNCHANGED <<counter_, arrived>>

WaitDeparture(t) ==
    /\ Advance(t, "inside", "departing")
    /\ departure_ > 0
    /\ departure_' = departure_ - 1
    /\ UNCHANGED <<arrival_, counter_, arrived>>

(* Mutant: the first to depart resets the counter. *)
CountOutResets(t) ==
    /\ Advance(t, "departing", "uncounted")
    /\ counter_' = 0
    /\ arrived' = 0
    /\ UNCHANGED <<arrival_, departure_>>

CountOut(t) ==
    /\ Advance(t, "departing", "uncounted")
    /\ counter_' = counter_ - 1
    /\ arrived' = IF counter_ = 1 THEN 0 ELSE arrived
    /\ UNCHANGED <<arrival_, departure_>>

(* The last to depart opens the arrival again. *)
PostDeparture(t) ==
    /\ Advance(t, "uncounted", "out")
    /\ IF counter_ > 0
         THEN departure_' = departure_ + 1 /\ UNCHANGED arrival_
         ELSE arrival_' = arrival_ + 1 /\ UNCHANGED departure_
    /\ UNCHANGED <<counter_, arrived>>

wait(t) ==
    \/ CallWait(t) \/ WaitArrival(t) \/ CountIn(t) \/ PostArrival(t)
    \/ WaitDeparture(t) \/ CountOut(t) \/ PostDeparture(t)

BarrierNext == \E t \in Caller : wait(t)

BarrierSpec == BarrierInit /\ [][BarrierNext]_barrierVars

(* Threads are scheduled, and every user keeps calling wait().  A semaphore *)
(* that is posted lets one of the waiting threads in, no matter which.      *)
FairBarrierSpec == BarrierSpec /\ \A t \in Caller : WF_barrierVars(wait(t))
-----------------------------------------------------------------------------
(* Properties *)

PlaceType == {"out", "calling", "arriving", "counted", "inside", "departing", "uncounted"}

BarrierTypeOK ==
    /\ arrival_ \in Nat
    /\ departure_ \in Nat
    /\ counter_ \in Nat
    /\ place \in [Caller -> PlaceType]
    /\ users \subseteq Caller
    /\ arrived \in Nat

(* The threads that may touch counter_. *)
HasToken(t) == place[t] \in {"arriving", "counted", "departing", "uncounted"}

(* The semaphores pass one token: "protects counter_ in the arrival phase" *)
(* and "in the departure phase" (thread_barrier.hpp:86-87).  The token is  *)
(* with one thread or in one semaphore, so counter_ has no data race.      *)
OneToken ==
    /\ \A t, u \in Caller : (HasToken(t) /\ HasToken(u)) => (t = u)
    /\ (\E t \in Caller : HasToken(t)) => (arrival_ = 0 /\ departure_ = 0)
    /\ ~(\E t \in Caller : HasToken(t)) => (arrival_ + departure_ = 1)

(* "wait() must be called that many times" (thread_barrier.hpp:88): a      *)
(* thread departs only after num_participants_ have arrived, and none      *)
(* arrives while others depart: a fast thread that calls wait() again      *)
(* cannot join the batch it just left.                                     *)
FullBatchDeparts ==
    /\ (\E t \in Caller : place[t] = "departing") => (arrived = num_participants_)
    /\ (departure_ > 0) => (arrived = num_participants_)
    /\ (\E t \in Caller : place[t] = "arriving") => (arrived < num_participants_)

(* The counter is the number of threads between their two counts. *)
CounterCounts ==
    counter_ = Cardinality({t \in Caller : place[t] \in {"counted", "inside", "departing"}})

(* The barrier implements the abstract one. *)
Abstract == INSTANCE AbstractBarrier WITH
    Thread <- Caller,
    N <- num_participants_,
    waiting <- {t \in Caller : place[t] \in {"counted", "inside", "departing"}},
    open <- (arrived = num_participants_)
ImplementsBarrier == Abstract!Spec

(* As long as the users keep calling wait(), a thread that                 *)
(* sem_wait(arrival_) has let in leaves, and those that come round again   *)
(* do not shut it in.  One that is still before that sem_wait leaves as    *)
(* well if there are as many users as participants; with more users it may *)
(* be passed over each time, and nothing is claimed.                       *)
EveryoneLeaves ==
    \A t \in Caller :
      (/\ place[t] # "out"
       /\ (place[t] = "calling") => (Cardinality(users) = num_participants_))
        ~> (place[t] = "out")
=============================================================================
