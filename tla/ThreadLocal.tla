----------------------------- MODULE ThreadLocal -----------------------------
(***************************************************************************)
(* thread_local.hpp, for a ThreadLocal<int>: one slot of storageArr for    *)
(* each thread, handed out by a counter that only grows.                   *)
(*                                                                         *)
(* Nothing compares the counter with MAXNUMOFTHREADS.  What lies behind    *)
(* the array in the object is the counter itself, so that the first slot   *)
(* past the end is curavail_slot_; memory behind the object is not part of *)
(* the model, and reading it gives anything.                               *)
(***************************************************************************)
EXTENDS Threads

CONSTANT MaxThreads   \* MAXNUMOFTHREADS

ASSUME MaxThreadsAssumption == MaxThreads \in Nat \ {0}

VARIABLES
    storageArr,      \* the slots, 0..MaxThreads - 1
    curavail_slot_,  \* the next slot
    local_key_,      \* what pthread keeps for each thread: its slot, or NoSlot
    taken            \* slots handed out so far (history)

local == <<storageArr, curavail_slot_, local_key_, taken>>

NoSlot == -1

LocalInit ==
    /\ storageArr = [i \in 0..(MaxThreads - 1) |-> 0]
    /\ curavail_slot_ = 0
    /\ local_key_ = [t \in Thread |-> NoSlot]
    /\ taken = 0

(* Mutant: curavail_slot_++ without the atomic instruction may be lost. *)
getLocalStateRaces(t) ==
    /\ local_key_' = [local_key_ EXCEPT ![t] = curavail_slot_]
    /\ curavail_slot_' \in {curavail_slot_, curavail_slot_ + 1}
    /\ taken' = taken + 1
    /\ UNCHANGED storageArr

(* The slot of a thread: the next one if it has none yet. *)
getLocalState(t) ==
    IF local_key_[t] = NoSlot
      THEN /\ local_key_' = [local_key_ EXCEPT ![t] = curavail_slot_]
           /\ curavail_slot_' = curavail_slot_ + 1
           /\ taken' = taken + 1
           /\ UNCHANGED storageArr
      ELSE UNCHANGED local

(* *p = val, where p is the address of a slot. *)
Store(slot, val) ==
    /\ storageArr' = [i \in DOMAIN storageArr |-> IF i = slot THEN val ELSE storageArr[i]]
    /\ curavail_slot_' = IF slot = MaxThreads THEN val ELSE curavail_slot_
    /\ UNCHANGED taken

(* The rest of setVal, after getLocalState. *)
setVal(t, val) ==
    /\ Store(local_key_[t], val)
    /\ UNCHANGED local_key_

(* What getVal may return to a thread that has a slot. *)
getVal(t, Anything) ==
    IF local_key_[t] \in DOMAIN storageArr THEN {storageArr[local_key_[t]]}
    ELSE IF local_key_[t] = MaxThreads THEN {curavail_slot_}
    ELSE Anything

(* The destructor of the key, run by pthread when the thread ends. *)
destroyLocalKey(t) ==
    IF local_key_[t] = NoSlot
      THEN UNCHANGED local
      ELSE /\ Store(local_key_[t], 0)
           /\ local_key_' = [local_key_ EXCEPT ![t] = NoSlot]

-----------------------------------------------------------------------------
(* "Each thread accessing a ThreadLocal<T> will have its own instance of   *)
(* T" (thread_local.hpp:10-11): two threads never share a slot, as long as *)
(* the process has not made more than MAXNUMOFTHREADS threads that use it, *)
(* counting the ones that have ended.                                      *)
SlotsExclusive ==
    taken <= MaxThreads =>
      \A t, u \in Thread :
        (local_key_[t] = local_key_[u] /\ local_key_[t] # NoSlot) => (t = u)
=============================================================================
