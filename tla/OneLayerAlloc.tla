---------------------------- MODULE OneLayerAlloc ----------------------------
(***************************************************************************)
(* The one-layer allocator, myAlloc_1Layer/MyMalloc.cpp: malloc, free and  *)
(* realloc called by threads that share one heap.                          *)
(*                                                                         *)
(* A step is the critical section of _m, or what a thread does before or   *)
(* after it.  Boundary tags and sizes are in bytes, as in the code; only   *)
(* the number of size classes is a parameter (the code has 65).  A block   *)
(* is named by the address of its header, and the break starts at 0.       *)
(* Programs are valid: they free and realloc what they own, once, and ask  *)
(* for sizes whose rounding does not overflow size_t.                      *)
(***************************************************************************)
EXTENDS DualLnkList

CONSTANTS
    Thread,
    Early,       \* threads that run before the first malloc has returned
    NumClasses,  \* NUMOFSIZECLASSES
    Request,     \* the sizes asked for
    HeapBound    \* malloc and realloc are not called with the heap beyond this

ASSUME NumClassesAssumption == NumClasses \in Nat \ {0}
ASSUME RequestAssumption == Request \subseteq Nat \ {0}
ASSUME EarlyAssumption == Early \subseteq Thread
ASSUME HeapBoundAssumption == HeapBound \in Nat

VARIABLES
    _initialized,
    initpos,     \* the next list that initialize() empties
    ls,          \* the free lists, by class: freels_ and the links
    head,        \* the tag at the start of each block: [size, flags]
    foot,        \* the tag at the end of each block, by its own address
    _heapSize,   \* memory taken from the OS, also the program break
    live,        \* blocks that user code owns, with the size it asked for
    pc,          \* where each thread is
    req,         \* the size argument of its call
    total,       \* its totalSize
    mem,         \* the block that it works on
    old,         \* the ptr argument of its realloc
    report       \* what the exit handler printed, and whether its asserts held

lists == <<_initialized, initpos, ls>>
tags == <<head, foot>>
call == <<pc, req, total, mem, old>>
vars == <<_initialized, initpos, ls, head, foot, _heapSize, live,
          pc, req, total, mem, old, report>>

Unit == 8
LastClass == NumClasses - 1
NoReport == [equal |-> "none"]

Init ==
    /\ _initialized = FALSE
    /\ initpos = 0
    /\ ls = NoLists(LastClass)
    /\ head = <<>>
    /\ foot = <<>>
    /\ _heapSize = 0
    /\ live = <<>>
    /\ pc = [t \in Thread |-> "idle"]
    /\ req = [t \in Thread |-> 0]
    /\ total = [t \in Thread |-> 0]
    /\ mem = [t \in Thread |-> NULL]
    /\ old = [t \in Thread |-> NULL]
    /\ report = NoReport

Tag(size, flags) == [size |-> size, flags |-> flags]

(* Writes both tags of the block at a. *)
WriteTags(a, tag) ==
    /\ head' = Put(head, a, tag)
    /\ foot' = Put(foot, a + tag.size - HeaderSize, tag)

(* The header sizes as the list operations read them. *)
HeadSize == [a \in DOMAIN head |-> head[a].size]

-----------------------------------------------------------------------------
(* Entering malloc and realloc *)

(* A thread is created by one that has returned from malloc, unless Early. *)
Exists(t) == t \in Early \/ (_initialized /\ \A u \in Thread : pc[u] # "init")

(* The check at the start of allocateObject.  The compare-and-swap sets    *)
(* _initialized before initialize() has run.                               *)
EnterAllocateObject(t, size, ptr) ==
    /\ pc[t] = "idle"
    /\ Exists(t)
    /\ _heapSize <= HeapBound
    /\ req' = [req EXCEPT ![t] = size]
    /\ total' = [total EXCEPT ![t] = TotalSize(size, Unit)]
    /\ old' = [old EXCEPT ![t] = ptr]
    /\ pc' = [pc EXCEPT ![t] = IF _initialized THEN "lock" ELSE "init"]
    /\ _initialized' = TRUE
    /\ UNCHANGED <<initpos, ls, tags, _heapSize, mem>>

Malloc(t, size) ==
    /\ EnterAllocateObject(t, size, NULL)
    /\ UNCHANGED live

Realloc(t, a, size) ==
    /\ a \in DOMAIN live
    /\ EnterAllocateObject(t, size, a)
    /\ live' = [b \in DOMAIN live \ {a} |-> live[b]]

(* One turn of the loop of initialize(), which holds no lock. *)
Initialize(t) ==
    /\ pc[t] = "init"
    /\ ls' = [ls EXCEPT !.freels_[initpos] = NULL]
    /\ initpos' = initpos + 1
    /\ pc' = [pc EXCEPT ![t] = IF initpos = LastClass THEN "lock" ELSE "init"]
    /\ UNCHANGED <<_initialized, tags, _heapSize, live, req, total, mem, old>>

-----------------------------------------------------------------------------
(* allocateObject, inside _m *)

ChoiceOf(t) == Choice(Lists(ls), HeadSize, total[t], Unit, LastClass)
Chosen(t) == Lists(ls)[ChoiceOf(t).pos][ChoiceOf(t).at]

(* Mutant: the block is not removed from its list. *)
ListsWithChosen(t) == ls

ListsWithoutChosen(t) == rmFromFreeLsLinks(ls, ChoiceOf(t).pos, Chosen(t))

Take(t, a, size) ==
    /\ mem' = [mem EXCEPT ![t] = a]
    /\ total' = [total EXCEPT ![t] = size]
    /\ pc' = [pc EXCEPT ![t] = "tag"]

getMemoryFromOS(t) ==
    /\ pc[t] = "lock"
    /\ ChoiceOf(t).at = 0
    /\ Take(t, _heapSize, total[t])
    /\ _heapSize' = _heapSize + total[t]
    /\ UNCHANGED <<lists, tags, live, req, old>>

(* The block is given as it is: its size replaces a smaller totalSize. *)
TakeWhole(t) ==
    /\ pc[t] = "lock"
    /\ ChoiceOf(t).at # 0
    /\ ~Splits(ChoiceOf(t), head[Chosen(t)].size, total[t])
    /\ Take(t, Chosen(t), head[Chosen(t)].size)
    /\ ls' = ListsWithoutChosen(t)
    /\ UNCHANGED <<_initialized, initpos, tags, _heapSize, live, req, old>>

(* The tail of the block becomes a free block of its own. *)
TakeSplit(t) ==
    LET a == Chosen(t)
        rest == a + total[t]
        restSize == head[a].size - total[t]
    IN  /\ pc[t] = "lock"
        /\ ChoiceOf(t).at # 0
        /\ Splits(ChoiceOf(t), head[a].size, total[t])
        /\ WriteTags(rest, Tag(restSize, "free"))
        /\ ls' = insertFreeBlockLinks(ListsWithoutChosen(t), Put(HeadSize, rest, restSize),
                                      rest, Unit, LastClass)
        /\ Take(t, a, total[t])
        /\ UNCHANGED <<_initialized, initpos, _heapSize, live, req, old>>

-----------------------------------------------------------------------------
(* After the unlock *)

(* The tags are written and the block is returned; realloc copies the old  *)
(* block into it and goes on to free the old one.                          *)
SetTags(t) ==
    /\ pc[t] = "tag"
    /\ WriteTags(mem[t], Tag(total[t], "allocated"))
    /\ live' = Put(live, mem[t], req[t])
    /\ req' = [req EXCEPT ![t] = 0]
    /\ IF old[t] = NULL
         THEN /\ pc' = [pc EXCEPT ![t] = "idle"]
              /\ mem' = [mem EXCEPT ![t] = NULL]
              /\ total' = [total EXCEPT ![t] = 0]
              /\ UNCHANGED old
         ELSE /\ pc' = [pc EXCEPT ![t] = "free"]
              /\ mem' = [mem EXCEPT ![t] = old[t]]
              /\ total' = [total EXCEPT ![t] = head[old[t]].size]
              /\ old' = [old EXCEPT ![t] = NULL]
    /\ UNCHANGED <<lists, _heapSize>>

-----------------------------------------------------------------------------
(* free: the size is read before the lock is taken *)

Free(t, a) ==
    /\ pc[t] = "idle"
    /\ Exists(t)
    /\ a \in DOMAIN live
    /\ live' = [b \in DOMAIN live \ {a} |-> live[b]]
    /\ mem' = [mem EXCEPT ![t] = a]
    /\ total' = [total EXCEPT ![t] = head[a].size]
    /\ pc' = [pc EXCEPT ![t] = "free"]
    /\ UNCHANGED <<lists, tags, _heapSize, req, old>>

freeObject(t) ==
    /\ pc[t] = "free"
    /\ IF total[t] < MinTotal
         THEN UNCHANGED <<head, foot, ls>>
         ELSE /\ head' = [head EXCEPT ![mem[t]].flags = "free"]
              /\ foot' = [foot EXCEPT ![mem[t] + total[t] - HeaderSize].flags = "free"]
              /\ ls' = insertFreeBlockLinks(ls, HeadSize, mem[t], Unit, LastClass)
    /\ pc' = [pc EXCEPT ![t] = "idle"]
    /\ mem' = [mem EXCEPT ![t] = NULL]
    /\ total' = [total EXCEPT ![t] = 0]
    /\ UNCHANGED <<_initialized, initpos, _heapSize, live, req, old>>

-----------------------------------------------------------------------------
(* exit() *)

Class == 0..LastClass

(* A block in a list is tagged free at both ends, its tags agree, and its  *)
(* size fits the class.                                                    *)
checkFreeLsConsist(c) ==
    \A a \in Range(Lists(ls)[c]) :
      /\ head[a].flags = "free"
      /\ IF c < LastClass THEN head[a].size = c * Unit ELSE head[a].size >= c * Unit
      /\ a + head[a].size - HeaderSize \in DOMAIN foot
      /\ foot[a + head[a].size - HeaderSize] = head[a]

checkALL == \A c \in Class : checkFreeLsConsist(c) /\ checkDualLnkList(ls, c)

(* The handler takes no lock: with a call in progress it races with it.    *)
atExitHandler ==
    /\ _initialized
    /\ \A t \in Thread : pc[t] = "idle"
    /\ report' = [equal |-> IF _heapSize = sumFreeListSize(Lists(ls), HeadSize)
                              THEN "Y" ELSE "N",
                  asserts |-> checkALL]
    /\ UNCHANGED <<lists, tags, _heapSize, live, call>>

-----------------------------------------------------------------------------
AllocateObject(t) == getMemoryFromOS(t) \/ TakeWhole(t) \/ TakeSplit(t)

Step(t) ==
    \/ \E size \in Request : Malloc(t, size)
    \/ \E size \in Request, a \in DOMAIN live : Realloc(t, a, size)
    \/ Initialize(t)
    \/ AllocateObject(t)
    \/ SetTags(t)
    \/ \E a \in DOMAIN live : Free(t, a)
    \/ freeObject(t)

Next ==
    /\ report = NoReport
    /\ \/ \E t \in Thread : Step(t) /\ UNCHANGED report
       \/ atExitHandler

Spec == Init /\ [][Next]_vars
-----------------------------------------------------------------------------
(* Properties *)

(* The blocks in the free lists, and the blocks that user code or a call   *)
(* in progress holds.                                                      *)
FreeBlocks == UNION {Range(Lists(ls)[c]) : c \in Class}
HeldBlocks == DOMAIN live \cup {mem[t] : t \in Thread} \cup {old[t] : t \in Thread}
Blocks == (FreeBlocks \cup HeldBlocks) \ {NULL}

(* A block on its way out of allocateObject has its size in totalSize. *)
SizeOf(a) ==
    IF \E t \in Thread : pc[t] = "tag" /\ mem[t] = a
      THEN total[CHOOSE t \in Thread : pc[t] = "tag" /\ mem[t] = a]
      ELSE head[a].size

(* A block is at one position of one free list, or owned by user code, or  *)
(* in the hands of one call, never two of these; and two blocks never      *)
(* overlap nor leave the memory taken from the OS: the same memory is not  *)
(* given out twice.                                                        *)
OneOwner ==
    /\ LET fl == Lists(ls) IN
         \A c, d \in Class : \A i \in 1..Len(fl[c]), j \in 1..Len(fl[d]) :
           (fl[c][i] = fl[d][j]) => (c = d /\ i = j)
    /\ FreeBlocks \cap HeldBlocks = {}
    /\ \A t \in Thread : {mem[t], old[t]} \cap DOMAIN live = {}
    /\ \A t, u \in Thread :
         /\ (mem[t] = mem[u] /\ mem[t] # NULL) => (t = u)
         /\ (old[t] = old[u] /\ old[t] # NULL) => (t = u)
         /\ (mem[t] = old[u]) => (mem[t] = NULL)
    /\ \A a \in Blocks :
         /\ a + SizeOf(a) <= _heapSize
         /\ \A b \in Blocks : (a < b) => (a + SizeOf(a) <= b)

(* "Here you will return the object to the free list" (MyMalloc.cpp:127):  *)
(* the blocks cover the heap without a gap, so no byte taken from the OS   *)
(* is ever lost.                                                           *)
NothingLost ==
    /\ (_heapSize > 0) => (0 \in Blocks)
    /\ \A a \in Blocks : a + SizeOf(a) \in Blocks \cup {_heapSize}

(* The asserts of checkALL hold at all times, not only at exit, and a      *)
(* block in user hands is as large as was asked for with its two tags,     *)
(* aligned, and keeps its tags until it is freed: a header or footer write *)
(* made outside the lock never lands in the block of another.  At exit,    *)
(* the report says that the heap is all in the free lists                  *)
(* (MyMalloc.cpp:167) exactly if the program has freed all.                *)
TagsIntact ==
    /\ checkALL
    /\ \A a \in DOMAIN live :
         /\ live[a] + 2 * HeaderSize <= head[a].size
         /\ a % Unit = 0
         /\ head[a].flags = "allocated"
         /\ a + head[a].size - HeaderSize \in DOMAIN foot
         /\ foot[a + head[a].size - HeaderSize] = head[a]
    /\ (report # NoReport) => (report.asserts /\ (report.equal = "Y" <=> live = <<>>))

(* Every insertion and removal that the pointers make is the one of the    *)
(* sequences of FreeLists, on which the two-layer allocator is modelled:   *)
(* the last class stays sorted (MyMalloc.cpp:249), no block is dropped     *)
(* from a list with another, none is met twice.                            *)
RefinesSequence ==
    [][LET fl == Lists(ls)
           sz == [a \in DOMAIN head' |-> head'[a].size]
           after(t) == IF ChoiceOf(t).at = 0 THEN fl
                       ELSE rmFromFreeLs(fl, ChoiceOf(t).pos, ChoiceOf(t).at)
       IN  \/ Lists(ls') = fl
           \/ \E t \in Thread :
                \/ Lists(ls') = after(t)
                \/ \E a \in DOMAIN head' :
                     Lists(ls') \in {insertFreeBlock(fl, sz, a, Unit, LastClass),
                                     insertFreeBlock(after(t), sz, a, Unit, LastClass)}]_vars
=============================================================================
