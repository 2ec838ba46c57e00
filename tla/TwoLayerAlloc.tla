---------------------------- MODULE TwoLayerAlloc ----------------------------
(***************************************************************************)
(* The two-layer allocator of myAlloc_2Layer_lock: thread caches           *)
(* (thread_cache.cpp) in front of a central heap (heap_alloc.cpp), and the *)
(* malloc, free and realloc that choose between them.                      *)
(*                                                                         *)
(* A cache keeps its lock while it asks the central heap for memory, so    *)
(* that lock is a variable; every other critical section is one step.      *)
(* Sizes are in bytes; the page size, the threshold and the numbers of     *)
(* classes are parameters (4096, 16384 and 65 in the code).  A block is    *)
(* named by the address of its header, and the break starts at 0.          *)
(* Programs free and realloc what they own, once.                          *)
(***************************************************************************)
EXTENDS FreeLists

CONSTANTS
    Thread,
    Early,         \* threads that run before the first malloc has returned
    Cache,         \* _thr_caches
    CacheClasses,  \* NUMOFSIZECLASSES of a cache
    CentClasses,   \* NUMOFSIZECLASSES of the central heap
    Page,          \* BASICALLOCSIZE
    Threshold,     \* CENTHEAPALLOCTHRESHOLD
    Reallocs,      \* may the program call realloc?
    Load           \* the programs: which threads run, the cache of each (that is,
                   \* pthread_self() % NUMOFTHREADCACHES), the sizes asked for, and
                   \* the heap beyond which malloc and realloc are not called

ASSUME ClassesAssumption == CacheClasses \in Nat \ {0} /\ CentClasses \in Nat \ {0}
ASSUME SizesAssumption == Page % 8 = 0 /\ Page >= MinTotal /\ Threshold % Page = 0
ASSUME LoadAssumption ==
    \A p \in Load : /\ p.threads \subseteq Thread
                    /\ p.cacheOf \in [Thread -> Cache]
                    /\ p.request \subseteq Nat \ {0}
                    /\ p.heapBound \in Nat

VARIABLES
    _initialized,   \* of the central heap
    _cent_heap,     \* the caches whose pointer to the central heap is set
    cacheInit,      \* _initialized of each cache
    centLists,      \* freels_ of the central heap
    cacheLists,     \* freels_ of each cache
    cacheLock,      \* _m of each cache: the thread inside, or None
    head, foot,     \* the boundary tags, by their addresses
    brk,            \* the program break
    _heapSize,      \* memory taken from the OS, as the allocator counts it
    live,           \* blocks that user code owns, with the size it asked for
    pc, req, old,   \* of each thread: where it is and the arguments of its call
    total,          \* its totalSize in the cache
    ctotal,         \* its totalSize in the central heap
    mem,            \* the block that it works on
    wiped,          \* blocks that were in a list when it was initialized (history)
    load,           \* the program that runs, one of Load
    report          \* what the exit handlers printed, and how their asserts ended

tags == <<head, foot>>
os == <<brk, _heapSize>>
inits == <<_initialized, _cent_heap, cacheInit>>
vars == <<_initialized, _cent_heap, cacheInit, centLists, cacheLists, cacheLock,
          head, foot, brk, _heapSize, live, pc, req, old, total, ctotal, mem, wiped,
          load, report>>

Unit == 8
CacheLast == CacheClasses - 1
CentLast == CentClasses - 1
NULL == -1
None == "none"
NoReport == <<>>
CacheOf == load.cacheOf
Request == UNION {p.request : p \in Load}

Init ==
    /\ _initialized = FALSE
    /\ _cent_heap = {}
    /\ cacheInit = [c \in Cache |-> FALSE]
    /\ centLists = [k \in 0..CentLast |-> <<>>]
    /\ cacheLists = [c \in Cache |-> [k \in 0..CacheLast |-> <<>>]]
    /\ cacheLock = [c \in Cache |-> None]
    /\ head = <<>>
    /\ foot = <<>>
    /\ brk = 0
    /\ _heapSize = 0
    /\ live = <<>>
    /\ pc = [t \in Thread |-> "idle"]
    /\ req = [t \in Thread |-> 0]
    /\ old = [t \in Thread |-> NULL]
    /\ total = [t \in Thread |-> 0]
    /\ ctotal = [t \in Thread |-> 0]
    /\ mem = [t \in Thread |-> NULL]
    /\ wiped = {}
    /\ load \in Load
    /\ report = NoReport

Tag(size, flags) == [size |-> size, flags |-> flags]

WriteTags(a, tag) ==
    /\ head' = Put(head, a, tag)
    /\ foot' = Put(foot, a + tag.size - HeaderSize, tag)

(* Mutant: the footer keeps its flag. *)
MarkHeaderFree(a) ==
    /\ head' = [head EXCEPT ![a].flags = "free"]
    /\ UNCHANGED foot

(* freeObject changes the flags alone. *)
MarkFree(a) ==
    /\ head' = [head EXCEPT ![a].flags = "free"]
    /\ foot' = [foot EXCEPT ![a + head[a].size - HeaderSize].flags = "free"]

HeadSize == [a \in DOMAIN head |-> head[a].size]
objectSize(a) == head[a].size - 2 * HeaderSize
Goto(t, label) == pc' = [pc EXCEPT ![t] = label] /\ UNCHANGED load

(* The locals of a call end with it. *)
Forget(t) ==
    /\ req' = [req EXCEPT ![t] = 0]
    /\ total' = [total EXCEPT ![t] = 0]
    /\ ctotal' = [ctotal EXCEPT ![t] = 0]
BlocksIn(lists) == UNION {Range(lists[k]) : k \in DOMAIN lists}

(* The lists of a cache, in granules of 8 bytes, and of the central heap,  *)
(* in pages; sz gives the sizes in the headers.                            *)
CacheInsert(lists, sz, a) == insertFreeBlock(lists, sz, a, Unit, CacheLast)
CacheRemove(lists, choice) == rmFromFreeLs(lists, choice.pos, choice.at)
CentInsert(lists, sz, a) == insertFreeBlock(lists, sz, a, Page, CentLast)
CentRemove(lists, choice) == rmFromFreeLs(lists, choice.pos, choice.at)

-----------------------------------------------------------------------------
(* malloc and realloc: assignMalloc *)

Route(size) == IF size > Threshold THEN "central" ELSE "cache"

(* A thread is created by one that has returned from malloc, unless Early. *)
Exists(t) ==
    /\ t \in load.threads
    /\ \/ t \in Early
       \/ _initialized /\ \A u \in Thread : pc[u] \notin {"reset", "connect"}

EnterMalloc(t, size, ptr) ==
    /\ pc[t] = "idle"
    /\ Exists(t)
    /\ size \in load.request
    /\ brk <= load.heapBound
    /\ req' = [req EXCEPT ![t] = size]
    /\ old' = [old EXCEPT ![t] = ptr]
    /\ Goto(t, IF _initialized THEN Route(size) ELSE "reset")
    /\ _initialized' = TRUE
    /\ UNCHANGED <<_cent_heap, cacheInit, centLists, cacheLists, cacheLock, tags,
                   os, total, ctotal, mem, wiped>>

Malloc(t, size) == EnterMalloc(t, size, NULL) /\ UNCHANGED live

Realloc(t, a, size) ==
    /\ Reallocs
    /\ a \in DOMAIN live
    /\ EnterMalloc(t, size, a)
    /\ live' = Without(live, a)

(* Allocator::initialize, by the thread that won the compare-and-swap:     *)
(* first the lists and the counters, then the pointer of each cache.       *)
ResetCentral(t) ==
    /\ pc[t] = "reset"
    /\ centLists' = [k \in 0..CentLast |-> <<>>]
    /\ wiped' = wiped \cup BlocksIn(centLists)
    /\ _heapSize' = 0
    /\ Goto(t, "connect")
    /\ UNCHANGED <<inits, cacheLists, cacheLock, tags, brk, live, req, old, total,
                   ctotal, mem>>

SetCentralHeap(t) ==
    /\ pc[t] = "connect"
    /\ \E c \in Cache \ _cent_heap : _cent_heap' = _cent_heap \cup {c}
    /\ Goto(t, IF _cent_heap' = Cache THEN Route(req[t]) ELSE "connect")
    /\ UNCHANGED <<_initialized, cacheInit, centLists, cacheLists, cacheLock, tags,
                   os, live, req, old, total, ctotal, mem, wiped>>

-----------------------------------------------------------------------------
(* ThreadCache::allocateObject *)

EnterCache(t) ==
    LET c == CacheOf[t]
    IN  /\ pc[t] = "cache"
        /\ total' = [total EXCEPT ![t] = TotalSize(req[t], Unit)]
        /\ Goto(t, IF cacheInit[c] THEN "cacheLock" ELSE "cacheInit")
        /\ cacheInit' = [cacheInit EXCEPT ![c] = TRUE]
        /\ UNCHANGED <<_initialized, _cent_heap, centLists, cacheLists, cacheLock,
                       tags, os, live, req, old, ctotal, mem, wiped>>

(* ThreadCache::initialize, which holds no lock. *)
CacheInitialize(t) ==
    LET c == CacheOf[t]
    IN  /\ pc[t] = "cacheInit"
        /\ cacheLists' = [cacheLists EXCEPT ![c] = [k \in 0..CacheLast |-> <<>>]]
        /\ wiped' = wiped \cup BlocksIn(cacheLists[c])
        /\ Goto(t, "cacheLock")
        /\ UNCHANGED <<inits, centLists, cacheLock, tags, os, live, req, old, total,
                       ctotal, mem>>

CacheChoice(t) == Choice(cacheLists[CacheOf[t]], HeadSize, total[t], Unit, CacheLast)
CacheChosen(t) == cacheLists[CacheOf[t]][CacheChoice(t).pos][CacheChoice(t).at]
CacheWithoutChosen(t) == CacheRemove(cacheLists[CacheOf[t]], CacheChoice(t))

CacheLocked(t) == pc[t] = "cacheLock" /\ cacheLock[CacheOf[t]] = None

CacheTake(t, a, size, newLists) ==
    /\ cacheLists' = [cacheLists EXCEPT ![CacheOf[t]] = newLists]
    /\ mem' = [mem EXCEPT ![t] = a]
    /\ total' = [total EXCEPT ![t] = size]
    /\ Goto(t, "tag")

CacheTakeWhole(t) ==
    LET real == head[CacheChosen(t)].size
    IN  /\ CacheLocked(t)
        /\ CacheChoice(t).at # 0
        /\ ~Splits(CacheChoice(t), real, total[t])
        /\ CacheTake(t, CacheChosen(t),
                     IF CacheChoice(t).searched \/ real > total[t] THEN real ELSE total[t],
                     CacheWithoutChosen(t))
        /\ UNCHANGED <<inits, centLists, cacheLock, tags, os, live, req, old, ctotal,
                       wiped>>

CacheTakeSplit(t) ==
    LET a == CacheChosen(t)
        rest == a + total[t]
        restSize == head[a].size - total[t]
    IN  /\ CacheLocked(t)
        /\ CacheChoice(t).at # 0
        /\ Splits(CacheChoice(t), head[a].size, total[t])
        /\ WriteTags(rest, Tag(restSize, "free"))
        /\ CacheTake(t, a, total[t],
                     CacheInsert(CacheWithoutChosen(t), Put(HeadSize, rest, restSize), rest))
        /\ UNCHANGED <<inits, centLists, cacheLock, os, live, req, old, ctotal, wiped>>

(* getMemoryFromCentHeap, through a pointer that may not be set yet. *)
CacheMiss(t) ==
    /\ CacheLocked(t)
    /\ CacheChoice(t).at = 0
    /\ cacheLock' = [cacheLock EXCEPT ![CacheOf[t]] = t]
    /\ Goto(t, IF CacheOf[t] \in _cent_heap THEN "refill" ELSE "crashed")
    /\ UNCHANGED <<inits, centLists, cacheLists, tags, os, live, req, old, total,
                   ctotal, mem, wiped>>

(* The central heap has returned: the block keeps its whole size, and the  *)
(* cache is unlocked.                                                      *)
CacheRefilled(t) ==
    /\ pc[t] = "refilled"
    /\ total' = [total EXCEPT ![t] =
                   IF head[mem[t]].size > total[t] THEN head[mem[t]].size ELSE total[t]]
    /\ cacheLock' = [cacheLock EXCEPT ![CacheOf[t]] = None]
    /\ Goto(t, "tag")
    /\ UNCHANGED <<inits, centLists, cacheLists, tags, os, live, req, old, ctotal,
                   mem, wiped>>

-----------------------------------------------------------------------------
(* Allocator::allocateObject: called by assignMalloc ("central") or by a   *)
(* cache ("refill"), which asks for its own totalSize.                     *)

EnterCentral(t) ==
    /\ pc[t] \in {"central", "refill"}
    /\ ctotal' = [ctotal EXCEPT ![t] =
                    TotalSize(IF pc[t] = "central" THEN req[t] ELSE total[t], Page)]
    /\ Goto(t, "centLock")
    /\ UNCHANGED <<inits, centLists, cacheLists, cacheLock, tags, os, live, req, old,
                   total, mem, wiped>>

CentChoice(t) == Choice(centLists, HeadSize, ctotal[t], Page, CentLast)
CentChosen(t) == centLists[CentChoice(t).pos][CentChoice(t).at]
CentWithoutChosen(t) == CentRemove(centLists, CentChoice(t))

CentTake(t, a, size) ==
    /\ mem' = [mem EXCEPT ![t] = a]
    /\ ctotal' = [ctotal EXCEPT ![t] = size]
    /\ Goto(t, "centTag")

getMemoryFromOS(t) ==
    /\ pc[t] = "centLock"
    /\ CentChoice(t).at = 0
    /\ CentTake(t, brk, ctotal[t])
    /\ brk' = brk + ctotal[t]
    /\ _heapSize' = _heapSize + ctotal[t]
    /\ UNCHANGED <<inits, centLists, cacheLists, cacheLock, tags, live, req, old, total,
                   wiped>>

CentTakeWhole(t) ==
    LET real == head[CentChosen(t)].size
    IN  /\ pc[t] = "centLock"
        /\ CentChoice(t).at # 0
        /\ ~Splits(CentChoice(t), real, ctotal[t])
        /\ CentTake(t, CentChosen(t),
                    IF CentChoice(t).searched \/ real > ctotal[t] THEN real ELSE ctotal[t])
        /\ centLists' = CentWithoutChosen(t)
        /\ UNCHANGED <<inits, cacheLists, cacheLock, tags, os, live, req, old, total,
                       wiped>>

(* Mutant: the rest of a block that is cut goes to no list. *)
CentTakeSplitDropsRest(t) ==
    /\ pc[t] = "centLock"
    /\ CentChoice(t).at # 0
    /\ Splits(CentChoice(t), head[CentChosen(t)].size, ctotal[t])
    /\ centLists' = CentWithoutChosen(t)
    /\ CentTake(t, CentChosen(t), ctotal[t])
    /\ UNCHANGED <<inits, cacheLists, cacheLock, tags, os, live, req, old, total, wiped>>

CentTakeSplit(t) ==
    LET a == CentChosen(t)
        rest == a + ctotal[t]
        restSize == head[a].size - ctotal[t]
    IN  /\ pc[t] = "centLock"
        /\ CentChoice(t).at # 0
        /\ Splits(CentChoice(t), head[a].size, ctotal[t])
        /\ WriteTags(rest, Tag(restSize, "free"))
        /\ centLists' = CentInsert(CentWithoutChosen(t), Put(HeadSize, rest, restSize), rest)
        /\ CentTake(t, a, ctotal[t])
        /\ UNCHANGED <<inits, cacheLists, cacheLock, os, live, req, old, total, wiped>>

(* The tags are written after the unlock, and the block is returned to the *)
(* cache or to the program.                                                *)
CentSetTags(t) ==
    /\ pc[t] = "centTag"
    /\ WriteTags(mem[t], Tag(ctotal[t], "allocated"))
    /\ Goto(t, IF cacheLock[CacheOf[t]] = t THEN "refilled" ELSE "return")
    /\ UNCHANGED <<inits, centLists, cacheLists, cacheLock, os, live, req, old, total,
                   ctotal, mem, wiped>>

-----------------------------------------------------------------------------
(* The cache tags its block after the unlock. *)
CacheSetTags(t) ==
    /\ pc[t] = "tag"
    /\ WriteTags(mem[t], Tag(total[t], "allocated"))
    /\ Goto(t, "return")
    /\ UNCHANGED <<inits, centLists, cacheLists, cacheLock, os, live, req, old, total,
                   ctotal, mem, wiped>>

(* malloc returns; realloc copies and frees the old block to the central   *)
(* heap, wherever it came from.                                            *)
Return(t) ==
    /\ pc[t] = "return"
    /\ live' = Put(live, mem[t], req[t])
    /\ mem' = [mem EXCEPT ![t] = old[t]]
    /\ old' = [old EXCEPT ![t] = NULL]
    /\ Forget(t)
    /\ Goto(t, IF old[t] = NULL THEN "idle" ELSE "centFree")
    /\ UNCHANGED <<inits, centLists, cacheLists, cacheLock, tags, os, wiped>>

-----------------------------------------------------------------------------
(* free: the size decides between the central heap and the cache of the    *)
(* thread that frees                                                       *)

Free(t, a) ==
    /\ pc[t] = "idle"
    /\ Exists(t)
    /\ a \in DOMAIN live
    /\ live' = Without(live, a)
    /\ mem' = [mem EXCEPT ![t] = a]
    /\ Goto(t, IF objectSize(a) % Threshold = 0 THEN "centFree" ELSE "cacheFree")
    /\ UNCHANGED <<inits, centLists, cacheLists, cacheLock, tags, os, req, old, total,
                   ctotal, wiped>>

FreeReturns(t) ==
    /\ mem' = [mem EXCEPT ![t] = NULL]
    /\ Goto(t, "idle")
    /\ UNCHANGED <<inits, cacheLock, os, live, req, old, total, ctotal, wiped>>

CentFreeObject(t) ==
    /\ pc[t] = "centFree"
    /\ IF head[mem[t]].size < MinTotal
         THEN UNCHANGED <<head, foot, centLists>>
         ELSE /\ MarkFree(mem[t])
              /\ centLists' = CentInsert(centLists, HeadSize, mem[t])
    /\ FreeReturns(t)
    /\ UNCHANGED cacheLists

(* freeObject of a cache does not check that the cache is initialized. *)
CacheFreeObject(t) ==
    LET c == CacheOf[t]
    IN  /\ pc[t] = "cacheFree"
        /\ cacheLock[c] = None
        /\ IF head[mem[t]].size < MinTotal
             THEN UNCHANGED <<head, foot, cacheLists>>
             ELSE /\ MarkFree(mem[t])
                  /\ cacheLists' = [cacheLists EXCEPT ![c] =
                       CacheInsert(cacheLists[c], HeadSize, mem[t])]
        /\ FreeReturns(t)
        /\ UNCHANGED centLists

-----------------------------------------------------------------------------
(* exit() *)

TaggedAs(a, flags) ==
    /\ head[a].flags = flags
    /\ a + head[a].size - HeaderSize \in DOMAIN foot
    /\ foot[a + head[a].size - HeaderSize] = head[a]

Ascending(s) == \A i \in 1..Len(s) - 1 : head[s[i]].size <= head[s[i + 1]].size

(* checkFreeLsConsist; that the links agree (checkDualLnkList) is shown in *)
(* OneLayerAlloc, for the same code.                                       *)
CacheCheckALL(c) ==
    \A k \in 0..CacheLast :
      /\ \A a \in Range(cacheLists[c][k]) :
           /\ TaggedAs(a, "free")
           /\ IF k < CacheLast THEN head[a].size = k * Unit ELSE head[a].size >= k * Unit
      /\ (k = CacheLast) => Ascending(cacheLists[c][k])

CentCheckALL ==
    \A k \in 0..CentLast :
      /\ \A a \in Range(centLists[k]) :
           /\ TaggedAs(a, "free")
           /\ head[a].size % Page = 0
           /\ IF k < CentLast THEN head[a].size = k * Page ELSE head[a].size >= k * Page
      /\ (k = CentLast) => Ascending(centLists[k])

CacheSum(c) == sumFreeListSize(cacheLists[c], HeadSize)
CentSum == sumFreeListSize(centLists, HeadSize)

(* Mutant: the caches are not counted. *)
SumOfCentral == CentSum

(* The free bytes that print counts: of the central heap, and of the       *)
(* caches that are initialized.                                            *)
SumOfLists == CentSum + FoldSet(LAMBDA c, n : n + CacheSum(c), 0, {c \in Cache : cacheInit[c]})

YesNo(equal) == IF equal THEN "Y" ELSE "N"
CentReport == [equal |-> YesNo(_heapSize = SumOfLists), holds |-> CentCheckALL]

(* The _heapSize that a cache prints is never set and stays 0. *)
CacheReport(c) == [equal |-> YesNo(0 = CacheSum(c)), holds |-> CacheCheckALL(c)]

(* The handler of the central heap, then, unless an assert has ended the   *)
(* program, that of cache 0, which is any one of the caches and is silent  *)
(* before it is initialized.  Neither takes a lock: with a call in         *)
(* progress they race with it.                                             *)
atExitHandlerInC(cache0) ==
    /\ _initialized
    /\ \A t \in Thread : pc[t] = "idle"
    /\ report' = <<CentReport>> \o (IF CentCheckALL /\ cacheInit[cache0]
                                     THEN <<CacheReport(cache0)>> ELSE <<>>)
    /\ UNCHANGED <<inits, centLists, cacheLists, cacheLock, tags, os, live, pc, req, old,
                   total, ctotal, mem, wiped, load>>

-----------------------------------------------------------------------------
Initializes(t) == ResetCentral(t) \/ SetCentralHeap(t) \/ CacheInitialize(t)

CacheAllocates(t) ==
    EnterCache(t) \/ CacheTakeWhole(t) \/ CacheTakeSplit(t) \/ CacheMiss(t)
      \/ CacheRefilled(t) \/ CacheSetTags(t)

CentAllocates(t) ==
    EnterCentral(t) \/ getMemoryFromOS(t) \/ CentTakeWhole(t) \/ CentTakeSplit(t)
      \/ CentSetTags(t)

Step(t) ==
    \/ \E size \in Request : Malloc(t, size)
    \/ \E size \in Request, a \in DOMAIN live : Realloc(t, a, size)
    \/ Initializes(t)
    \/ CacheAllocates(t)
    \/ CentAllocates(t)
    \/ Return(t)
    \/ \E a \in DOMAIN live : Free(t, a)
    \/ CentFreeObject(t)
    \/ CacheFreeObject(t)

Next ==
    /\ report = NoReport
    /\ \/ \E t \in Thread : Step(t) /\ UNCHANGED report
       \/ \E c \in Cache : atExitHandlerInC(c)

Spec == Init /\ [][Next]_vars
-----------------------------------------------------------------------------
(* Properties *)

(* The list positions, <<layer, class, index>>, and the block at each. *)
Positions ==
    UNION {{<<"central", k, i>> : i \in 1..Len(centLists[k])} : k \in 0..CentLast}
      \cup UNION {{<<c, k, i>> : i \in 1..Len(cacheLists[c][k])} :
                  c \in Cache, k \in 0..CacheLast}
BlockAt(p) == IF p[1] = "central" THEN centLists[p[2]][p[3]] ELSE cacheLists[p[1]][p[2]][p[3]]
FreeBlocks == {BlockAt(p) : p \in Positions}
HeldBlocks == DOMAIN live \cup {mem[t] : t \in Thread} \cup {old[t] : t \in Thread}
Blocks == (FreeBlocks \cup HeldBlocks \cup wiped) \ {NULL}

(* A block that is on its way out of a layer has its size in totalSize. *)
SizeOf(a) ==
    IF \E t \in Thread : pc[t] \in {"tag", "centTag"} /\ mem[t] = a
      THEN LET t == CHOOSE t \in Thread : pc[t] \in {"tag", "centTag"} /\ mem[t] = a
           IN  IF pc[t] = "tag" THEN total[t] ELSE ctotal[t]
      ELSE head[a].size

(* A block is at one position of one list of one layer, or owned by user   *)
(* code, or in the hands of one call; blocks never overlap, none leaves    *)
(* the heap, and together they cover it: moving blocks between the central *)
(* heap and the caches, and cutting them in one layer, never gives memory  *)
(* out twice, loses it, or invalidates the sizes the other layer reads.    *)
BlocksTileTheHeap ==
    /\ \A p, q \in Positions : (BlockAt(p) = BlockAt(q)) => (p = q)
    /\ FreeBlocks \cap (HeldBlocks \cup wiped) = {}
    /\ HeldBlocks \cap wiped = {}
    /\ \A t \in Thread : {mem[t], old[t]} \cap DOMAIN live = {}
    /\ \A t, u \in Thread :
         /\ (mem[t] = mem[u] /\ mem[t] # NULL) => (t = u)
         /\ (old[t] = old[u] /\ old[t] # NULL) => (t = u)
         /\ (mem[t] = old[u]) => (mem[t] = NULL)
    /\ (brk > 0) => (0 \in Blocks)
    /\ \A a \in Blocks :
         /\ a + SizeOf(a) \in Blocks \cup {brk}
         /\ a + SizeOf(a) <= brk
         /\ \A b \in Blocks : (a < b) => (a + SizeOf(a) <= b)

(* What allocateObject relies on, in both layers: a block in class k is    *)
(* free, its tags agree, and it is at least k granules long, so a request  *)
(* of class k fits into any block of the class; the last class is sorted.  *)
ListSound(lists, last, unit) ==
    \A k \in 0..last :
      /\ \A a \in Range(lists[k]) : TaggedAs(a, "free") /\ head[a].size >= k * unit
      /\ (k = last) => Ascending(lists[k])

(* The lists of both layers are sound; a block in user hands is as large   *)
(* as was asked for with its two tags, and keeps its tags until it is      *)
(* freed, through whichever layer it came and whoever writes next to it.   *)
TagsSound ==
    /\ ListSound(centLists, CentLast, Page)
    /\ \A c \in Cache : ListSound(cacheLists[c], CacheLast, Unit)
    /\ \A a \in DOMAIN live :
         /\ live[a] + 2 * HeaderSize <= head[a].size
         /\ a % Unit = 0
         /\ TaggedAs(a, "allocated")

(* At exit, "Equal? Y" (heap_alloc.cpp:183) is printed only if the program *)
(* has freed all and no block was lost; if it has and "N" is printed, then *)
(* a thread freed blocks into a cache that nobody has allocated from.  The *)
(* asserts of a cache never fail.                                          *)
ExitReport ==
    (report # NoReport) =>
      /\ (report[1].equal = "Y") => (live = <<>> /\ wiped = {})
      /\ (report[1].equal = "N" /\ live = <<>> /\ wiped = {}) =>
           \E c \in Cache : ~cacheInit[c] /\ BlocksIn(cacheLists[c]) # {}
      /\ (Len(report) = 2) => report[2].holds

(* checkFreeLsConsist of the central heap: "assert(totsize %               *)
(* BASICALLOCSIZE == 0)" and "assert(totsize == classsize)"                *)
(* (heap_alloc.cpp:320-322), and "It allocate/dealloc in Pages (4k)        *)
(* chunks" (heap_alloc.hpp:17).                                            *)
CentralHoldsPages ==
    \A k \in 0..CentLast : \A i \in 1..Len(centLists[k]) :
      /\ head[centLists[k][i]].size % Page = 0
      /\ (k < CentLast) => (head[centLists[k][i]].size = k * Page)

=============================================================================
