----------------------------- MODULE FileCache -----------------------------
(***************************************************************************)
(* file_cache.cpp: files kept in memory under pins, with a map from names  *)
(* to nodes and a FIFO list of the nodes for eviction.                     *)
(*                                                                         *)
(* A step is a critical section of rw_m_ or an access outside of it; only  *)
(* the loop of evict(), which runs under the write lock, is cut into its   *)
(* turns.  A node is numbered by its creation and never reused, so that a  *)
(* pointer to a deleted node is told from a pointer to a new one; using    *)
(* such a pointer is undefined behaviour and leads to "crashed".           *)
(***************************************************************************)
EXTENDS Integers, FiniteSets, FiniteSetsExt

CONSTANTS
    Thread,
    File,
    FileSystem, \* the size of each file, and whether it may change between
                \* fstat and read
    max_size_,
    SizeT,      \* size_t is 0..SizeT-1 (2^64 in the code)
    MaxPins     \* pin() is called at most this often

ASSUME FileSystemAssumption ==
    FileSystem \subseteq [size : [File -> 1..(SizeT - 1)], resizes : BOOLEAN]
ASSUME ThreadAssumption == IsFiniteSet(Thread) /\ -1 \notin Thread
ASSUME FileAssumption == File # {}
ASSUME BoundsAssumption == max_size_ \in Nat /\ SizeT \in Nat /\ MaxPins \in Nat

Node == 1..MaxPins
Sentinel == 0       \* tail_
NULL == -1

VARIABLES
    rw_m_,        \* the thread that holds the write lock, or NULL
    cache_map_,   \* the node of each file name, or NULL
    head_,        \* the newest node of the list
    next,         \* the link of each node and of the sentinel
    name,         \* the file of each node
    pin_count,    \* of each node
    made,         \* nodes created so far
    deleted,      \* nodes deleted so far
    bytes_used_, pin_total_, hit_total_, failed_total_,
    calls, errors,  \* calls of pin(), and those that failed on the file (history)
    pc, file,     \* of each thread: where it is and the file it pins
    node,         \* its new node, or its handle
    curr, prev, bytes_to_evict, to_delete,  \* its locals in evict()
    fs,           \* the files, one of FileSystem
    destroyed     \* has the destructor run

nodes == <<cache_map_, head_, next, name, pin_count, made, deleted>>
totals == <<pin_total_, hit_total_, failed_total_, calls, errors>>
eviction == <<curr, prev, bytes_to_evict, to_delete, fs>>
vars == <<rw_m_, cache_map_, head_, next, name, pin_count, made, deleted, bytes_used_,
          pin_total_, hit_total_, failed_total_, calls, errors, pc, file, node,
          curr, prev, bytes_to_evict, to_delete, fs, destroyed>>

Size == fs.size

Init ==
    /\ rw_m_ = NULL
    /\ cache_map_ = [f \in File |-> NULL]
    /\ head_ = Sentinel
    /\ next = [n \in Node \cup {Sentinel} |-> NULL]
    /\ name \in [Node -> {CHOOSE f \in File : TRUE}]
    /\ pin_count = [n \in Node |-> 0]
    /\ made = 0
    /\ deleted = {}
    /\ bytes_used_ = 0
    /\ pin_total_ = 0 /\ hit_total_ = 0 /\ failed_total_ = 0
    /\ calls = 0 /\ errors = 0
    /\ pc = [t \in Thread |-> "idle"]
    /\ file = [t \in Thread |-> NULL]
    /\ node = [t \in Thread |-> NULL]
    /\ curr = [t \in Thread |-> NULL]
    /\ prev = [t \in Thread |-> NULL]
    /\ bytes_to_evict = [t \in Thread |-> 0]
    /\ to_delete = [t \in Thread |-> {}]
    /\ fs \in FileSystem
    /\ destroyed = FALSE

Goto(t, label) == pc' = [pc EXCEPT ![t] = label]
Unlocked == rw_m_ = NULL

(* pin() returns a null handle. *)
ReturnsNothing(t) ==
    /\ Goto(t, "idle")
    /\ file' = [file EXCEPT ![t] = NULL]

(* ... because there is no space, or another thread loaded the file. *)
CountFailed ==
    /\ pin_total_' = pin_total_ + 1
    /\ failed_total_' = failed_total_ + 1
    /\ UNCHANGED <<hit_total_, calls, errors>>

(* ... because the file could not be opened or read. *)
CountError ==
    /\ errors' = errors + 1
    /\ UNCHANGED <<pin_total_, hit_total_, failed_total_, calls>>

-----------------------------------------------------------------------------
(* pin *)

PinHit(t, f) ==
    /\ pc[t] = "idle" /\ calls < MaxPins
    /\ Unlocked
    /\ cache_map_[f] # NULL
    /\ node' = [node EXCEPT ![t] = cache_map_[f]]
    /\ pin_count' = [pin_count EXCEPT ![cache_map_[f]] = @ + 1]
    /\ pin_total_' = pin_total_ + 1
    /\ hit_total_' = hit_total_ + 1
    /\ calls' = calls + 1
    /\ Goto(t, "pinned")
    /\ UNCHANGED <<rw_m_, cache_map_, head_, next, name, made, deleted, bytes_used_,
                   failed_total_, errors, file, eviction>>

PinMiss(t, f) ==
    /\ pc[t] = "idle" /\ calls < MaxPins
    /\ Unlocked
    /\ cache_map_[f] = NULL
    /\ file' = [file EXCEPT ![t] = f]
    /\ calls' = calls + 1
    /\ Goto(t, "open")
    /\ UNCHANGED <<rw_m_, nodes, bytes_used_, pin_total_, hit_total_, failed_total_,
                   errors, node, eviction>>

-----------------------------------------------------------------------------
(* load *)

OpenFails(t) ==
    /\ pc[t] = "open"
    /\ CountError
    /\ ReturnsNothing(t)
    /\ UNCHANGED <<rw_m_, nodes, bytes_used_, node, eviction>>

(* bytes_used_ is read without a lock. *)
CheckSpace(t) ==
    /\ pc[t] = "open"
    /\ Goto(t, IF max_size_ - bytes_used_ < Size[file[t]] THEN "evict" ELSE "read")
    /\ UNCHANGED <<rw_m_, nodes, bytes_used_, totals, file, node, eviction>>

ReadFails(t) ==
    /\ pc[t] = "read"
    /\ CountError
    /\ ReturnsNothing(t)
    /\ UNCHANGED <<rw_m_, nodes, bytes_used_, node, eviction>>

(* The file is not as long as fstat said: the loop never sees to_read = 0. *)
ReadsForever(t) ==
    /\ fs.resizes
    /\ pc[t] = "read"
    /\ Goto(t, "reading forever")
    /\ UNCHANGED <<rw_m_, nodes, bytes_used_, totals, file, node, eviction>>

(* The file is read and a node is made for it, pinned by its maker. *)
MakeNode(t) ==
    LET n == made + 1
    IN  /\ pc[t] = "read"
        /\ made' = n
        /\ name' = [name EXCEPT ![n] = file[t]]
        /\ pin_count' = [pin_count EXCEPT ![n] = 1]
        /\ node' = [node EXCEPT ![t] = n]
        /\ Goto(t, "insert")
        /\ UNCHANGED <<rw_m_, cache_map_, head_, next, deleted, bytes_used_, totals, file,
                       eviction>>

nodeInsert(n) ==
    /\ next' = [next EXCEPT ![head_] = n, ![n] = NULL]
    /\ head_' = n

(* Inserts into the map and at the head of the list. *)
InsertNode(t) ==
    /\ pc[t] = "insert"
    /\ Unlocked
    /\ cache_map_[file[t]] = NULL
    /\ head_ \notin deleted
    /\ cache_map_' = [cache_map_ EXCEPT ![file[t]] = node[t]]
    /\ nodeInsert(node[t])
    /\ Goto(t, "count")
    /\ UNCHANGED <<rw_m_, name, pin_count, made, deleted, bytes_used_, totals, file, node,
                   eviction>>

InsertAtDeleted(t) ==
    /\ pc[t] = "insert"
    /\ Unlocked
    /\ cache_map_[file[t]] = NULL
    /\ head_ \in deleted
    /\ cache_map_' = [cache_map_ EXCEPT ![file[t]] = node[t]]
    /\ Goto(t, "crashed")
    /\ UNCHANGED <<rw_m_, head_, next, name, pin_count, made, deleted, bytes_used_, totals,
                   file, node, eviction>>

(* Mutant: the bytes of a node that is not kept are counted. *)
DuplicateLoadCounted(t) ==
    /\ pc[t] = "insert"
    /\ Unlocked
    /\ cache_map_[file[t]] # NULL
    /\ deleted' = deleted \cup {node[t]}
    /\ node' = [node EXCEPT ![t] = NULL]
    /\ bytes_used_' = bytes_used_ + Size[file[t]]
    /\ CountFailed
    /\ ReturnsNothing(t)
    /\ UNCHANGED <<rw_m_, cache_map_, head_, next, name, pin_count, made, eviction>>

(* Another thread brought the file up concurrently. *)
DuplicateLoad(t) ==
    /\ pc[t] = "insert"
    /\ Unlocked
    /\ cache_map_[file[t]] # NULL
    /\ deleted' = deleted \cup {node[t]}
    /\ node' = [node EXCEPT ![t] = NULL]
    /\ CountFailed
    /\ ReturnsNothing(t)
    /\ UNCHANGED <<rw_m_, cache_map_, head_, next, name, pin_count, made, bytes_used_,
                   eviction>>

(* The bytes are counted after the unlock. *)
CountBytes(t) ==
    /\ pc[t] = "count"
    /\ bytes_used_' = bytes_used_ + Size[file[t]]
    /\ pin_total_' = pin_total_ + 1
    /\ file' = [file EXCEPT ![t] = NULL]
    /\ Goto(t, "pinned")
    /\ UNCHANGED <<rw_m_, nodes, hit_total_, failed_total_, calls, errors, node, eviction>>

-----------------------------------------------------------------------------
(* evict, under the write lock *)

EvictEmpty(t) ==
    /\ pc[t] = "evict"
    /\ Unlocked
    /\ head_ = Sentinel
    /\ CountFailed
    /\ ReturnsNothing(t)
    /\ UNCHANGED <<rw_m_, nodes, bytes_used_, node, eviction>>

EvictStart(t) ==
    /\ pc[t] = "evict"
    /\ Unlocked
    /\ head_ # Sentinel
    /\ rw_m_' = t
    /\ curr' = [curr EXCEPT ![t] = next[Sentinel]]
    /\ prev' = [prev EXCEPT ![t] = Sentinel]
    /\ bytes_to_evict' = [bytes_to_evict EXCEPT ![t] = Size[file[t]]]
    /\ to_delete' = [to_delete EXCEPT ![t] = {}]
    /\ Goto(t, "evicting")
    /\ UNCHANGED <<nodes, bytes_used_, totals, file, node, fs>>

nodeExtract(n, before) ==
    /\ head_' = IF head_ = n THEN before ELSE head_
    /\ next' = [next EXCEPT ![before] = next[n]]

Visits(t) == pc[t] = "evicting" /\ bytes_to_evict[t] > 0 /\ curr[t] # NULL

(* Mutant: pinned nodes are evicted. *)
EvictAnyNode(t) ==
    LET n == curr[t]
    IN  /\ Visits(t)
        /\ n \notin deleted
        /\ bytes_to_evict' = [bytes_to_evict EXCEPT ![t] = (@ - Size[name[n]]) % SizeT]
        /\ cache_map_' = [cache_map_ EXCEPT ![name[n]] = NULL]
        /\ to_delete' = [to_delete EXCEPT ![t] = @ \cup {n}]
        /\ nodeExtract(n, prev[t])
        /\ prev' = [prev EXCEPT ![t] = n]
        /\ curr' = [curr EXCEPT ![t] = next[n]]
        /\ UNCHANGED <<rw_m_, name, pin_count, made, deleted, bytes_used_, totals, pc, file,
                       node, fs>>

(* An unpinned node leaves the map and, by nodeExtract, the list.  The     *)
(* subtraction is one of size_t, and prev follows curr in any case.        *)
EvictNode(t) ==
    LET n == curr[t]
    IN  /\ Visits(t)
        /\ n \notin deleted
        /\ pin_count[n] = 0
        /\ bytes_to_evict' = [bytes_to_evict EXCEPT ![t] = (@ - Size[name[n]]) % SizeT]
        /\ cache_map_' = [cache_map_ EXCEPT ![name[n]] = NULL]
        /\ to_delete' = [to_delete EXCEPT ![t] = @ \cup {n}]
        /\ nodeExtract(n, prev[t])
        /\ prev' = [prev EXCEPT ![t] = n]
        /\ curr' = [curr EXCEPT ![t] = next[n]]
        /\ UNCHANGED <<rw_m_, name, pin_count, made, deleted, bytes_used_, totals, pc, file,
                       node, fs>>

(* Mutant: the walk stays at a pinned node. *)
SkipNothing(t) ==
    /\ Visits(t)
    /\ curr[t] \notin deleted
    /\ pin_count[curr[t]] # 0
    /\ prev' = [prev EXCEPT ![t] = curr[t]]
    /\ UNCHANGED <<rw_m_, nodes, bytes_used_, totals, pc, file, node, curr, bytes_to_evict,
                   to_delete, fs>>

SkipPinned(t) ==
    /\ Visits(t)
    /\ curr[t] \notin deleted
    /\ pin_count[curr[t]] # 0
    /\ prev' = [prev EXCEPT ![t] = curr[t]]
    /\ curr' = [curr EXCEPT ![t] = next[curr[t]]]
    /\ UNCHANGED <<rw_m_, nodes, bytes_used_, totals, pc, file, node, bytes_to_evict,
                   to_delete, fs>>

VisitDeleted(t) ==
    /\ Visits(t)
    /\ curr[t] \in deleted
    /\ Goto(t, "crashed")
    /\ UNCHANGED <<rw_m_, nodes, bytes_used_, totals, file, node, eviction>>

BytesOf(S) == SumFunctionOnSet([n \in Node |-> Size[name[n]]], S)

(* What evict() does after its loop: the nodes are deleted, and the load   *)
(* goes on only if exactly the bytes asked for were evicted.               *)
EvictEnd(t) ==
    /\ pc[t] = "evicting"
    /\ ~Visits(t)
    /\ bytes_used_' = bytes_used_ - BytesOf(to_delete[t])
    /\ rw_m_' = NULL
    /\ deleted' = deleted \cup to_delete[t]
    /\ IF bytes_to_evict[t] = 0
         THEN Goto(t, "read") /\ UNCHANGED <<file, totals>>
         ELSE ReturnsNothing(t) /\ CountFailed
    /\ UNCHANGED <<cache_map_, head_, next, name, pin_count, made, node, fs>>
    /\ curr' = [curr EXCEPT ![t] = NULL]
    /\ prev' = [prev EXCEPT ![t] = NULL]
    /\ bytes_to_evict' = [bytes_to_evict EXCEPT ![t] = 0]
    /\ to_delete' = [to_delete EXCEPT ![t] = {}]

-----------------------------------------------------------------------------
(* unpin: the handle is the name inside the node, looked up in the map *)

Unpin(t) ==
    LET n == node[t]
        found == cache_map_[name[n]]
    IN  /\ pc[t] = "pinned"
        /\ Unlocked
        /\ IF n \in deleted \/ found = NULL
             THEN /\ Goto(t, "crashed")
                  /\ UNCHANGED pin_count
             ELSE /\ pin_count' = [pin_count EXCEPT ![found] = @ - 1]
                  /\ Goto(t, IF pin_count[found] = 0 THEN "crashed" ELSE "idle")
        /\ node' = [node EXCEPT ![t] = NULL]
        /\ UNCHANGED <<rw_m_, cache_map_, head_, next, name, made, deleted, bytes_used_,
                       totals, file, eviction>>

-----------------------------------------------------------------------------
(* The nodes from the oldest on, as the links give them. *)
Listed ==
    LET reach[i \in 0..MaxPins] ==
          IF i = 0 THEN {next[Sentinel]} ELSE {next[n] : n \in reach[i - 1] \ {NULL}}
    IN  (UNION {reach[i] : i \in 0..MaxPins}) \ {NULL}

(* The destructor, which requires that nobody uses the cache any more,     *)
(* deletes what is in the list.                                            *)
Destroy ==
    /\ Unlocked
    /\ \A t \in Thread : pc[t] = "idle"
    /\ deleted' = deleted \cup Listed
    /\ destroyed' = TRUE
    /\ UNCHANGED <<rw_m_, cache_map_, head_, next, name, pin_count, made, bytes_used_, totals,
                   pc, file, node, eviction>>

-----------------------------------------------------------------------------
Load(t) ==
    \/ OpenFails(t) \/ CheckSpace(t) \/ ReadFails(t) \/ ReadsForever(t) \/ MakeNode(t)
    \/ InsertNode(t) \/ InsertAtDeleted(t) \/ DuplicateLoad(t) \/ CountBytes(t)

Evict(t) ==
    EvictEmpty(t) \/ EvictStart(t) \/ EvictNode(t) \/ SkipPinned(t) \/ VisitDeleted(t)
      \/ EvictEnd(t)

Next ==
    /\ ~destroyed
    /\ \/ /\ UNCHANGED destroyed
          /\ \E t \in Thread :
               \/ \E f \in File : PinHit(t, f) \/ PinMiss(t, f)
               \/ Load(t)
               \/ Evict(t)
               \/ Unpin(t)
       \/ Destroy

Spec == Init /\ [][Next]_vars

(* Threads are scheduled, and users unpin what they pinned. *)
FairSpec ==
    Spec /\ \A t \in Thread :
             WF_vars(~destroyed /\ UNCHANGED destroyed /\ (Load(t) \/ Evict(t) \/ Unpin(t)))
-----------------------------------------------------------------------------
(* Properties *)

(* Evicting one file makes exactly the room that another one needs. *)
OneSize == \A f, g \in File : Size[f] = Size[g]

(* The threads that have a pin on the node. *)
PinsOf(n) == {t \in Thread : pc[t] \in {"count", "pinned", "crashed"} /\ node[t] = n}

(* "incrementing the buffers pin count here would prevent it from being    *)
(* evicted" (file_cache.cpp:74-75): as long as a thread has a pin, its     *)
(* node is not deleted, the map finds it under its name, and its count is  *)
(* the number of pins, however pins, loads and evictions interleave.       *)
PinnedStaysCached ==
    /\ \A n \in Node : PinsOf(n) # {} => n \notin deleted /\ cache_map_[name[n]] = n
    /\ \A f \in File : (cache_map_[f] # NULL) =>
         pin_count[cache_map_[f]] = Cardinality(PinsOf(cache_map_[f]))

Cached == {cache_map_[f] : f \in File} \ {NULL}

Inside(t) == pc[t] \notin {"idle", "pinned"}

(* "The buffers are connected together in a single-linked FIFO list"       *)
(* (file_cache.hpp:27-28): outside of evict() the list has exactly the     *)
(* nodes of the map, none of them deleted, and head_ is its end; and when  *)
(* the cache is destroyed, every node that was ever made is deleted.  That *)
(* much holds as long as evict() never removes two nodes at once.          *)
(* bytes_used_ counts the nodes of the map, but those that a load has      *)
(* inserted and not yet counted; and each call is counted once, as a hit,  *)
(* a load, a failure or a file error.                                      *)
CacheConsistent ==
    /\ (OneSize /\ Unlocked) =>
                /\ Listed = Cached
                /\ destroyed \/ Cached \cap deleted = {}
                /\ destroyed => (deleted = 1..made)
                /\ head_ \in Cached \cup {Sentinel}
                /\ next[head_] = NULL
    /\ Unlocked =>
         LET uncounted == {t \in Thread : pc[t] \in {"count", "crashed"}}
         IN  bytes_used_ = BytesOf(Cached \ {node[t] : t \in uncounted})
    /\ (\A t \in Thread : ~Inside(t)) => (calls = pin_total_ + errors)

(* "The sum of all Buffer's stored in the map never exceeds the size       *)
(* determined for the cache" (file_cache.hpp:17-19).                       *)
NeverExceedsSize == Unlocked => (BytesOf(Cached) <= max_size_)

(* pin() and unpin() return, if the files do not change while they are     *)
(* read: the locks are free again and again, and the walk of evict() ends. *)
PinReturns ==
    \A t \in Thread : (Inside(t) /\ OneSize /\ ~fs.resizes) ~> ~Inside(t)
=============================================================================
