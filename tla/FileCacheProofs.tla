--------------------------- MODULE FileCacheProofs ---------------------------
(***************************************************************************)
(* Pinned files stay in the cache, and its map, list, bytes and totals     *)
(* agree, for any threads, files, sizes and number of calls: for each of   *)
(* the two the inductive invariant, the steps of pin() and evict(), and    *)
(* the theorem; and, for the second, what the recursive definitions of the *)
(* bytes of a set and of the list compute.                                 *)
(***************************************************************************)
EXTENDS FileCache, FiniteSetTheorems, TLAPS

PcType == {"idle", "open", "evict", "evicting", "read", "reading forever", "insert", "count",
           "pinned", "crashed"}

TypeInv ==
    /\ rw_m_ \in Thread \cup {NULL}
    /\ cache_map_ \in [File -> Node \cup {NULL}]
    /\ head_ \in Node \cup {Sentinel}
    /\ next \in [Node \cup {Sentinel} -> Node \cup {NULL}]
    /\ name \in [Node -> File]
    /\ pin_count \in [Node -> Int]
    /\ made \in Nat
    /\ calls \in Nat
    /\ deleted \in SUBSET Node
    /\ pc \in [Thread -> PcType]
    /\ file \in [Thread -> File \cup {NULL}]
    /\ node \in [Thread -> Node \cup {NULL}]
    /\ curr \in [Thread -> Node \cup {NULL}]
    /\ prev \in [Thread -> Node \cup {Sentinel, NULL}]
    /\ to_delete \in [Thread -> SUBSET Node]

(* The calls of pin() that may still make a node: there is a number for    *)
(* each.                                                                   *)
LoadLabels == {"open", "evict", "evicting", "read"}
Loading == {t \in Thread : pc[t] \in LoadLabels}
BoundInv == made + Cardinality(Loading) <= calls /\ calls <= MaxPins

(* Who is inside evict() has the lock, and nodes wait for deletion only    *)
(* there.                                                                  *)
LockInv ==
    \A t \in Thread :
      /\ (pc[t] = "evicting") => (rw_m_ = t)
      /\ (to_delete[t] # {}) => (rw_m_ = t)
      /\ (rw_m_ = t) => (pc[t] \in {"evicting", "crashed"})

(* The locals of pin(). *)
CallInv ==
    \A t \in Thread :
      /\ (pc[t] \in {"open", "evict", "evicting", "read", "insert", "count"}) =>
           (file[t] \in File)
      /\ (node[t] # NULL) => (pc[t] \in {"insert", "count", "pinned", "crashed"})
      /\ (pc[t] \in {"insert", "count", "pinned"}) => (node[t] # NULL)
      /\ (node[t] # NULL) => (node[t] <= made)
      /\ (pc[t] = "evicting") => (prev[t] # NULL)

(* A node that is new to the cache is known to its maker alone. *)
InsertInv ==
    \A t \in Thread : (pc[t] = "insert") =>
      /\ name[node[t]] = file[t]
      /\ pin_count[node[t]] = 1
      /\ node[t] \notin deleted
      /\ node[t] # head_
      /\ \A u \in Thread : /\ (node[u] = node[t]) => (u = t)
                           /\ node[t] \notin to_delete[u]
                           /\ curr[u] # node[t] /\ prev[u] # node[t]
      /\ \A f \in File : cache_map_[f] # node[t]
      /\ \A n \in Node \cup {Sentinel} : next[n] # node[t]

(* What is linked or deleted was made. *)
LinkInv ==
    /\ head_ <= made
    /\ \A n \in Node \cup {Sentinel} : next[n] <= made
    /\ \A t \in Thread : curr[t] <= made /\ prev[t] <= made
    /\ \A n \in deleted : n <= made

(* A node of the map has its name, is not on the way out, and counts its   *)
(* pins.                                                                   *)
MapInv ==
    \A f \in File : (cache_map_[f] # NULL) =>
      /\ cache_map_[f] <= made
      /\ name[cache_map_[f]] = f
      /\ cache_map_[f] \notin deleted
      /\ \A t \in Thread : cache_map_[f] \notin to_delete[t]
      /\ pin_count[cache_map_[f]] = Cardinality(PinsOf(cache_map_[f]))

(* A pinned node is in the map. *)
PinInv ==
    \A t \in Thread :
      (node[t] # NULL /\ pc[t] # "insert") => (cache_map_[name[node[t]]] = node[t])

(* The names of nodes on the way out are free. *)
DropInv ==
    \A t \in Thread : \A n \in to_delete[t] : n <= made /\ cache_map_[name[n]] = NULL

(* Where the nodes are that were made. *)
NodeInv ==
    \A n \in Node : (n <= made) =>
      \/ n \in deleted
      \/ \E t \in Thread : n \in to_delete[t]
      \/ \E t \in Thread : pc[t] = "insert" /\ node[t] = n
      \/ cache_map_[name[n]] = n

FullInv ==
    /\ TypeInv /\ BoundInv /\ LockInv /\ CallInv /\ InsertInv /\ LinkInv /\ MapInv /\ PinInv
    /\ DropInv /\ NodeInv

(* The destructor deletes the nodes of the map, after which nothing runs. *)
CacheInv == PinnedStaysCached /\ (~destroyed => FullInv)

-----------------------------------------------------------------------------
LEMMA InitInv == Init => CacheInv
  <1> SUFFICES ASSUME Init PROVE FullInv /\ PinnedStaysCached
    BY Zenon DEF CacheInv
  <1>1. (CHOOSE f \in File : TRUE) \in File
    BY Zenon, FileAssumption
  <1>2. TypeInv
    BY <1>1 DEF Init, TypeInv, PcType, Sentinel, NULL
  <1>3. Loading = {} /\ \A n : PinsOf(n) = {}
    BY Zenon DEF Init, Loading, LoadLabels, PinsOf
  <1>4. BoundInv
    BY <1>3, BoundsAssumption, FS_EmptySet DEF Init, BoundInv
  <1>5. LockInv /\ CallInv /\ InsertInv /\ MapInv /\ PinInv /\ DropInv
    BY Zenon, ThreadAssumption DEF Init, LockInv, CallInv, InsertInv, MapInv, PinInv, DropInv, NULL
  <1>6. LinkInv /\ NodeInv
    BY DEF Init, LinkInv, NodeInv, Node, Sentinel, NULL
  <1>7. PinnedStaysCached
    BY Zenon, <1>3 DEF Init, PinnedStaysCached
  <1> QED
    BY Zenon, <1>2, <1>4, <1>5, <1>6, <1>7 DEF FullInv

LEMMA InvImpliesPinned == FullInv => PinnedStaysCached
  <1> SUFFICES ASSUME FullInv PROVE PinnedStaysCached
    OBVIOUS
  <1>1. ASSUME NEW n \in Node, PinsOf(n) # {}
        PROVE  n \notin deleted /\ cache_map_[name[n]] = n
    <2>1. PICK t \in Thread : pc[t] \in {"count", "pinned", "crashed"} /\ node[t] = n
      BY Zenon, <1>1 DEF PinsOf
    <2>2. n # NULL /\ name[n] \in File
      BY DEF FullInv, TypeInv, Node, NULL
    <2>3. cache_map_[name[n]] = n
      BY Zenon, <2>1, <2>2 DEF FullInv, PinInv
    <2> QED
      BY Zenon, <2>2, <2>3 DEF FullInv, MapInv
  <1>2. \A f \in File : (cache_map_[f] # NULL) =>
          pin_count[cache_map_[f]] = Cardinality(PinsOf(cache_map_[f]))
    BY Zenon DEF FullInv, MapInv
  <1> QED
    BY Zenon, <1>1, <1>2 DEF PinnedStaysCached

(* How a move of one thread changes the number of loads. *)
LEMMA LoadingStep ==
  ASSUME TypeInv, NEW t \in Thread, NEW label, pc' = [pc EXCEPT ![t] = label]
  PROVE  /\ Cardinality(Loading) \in Nat
         /\ (pc[t] \in LoadLabels /\ label \in LoadLabels) =>
              Cardinality(Loading') = Cardinality(Loading)
         /\ (pc[t] \in LoadLabels /\ label \notin LoadLabels) =>
              Cardinality(Loading') = Cardinality(Loading) - 1
         /\ (pc[t] \notin LoadLabels /\ label \in LoadLabels) =>
              Cardinality(Loading') = Cardinality(Loading) + 1
         /\ (pc[t] \notin LoadLabels /\ label \notin LoadLabels) =>
              Cardinality(Loading') = Cardinality(Loading)
  <1>0. Loading \in SUBSET Thread
    BY Zenon DEF Loading
  <1>1. IsFiniteSet(Loading) /\ Cardinality(Loading) \in Nat
    BY Zenon, <1>0, ThreadAssumption, FS_Subset, FS_CardinalityType
  <1>2. t \in Loading <=> pc[t] \in LoadLabels
    BY Zenon DEF Loading
  <1>3. (label \in LoadLabels) => Loading' = Loading \cup {t}
    BY Zenon DEF Loading, TypeInv
  <1>4. (label \notin LoadLabels) => Loading' = Loading \ {t}
    BY Zenon DEF Loading, TypeInv
  <1>5. /\ Cardinality(Loading \cup {t}) =
             IF t \in Loading THEN Cardinality(Loading) ELSE Cardinality(Loading) + 1
        /\ Cardinality(Loading \ {t}) =
             IF t \in Loading THEN Cardinality(Loading) - 1 ELSE Cardinality(Loading)
    BY ZenonT(60), <1>1, FS_AddElement, FS_RemoveElement
  <1> QED
    BY Zenon, <1>1, <1>2, <1>3, <1>4, <1>5

(* A step that leaves the nodes, the map and the handles alone. *)
LEMMA QuietStep ==
  ASSUME FullInv, NEW t \in Thread,
         UNCHANGED <<cache_map_, head_, next, name, pin_count, made, deleted, node, to_delete>>,
         TypeInv', BoundInv', LockInv', CallInv',
         pc[t] # "insert", pc'[t] # "insert",
         (node[t] # NULL) => (pc'[t] \in {"count", "pinned", "crashed"}),
         \A u \in Thread \ {t} : pc'[u] = pc[u] /\ file'[u] = file[u],
         \A u \in Thread : \/ curr'[u] \in {curr[u], NULL}
                           \/ \E n \in Node \cup {Sentinel} : curr'[u] = next[n],
         \A u \in Thread : prev'[u] \in {prev[u], curr[u], Sentinel}
  PROVE  FullInv'
  <1>1. \A n \in Node : PinsOf(n)' = PinsOf(n)
    BY DEF FullInv, CallInv, PinsOf, Node, NULL
  <1>2. InsertInv'
    BY DEF FullInv, TypeInv, CallInv, InsertInv, Node, Sentinel, NULL
  <1>3. LinkInv'
    BY DEF FullInv, TypeInv, LinkInv, Sentinel, NULL
  <1>4. MapInv'
    BY <1>1 DEF FullInv, TypeInv, MapInv
  <1>5. PinInv' /\ DropInv'
    BY Zenon DEF FullInv, PinInv, DropInv
  <1>6. NodeInv'
    BY DEF FullInv, NodeInv
  <1> QED
    BY Zenon, <1>2, <1>3, <1>4, <1>5, <1>6 DEF FullInv

LEMMA CallSteps ==
  ASSUME FullInv, NEW t \in Thread,
         \/ \E f \in File : PinMiss(t, f)
         \/ OpenFails(t) \/ CheckSpace(t) \/ ReadFails(t) \/ ReadsForever(t)
         \/ CountBytes(t) \/ EvictEmpty(t)
  PROVE  FullInv'
  <1>0. PICK label \in PcType :
          /\ pc' = [pc EXCEPT ![t] = label]
          /\ label \in {"open", "evict", "read"} =>
               file'[t] \in File /\ (pc[t] \in LoadLabels \/ calls' = calls + 1)
          /\ label \in {"idle", "open", "evict", "read", "reading forever", "pinned"}
          /\ label = "pinned" <=> pc[t] = "count"
    BY ZenonT(60) DEF FullInv, TypeInv, CallInv, PcType, LoadLabels,
              PinMiss, OpenFails, CheckSpace, ReadFails, ReadsForever, CountBytes, EvictEmpty,
              ReturnsNothing, CountFailed, CountError, Goto, nodes, totals, eviction
  <1>1. /\ UNCHANGED <<rw_m_, cache_map_, head_, next, name, pin_count, made, deleted, node,
                       to_delete, curr, prev>>
        /\ file' \in [Thread -> File \cup {NULL}]
        /\ \A u \in Thread \ {t} : pc'[u] = pc[u] /\ file'[u] = file[u]
        /\ pc[t] \in {"idle", "open", "evict", "read", "count"}
        /\ pc'[t] = label
        /\ calls' = calls \/ (calls' = calls + 1 /\ calls < MaxPins /\ pc[t] = "idle")
    BY ZenonT(60), <1>0 DEF FullInv, TypeInv,
              PinMiss, OpenFails, CheckSpace, ReadFails, ReadsForever, CountBytes, EvictEmpty,
              ReturnsNothing, CountFailed, CountError, Goto, nodes, totals, eviction
  <1>2. TypeInv'
    <2>1. calls' \in Nat
      BY <1>1 DEF FullInv, TypeInv
    <2>2. pc' \in [Thread -> PcType]
      BY ZenonT(60), <1>0 DEF FullInv, TypeInv
    <2> QED
      BY Zenon, <1>1, <2>1, <2>2 DEF FullInv, TypeInv
  <1>3. BoundInv'
    <2>1. TypeInv /\ BoundInv /\ calls \in Nat /\ made \in Nat /\ MaxPins \in Nat
      BY Zenon, BoundsAssumption DEF FullInv, TypeInv
    <2>2. \/ Cardinality(Loading') = Cardinality(Loading)
          \/ Cardinality(Loading') = Cardinality(Loading) - 1
          \/ Cardinality(Loading') = Cardinality(Loading) + 1 /\ calls' = calls + 1
      BY ZenonT(60), <1>0, <2>1, LoadingStep DEF LoadLabels
    <2>3. Cardinality(Loading) \in Nat
      BY ZenonT(60), <1>0, <2>1, LoadingStep
    <2> QED
      BY <1>1, <2>1, <2>2, <2>3 DEF BoundInv
  <1>4. LockInv'
    BY ZenonT(60), <1>0, <1>1 DEF FullInv, LockInv
  <1>5. CallInv'
    <2>1. CallInv /\ file'[t] \in File \cup {NULL}
      BY Zenon, <1>1 DEF FullInv
    <2> QED
      BY ZenonT(60), <1>0, <1>1, <2>1 DEF CallInv
  <1> QED
    BY ZenonT(60), <1>0, <1>1, <1>2, <1>3, <1>4, <1>5, QuietStep DEF FullInv, CallInv

LEMMA WalkSteps ==
  ASSUME FullInv, NEW t \in Thread, EvictStart(t) \/ SkipPinned(t) \/ VisitDeleted(t)
  PROVE  FullInv'
  <1>0. /\ pc[t] \in {"evict", "evicting"}
        /\ node[t] = NULL
        /\ UNCHANGED <<cache_map_, head_, next, name, pin_count, made, deleted, node, calls,
                       file>>
    BY Zenon DEF FullInv, CallInv, EvictStart, SkipPinned, VisitDeleted, Visits, nodes, totals
  <1>1. /\ pc' = [pc EXCEPT ![t] = pc'[t]]
        /\ pc'[t] \in {"evicting", "crashed"}
        /\ \A u \in Thread \ {t} : pc'[u] = pc[u]
        /\ rw_m_' = t
    BY Zenon DEF FullInv, TypeInv, LockInv, EvictStart, SkipPinned, VisitDeleted, Visits, Goto
  <1>2. UNCHANGED to_delete
    <2>1. CASE EvictStart(t)
      <3>1. to_delete[t] = {} /\ to_delete' = [to_delete EXCEPT ![t] = {}]
        BY Zenon, <2>1, ThreadAssumption DEF FullInv, LockInv, EvictStart, Unlocked, NULL
      <3> QED
        BY Zenon, <3>1 DEF FullInv, TypeInv
    <2>2. CASE SkipPinned(t) \/ VisitDeleted(t)
      BY Zenon, <2>2 DEF SkipPinned, VisitDeleted, eviction
    <2> QED
      BY Zenon, <2>1, <2>2
  <1>3. /\ curr' \in [Thread -> Node \cup {NULL}]
        /\ prev' \in [Thread -> Node \cup {Sentinel, NULL}]
        /\ (pc'[t] = "evicting") => (prev'[t] # NULL)
        /\ \A u \in Thread \ {t} : prev'[u] = prev[u]
        /\ \A u \in Thread : prev'[u] \in {prev[u], curr[u], Sentinel}
        /\ \A u \in Thread : \/ curr'[u] \in {curr[u], NULL}
                             \/ \E n \in Node \cup {Sentinel} : curr'[u] = next[n]
    <2>1. CASE EvictStart(t)
      BY <2>1 DEF FullInv, TypeInv, EvictStart, Node, Sentinel, NULL
    <2>2. CASE SkipPinned(t)
      BY Zenon, <2>2 DEF FullInv, TypeInv, SkipPinned, Visits
    <2>3. CASE VisitDeleted(t)
      BY Zenon, <2>3 DEF FullInv, TypeInv, VisitDeleted, eviction, Goto
    <2> QED
      BY Zenon, <2>1, <2>2, <2>3
  <1>4. TypeInv'
    BY ZenonT(60), <1>0, <1>1, <1>2, <1>3 DEF FullInv, TypeInv, PcType
  <1>5. BoundInv'
    <2>1. TypeInv /\ BoundInv /\ calls \in Nat /\ made \in Nat /\ MaxPins \in Nat
      BY Zenon, BoundsAssumption DEF FullInv, TypeInv
    <2>2. Cardinality(Loading) \in Nat /\ Cardinality(Loading') <= Cardinality(Loading)
                                       /\ Cardinality(Loading') \in Int
      BY <1>0, <1>1, <2>1, LoadingStep DEF LoadLabels
    <2> QED
      BY <1>0, <2>1, <2>2 DEF BoundInv
  <1>6. LockInv'
    <2>1. rw_m_ \in {t, NULL}
      BY Zenon DEF FullInv, LockInv, EvictStart, SkipPinned, VisitDeleted, Visits, Unlocked
    <2> QED
      BY Zenon, <1>1, <1>2, <2>1, ThreadAssumption DEF FullInv, LockInv, NULL
  <1>7. CallInv'
    BY Zenon, <1>0, <1>1, <1>3 DEF FullInv, CallInv
  <1> QED
    BY Zenon, <1>0, <1>1, <1>2, <1>3, <1>4, <1>5, <1>6, <1>7, QuietStep

(* nodeExtract in the loop of evict(). *)
LEMMA EvictNodeInv ==
  ASSUME FullInv, NEW t \in Thread, EvictNode(t)
  PROVE  FullInv'
  <1>n. PICK n \in Node : curr[t] = n
    BY Zenon DEF FullInv, TypeInv, EvictNode, Visits
  <1>0. /\ curr[t] = n /\ n \notin deleted /\ pin_count[n] = 0 /\ pc[t] = "evicting"
        /\ rw_m_ = t /\ prev[t] \in Node \cup {Sentinel} /\ n <= made /\ name[n] \in File
        /\ TypeInv
    BY Zenon, <1>n DEF FullInv, TypeInv, LockInv, CallInv, LinkInv, EvictNode, Visits
  <1>1. /\ UNCHANGED <<rw_m_, name, pin_count, made, deleted, calls, pc, file, node>>
        /\ cache_map_' = [cache_map_ EXCEPT ![name[n]] = NULL]
        /\ to_delete' = [to_delete EXCEPT ![t] = to_delete[t] \cup {n}]
        /\ next' = [next EXCEPT ![prev[t]] = next[n]]
        /\ head_' = (IF head_ = n THEN prev[t] ELSE head_)
        /\ prev' = [prev EXCEPT ![t] = n]
        /\ curr' = [curr EXCEPT ![t] = next[n]]
    BY Zenon, <1>0 DEF TypeInv, EvictNode, nodeExtract, totals
  <1>2. \A u \in Thread : ~ (pc[u] = "insert" /\ node[u] = n)
    BY Zenon, <1>0 DEF FullInv, InsertInv
  <1>3. cache_map_[name[n]] \in {n, NULL}
    BY Zenon, <1>0, <1>2 DEF FullInv, NodeInv, DropInv
  <1>4. ASSUME NEW u \in Thread, node[u] = n PROVE FALSE
    <2>1. pc[u] \in {"count", "pinned", "crashed"} /\ n # NULL
      BY <1>2, <1>4 DEF FullInv, CallInv, Node, NULL
    <2>2. cache_map_[name[n]] = n
      BY Zenon, <1>4, <2>1 DEF FullInv, PinInv
    <2>3. Cardinality(PinsOf(n)) = 0
      BY Zenon, <1>0, <2>1, <2>2 DEF FullInv, MapInv
    <2>4. u \in PinsOf(n) /\ PinsOf(n) \in SUBSET Thread
      BY Zenon, <1>4, <2>1 DEF PinsOf
    <2>5. IsFiniteSet(PinsOf(n))
      BY Zenon, <2>4, ThreadAssumption, FS_Subset
    <2> QED
      BY Zenon, <2>3, <2>4, <2>5, FS_EmptySet
  <1>5. \A f \in File : cache_map_'[f] = IF f = name[n] THEN NULL ELSE cache_map_[f]
    BY Zenon, <1>0, <1>1 DEF TypeInv
  <1>6. \A m \in Node \cup {Sentinel} : next'[m] = IF m = prev[t] THEN next[n] ELSE next[m]
    BY Zenon, <1>0, <1>1 DEF TypeInv
  <1>7. \A u \in Thread :
          /\ to_delete'[u] = IF u = t THEN to_delete[t] \cup {n} ELSE to_delete[u]
          /\ prev'[u] = IF u = t THEN n ELSE prev[u]
          /\ curr'[u] = IF u = t THEN next[n] ELSE curr[u]
    BY Zenon, <1>0, <1>1 DEF TypeInv
  <1>8. \A m \in Node : PinsOf(m)' = PinsOf(m)
    BY Zenon, <1>1 DEF PinsOf
  <1>a. TypeInv'
    BY Zenon, <1>0, <1>1 DEF TypeInv
  <1>b. BoundInv'
    BY Zenon, <1>1 DEF FullInv, BoundInv, Loading
  <1>c. LockInv'
    BY Zenon, <1>0, <1>1, <1>7 DEF FullInv, LockInv
  <1>d. CallInv'
    BY <1>0, <1>1, <1>7 DEF FullInv, CallInv, Node, NULL
  <1>e. InsertInv'
    <2>1. ASSUME NEW u \in Thread, pc[u] = "insert"
          PROVE  /\ name[node[u]] = file[u]
                 /\ pin_count[node[u]] = 1
                 /\ node[u] \notin deleted
                 /\ node[u] # head_'
                 /\ \A v \in Thread : /\ (node[v] = node[u]) => (v = u)
                                      /\ node[u] \notin to_delete'[v]
                                      /\ curr'[v] # node[u] /\ prev'[v] # node[u]
                 /\ \A f \in File : cache_map_'[f] # node[u]
                 /\ \A m \in Node \cup {Sentinel} : next'[m] # node[u]
      <3>1. node[u] # NULL
        BY Zenon, <2>1 DEF FullInv, CallInv
      <3>2. node[u] # n /\ prev[t] # node[u] /\ next[n] # node[u]
        BY Zenon, <1>0, <1>4, <2>1 DEF FullInv, InsertInv
      <3> QED
        BY <1>0, <1>1, <1>5, <1>6, <1>7, <2>1, <3>1, <3>2 DEF FullInv, InsertInv
    <2> QED
      BY <1>1, <2>1 DEF InsertInv
  <1>f. LinkInv'
    BY <1>0, <1>1, <1>6, <1>7 DEF FullInv, LinkInv, Sentinel
  <1>g. MapInv'
    <2>1. ASSUME NEW f \in File, cache_map_'[f] # NULL
          PROVE  /\ cache_map_'[f] <= made
                 /\ name[cache_map_'[f]] = f
                 /\ cache_map_'[f] \notin deleted
                 /\ \A u \in Thread : cache_map_'[f] \notin to_delete'[u]
                 /\ pin_count[cache_map_'[f]] = Cardinality(PinsOf(cache_map_[f]))'
      <3>1. f # name[n] /\ cache_map_'[f] = cache_map_[f] /\ cache_map_[f] \in Node
        BY Zenon, <1>0, <1>5, <2>1 DEF TypeInv
      <3>2. cache_map_[f] # n
        BY Zenon, <2>1, <3>1 DEF FullInv, MapInv
      <3>3. PinsOf(cache_map_[f])' = PinsOf(cache_map_[f])
        BY Zenon, <1>1, <3>1 DEF PinsOf
      <3> QED
        BY <1>7, <2>1, <3>1, <3>2, <3>3 DEF FullInv, MapInv
    <2> QED
      BY Zenon, <1>1, <2>1 DEF MapInv
  <1>h. PinInv'
    <2>1. ASSUME NEW u \in Thread, node[u] # NULL, pc[u] # "insert"
          PROVE  cache_map_'[name[node[u]]] = node[u]
      <3>1. cache_map_[name[node[u]]] = node[u] /\ node[u] \in Node /\ node[u] # n
        BY Zenon, <1>0, <1>4, <2>1 DEF FullInv, TypeInv, PinInv
      <3>2. name[node[u]] # name[n]
        BY Zenon, <1>3, <2>1, <3>1
      <3> QED
        BY Zenon, <1>0, <1>5, <3>1, <3>2 DEF TypeInv
    <2> QED
      BY Zenon, <1>1, <2>1 DEF PinInv
  <1>i. DropInv'
    BY <1>0, <1>1, <1>5, <1>7 DEF FullInv, TypeInv, DropInv
  <1>j. NodeInv'
    <2>1. ASSUME NEW m \in Node, m <= made
          PROVE  \/ m \in deleted
                 \/ \E u \in Thread : m \in to_delete'[u]
                 \/ \E u \in Thread : pc[u] = "insert" /\ node[u] = m
                 \/ cache_map_'[name[m]] = m
      <3>1. \/ m \in deleted
            \/ \E u \in Thread : m \in to_delete[u]
            \/ \E u \in Thread : pc[u] = "insert" /\ node[u] = m
            \/ cache_map_[name[m]] = m
        BY Zenon, <2>1 DEF FullInv, NodeInv
      <3>2. CASE cache_map_[name[m]] = m /\ m # n
        <4>1. name[m] # name[n] /\ name[m] \in File
          BY <1>0, <1>3, <3>2 DEF TypeInv, Node, NULL
        <4> QED
          BY Zenon, <1>5, <3>2, <4>1
      <3> QED
        BY ZenonT(60), <1>7, <3>1, <3>2
    <2> QED
      BY Zenon, <1>1, <2>1 DEF NodeInv
  <1> QED
    BY Zenon, <1>a, <1>b, <1>c, <1>d, <1>e, <1>f, <1>g, <1>h, <1>i, <1>j DEF FullInv

(* The end of evict(): what was taken out is deleted. *)
LEMMA EvictEndInv ==
  ASSUME FullInv, NEW t \in Thread, EvictEnd(t)
  PROVE  FullInv'
  <1>0. pc[t] = "evicting" /\ rw_m_ = t /\ node[t] = NULL /\ TypeInv
    BY Zenon DEF FullInv, LockInv, CallInv, EvictEnd
  <1>1. /\ UNCHANGED <<cache_map_, head_, next, name, pin_count, made, calls, node>>
        /\ rw_m_' = NULL
        /\ deleted' = deleted \cup to_delete[t]
        /\ curr' = [curr EXCEPT ![t] = NULL]
        /\ prev' = [prev EXCEPT ![t] = NULL]
        /\ to_delete' = [to_delete EXCEPT ![t] = {}]
        /\ pc' = [pc EXCEPT ![t] = pc'[t]]
        /\ pc'[t] \in {"read", "idle"}
        /\ pc'[t] = "read" => file' = file
        /\ pc'[t] = "idle" => file' = [file EXCEPT ![t] = NULL]
    BY Zenon, <1>0 DEF TypeInv, EvictEnd, ReturnsNothing, CountFailed, totals, Goto
  <1>2. \A u \in Thread :
          /\ to_delete'[u] = IF u = t THEN {} ELSE to_delete[u]
          /\ prev'[u] = IF u = t THEN NULL ELSE prev[u]
          /\ curr'[u] = IF u = t THEN NULL ELSE curr[u]
          /\ u # t => pc'[u] = pc[u] /\ file'[u] = file[u]
    BY Zenon, <1>0, <1>1 DEF TypeInv
  <1>3. \A n \in Node : PinsOf(n)' = PinsOf(n)
    BY Zenon, <1>0, <1>1, <1>2 DEF PinsOf, Node, NULL
  <1>a. TypeInv'
    BY ZenonT(60), <1>0, <1>1 DEF TypeInv, PcType
  <1>b. BoundInv'
    <2>1. TypeInv /\ BoundInv /\ calls \in Nat /\ made \in Nat /\ MaxPins \in Nat
      BY Zenon, BoundsAssumption DEF FullInv, TypeInv
    <2>2. Cardinality(Loading) \in Nat /\ Cardinality(Loading') <= Cardinality(Loading)
                                       /\ Cardinality(Loading') \in Int
      <3>1. Cardinality(Loading) \in Nat
        BY ZenonT(60), <1>1, <2>1, LoadingStep
      <3>2. \/ Cardinality(Loading') = Cardinality(Loading)
            \/ Cardinality(Loading') = Cardinality(Loading) - 1
        <4>1. pc[t] \in LoadLabels
          BY Zenon, <1>0 DEF LoadLabels
        <4> QED
          BY Zenon, <1>1, <2>1, <4>1, LoadingStep
      <3> QED
        BY <3>1, <3>2
    <2> QED
      BY <1>1, <2>1, <2>2 DEF BoundInv
  <1>c. LockInv'
    BY Zenon, <1>0, <1>1, <1>2, ThreadAssumption DEF FullInv, LockInv, NULL
  <1>d. CallInv'
    BY Zenon, <1>0, <1>1, <1>2 DEF FullInv, CallInv
  <1>e. InsertInv'
    <2>1. ASSUME NEW u \in Thread, pc'[u] = "insert"
          PROVE  /\ name[node[u]] = file'[u]
                 /\ pin_count[node[u]] = 1
                 /\ node[u] \notin deleted'
                 /\ node[u] # head_
                 /\ \A v \in Thread : /\ (node[v] = node[u]) => (v = u)
                                      /\ node[u] \notin to_delete'[v]
                                      /\ curr'[v] # node[u] /\ prev'[v] # node[u]
                 /\ \A f \in File : cache_map_[f] # node[u]
                 /\ \A m \in Node \cup {Sentinel} : next[m] # node[u]
      <3>1. u # t /\ pc[u] = "insert" /\ node[u] # NULL /\ file'[u] = file[u]
        BY Zenon, <1>1, <1>2, <2>1 DEF FullInv, CallInv
      <3> QED
        BY <1>1, <1>2, <3>1 DEF FullInv, InsertInv
    <2> QED
      BY <1>1, <2>1 DEF InsertInv
  <1>f. LinkInv'
    BY <1>0, <1>1, <1>2 DEF FullInv, TypeInv, LinkInv, DropInv, NULL
  <1>g. MapInv'
    BY <1>0, <1>1, <1>2, <1>3 DEF FullInv, TypeInv, MapInv
  <1>h. PinInv'
    BY ZenonT(60), <1>0, <1>1, <1>2 DEF FullInv, PinInv
  <1>i. DropInv'
    <2>1. \A u \in Thread : \A m \in to_delete'[u] : m \in to_delete[u]
      BY Zenon, <1>2
    <2>2. cache_map_' = cache_map_ /\ name' = name /\ made' = made
      BY Zenon, <1>1
    <2> QED
      BY Zenon, <2>1, <2>2 DEF FullInv, DropInv
  <1>j. NodeInv'
    <2>1. ASSUME NEW m \in Node, m <= made
          PROVE  \/ m \in deleted'
                 \/ \E u \in Thread : m \in to_delete'[u]
                 \/ \E u \in Thread : pc'[u] = "insert" /\ node[u] = m
                 \/ cache_map_[name[m]] = m
      <3>1. \/ m \in deleted
            \/ \E u \in Thread : m \in to_delete[u]
            \/ \E u \in Thread : pc[u] = "insert" /\ node[u] = m
            \/ cache_map_[name[m]] = m
        BY Zenon, <2>1 DEF FullInv, NodeInv
      <3> QED
        BY <1>0, <1>1, <1>2, <3>1
    <2> QED
      BY Zenon, <1>1, <2>1 DEF NodeInv
  <1> QED
    BY Zenon, <1>a, <1>b, <1>c, <1>d, <1>e, <1>f, <1>g, <1>h, <1>i, <1>j DEF FullInv

-----------------------------------------------------------------------------
LEMMA PinsFinite ==
  ASSUME NEW n
  PROVE  IsFiniteSet(PinsOf(n)) /\ Cardinality(PinsOf(n)) \in Nat
  <1>1. PinsOf(n) \in SUBSET Thread
    BY Zenon DEF PinsOf
  <1> QED
    BY Zenon, <1>1, ThreadAssumption, FS_Subset, FS_CardinalityType

LEMMA PinHitInv ==
  ASSUME FullInv, NEW t \in Thread, NEW g \in File, PinHit(t, g)
  PROVE  FullInv'
  <1>n. PICK n \in Node : cache_map_[g] = n
    BY Zenon DEF FullInv, TypeInv, PinHit
  <1>0. /\ pc[t] = "idle" /\ node[t] = NULL /\ TypeInv /\ n # NULL
        /\ name[n] = g /\ n \notin deleted /\ n <= made
        /\ calls < MaxPins /\ rw_m_ = NULL
    BY Zenon, <1>n DEF FullInv, TypeInv, CallInv, MapInv, PinHit, Unlocked
  <1>1. /\ UNCHANGED <<rw_m_, cache_map_, head_, next, name, made, deleted, file, curr, prev,
                       to_delete>>
        /\ node' = [node EXCEPT ![t] = n]
        /\ pin_count' = [pin_count EXCEPT ![n] = pin_count[n] + 1]
        /\ calls' = calls + 1
        /\ pc' = [pc EXCEPT ![t] = "pinned"]
    BY Zenon, <1>n DEF FullInv, TypeInv, PinHit, Goto, eviction
  <1>2. /\ \A u \in Thread : /\ node'[u] = IF u = t THEN n ELSE node[u]
                             /\ pc'[u] = IF u = t THEN "pinned" ELSE pc[u]
        /\ \A m \in Node : pin_count'[m] = IF m = n THEN pin_count[n] + 1 ELSE pin_count[m]
    BY Zenon, <1>0, <1>1 DEF TypeInv
  <1>3. PinsOf(n)' = PinsOf(n) \cup {t} /\ t \notin PinsOf(n)
    BY Zenon, <1>0, <1>2 DEF PinsOf
  <1>4. \A m \in Node \ {n} : PinsOf(m)' = PinsOf(m)
    BY Zenon, <1>0, <1>2 DEF PinsOf, Node, NULL
  <1>5. Cardinality(PinsOf(n)') = Cardinality(PinsOf(n)) + 1
    BY ZenonT(60), <1>3, PinsFinite, FS_AddElement
  <1>a. TypeInv'
    <2>1. pin_count' \in [Node -> Int] /\ calls' \in Nat
      BY <1>0, <1>1 DEF TypeInv
    <2>2. pc' \in [Thread -> PcType] /\ node' \in [Thread -> Node \cup {NULL}]
      BY ZenonT(60), <1>0, <1>1 DEF TypeInv, PcType
    <2> QED
      BY Zenon, <1>0, <1>1, <2>1, <2>2 DEF TypeInv
  <1>b. BoundInv'
    <2>1. TypeInv /\ BoundInv /\ calls \in Nat /\ made \in Nat /\ MaxPins \in Nat
      BY Zenon, BoundsAssumption DEF FullInv, TypeInv
    <2>2. Cardinality(Loading) \in Nat /\ Cardinality(Loading') = Cardinality(Loading)
      <3>1. pc[t] \notin LoadLabels /\ "pinned" \notin LoadLabels
        BY Zenon, <1>0 DEF LoadLabels
      <3> QED
        BY ZenonT(60), <1>1, <2>1, <3>1, LoadingStep
    <2> QED
      BY <1>0, <1>1, <2>1, <2>2 DEF BoundInv
  <1>c. LockInv'
    BY <1>0, <1>1, <1>2, ThreadAssumption DEF FullInv, LockInv, NULL
  <1>d. CallInv'
    BY <1>0, <1>1, <1>2 DEF FullInv, CallInv
  <1>e. InsertInv'
    <2>1. ASSUME NEW u \in Thread, pc'[u] = "insert"
          PROVE  /\ u # t /\ node'[u] = node[u] /\ node[u] # n /\ node[u] \in Node
                 /\ pc[u] = "insert"
      BY <1>n, <1>0, <1>2, <2>1 DEF FullInv, TypeInv, CallInv, InsertInv
    <2>2. ASSUME NEW u \in Thread, pc'[u] = "insert"
          PROVE  /\ pin_count'[node[u]] = 1
                 /\ \A v \in Thread : (node'[v] = node[u]) => (v = u)
      <3>1. /\ pin_count[node[u]] = 1
            /\ \A v \in Thread : (node[v] = node[u]) => (v = u)
        BY Zenon, <2>1, <2>2 DEF FullInv, InsertInv
      <3>2. pin_count'[node[u]] = 1
        BY Zenon, <1>2, <2>1, <2>2, <3>1
      <3>3. \A v \in Thread : (node'[v] = node[u]) => (v = u)
        BY Zenon, <1>2, <2>1, <2>2, <3>1
      <3> QED
        BY Zenon, <3>2, <3>3
    <2> QED
      BY <1>1, <2>1, <2>2 DEF FullInv, InsertInv
  <1>f. LinkInv'
    BY Zenon, <1>1 DEF FullInv, LinkInv
  <1>g. MapInv'
    <2>1. ASSUME NEW f \in File, cache_map_[f] # NULL
          PROVE  pin_count'[cache_map_[f]] = Cardinality(PinsOf(cache_map_[f]))'
      <3>1. cache_map_[f] \in Node /\ pin_count[cache_map_[f]] = Cardinality(PinsOf(cache_map_[f]))
        BY ZenonT(60), <1>0, <2>1 DEF FullInv, TypeInv, MapInv
      <3>2. CASE cache_map_[f] = n
        <4>1. cache_map_'[f] = n
          BY Zenon, <1>1, <3>2
        <4> QED
          BY <1>2, <1>5, <3>1, <3>2, <4>1
      <3>3. CASE cache_map_[f] # n
        <4>1. cache_map_'[f] = cache_map_[f]
          BY Zenon, <1>1
        <4>2. PinsOf(cache_map_[f])' = PinsOf(cache_map_[f])
          BY Zenon, <1>0, <1>2, <3>1, <3>3, <4>1 DEF PinsOf, Node, NULL
        <4> QED
          BY Zenon, <1>2, <3>1, <3>3, <4>1, <4>2
      <3> QED
        BY Zenon, <3>2, <3>3
    <2> QED
      BY Zenon, <1>1, <2>1 DEF FullInv, MapInv
  <1>h. PinInv'
    <2>1. ASSUME NEW u \in Thread, node'[u] # NULL, pc'[u] # "insert"
          PROVE  cache_map_[name[node'[u]]] = node'[u]
      <3>1. CASE u = t
        BY ZenonT(60), <1>n, <1>0, <1>2, <3>1
      <3>2. CASE u # t
        BY Zenon, <1>2, <2>1, <3>2 DEF FullInv, PinInv
      <3> QED
        BY Zenon, <3>1, <3>2
    <2> QED
      BY Zenon, <1>1, <2>1 DEF PinInv
  <1>i. DropInv'
    BY Zenon, <1>1 DEF FullInv, DropInv
  <1>j. NodeInv'
    <2>1. \A u \in Thread : pc[u] = "insert" => pc'[u] = "insert" /\ node'[u] = node[u]
      BY Zenon, <1>0, <1>2
    <2>2. ASSUME NEW m \in Node, m <= made
          PROVE  \/ m \in deleted
                 \/ \E u \in Thread : m \in to_delete[u]
                 \/ \E u \in Thread : pc'[u] = "insert" /\ node'[u] = m
                 \/ cache_map_[name[m]] = m
      BY Zenon, <2>1, <2>2 DEF FullInv, NodeInv
    <2> QED
      BY Zenon, <1>1, <2>2 DEF NodeInv
  <1> QED
    BY Zenon, <1>a, <1>b, <1>c, <1>d, <1>e, <1>f, <1>g, <1>h, <1>i, <1>j DEF FullInv

-----------------------------------------------------------------------------
LEMMA MakeNodeInv ==
  ASSUME FullInv, NEW t \in Thread, MakeNode(t)
  PROVE  FullInv'
  <1>0. pc[t] = "read" /\ node[t] = NULL /\ TypeInv /\ BoundInv /\ file[t] \in File
    BY Zenon DEF FullInv, CallInv, MakeNode
  <1>b. /\ made + 1 \in Node
        /\ Cardinality(Loading') = Cardinality(Loading) - 1
        /\ Cardinality(Loading) \in Nat
    <2>1. pc[t] \in LoadLabels /\ "insert" \notin LoadLabels /\ t \in Loading
      BY Zenon, <1>0 DEF LoadLabels, Loading
    <2>2. /\ Cardinality(Loading') = Cardinality(Loading) - 1
          /\ Cardinality(Loading) \in Nat
      BY ZenonT(60), <1>0, <2>1, LoadingStep DEF MakeNode, Goto
    <2>3. Cardinality(Loading) # 0
      <3>1. Loading \in SUBSET Thread
        BY Zenon DEF Loading
      <3>2. IsFiniteSet(Loading)
        BY Zenon, <3>1, ThreadAssumption, FS_Subset
      <3> QED
        BY Zenon, <2>1, <3>2, FS_EmptySet
    <2>4. made \in Nat /\ calls \in Nat /\ MaxPins \in Nat
      BY Zenon, <1>0, BoundsAssumption DEF TypeInv
    <2> QED
      BY <1>0, <2>2, <2>3, <2>4 DEF BoundInv, Node
  <1>n. PICK n \in Node : n = made + 1 /\ n # NULL
    BY <1>b DEF Node, NULL
  <1>1. /\ UNCHANGED <<rw_m_, cache_map_, head_, next, deleted, calls, file, curr, prev,
                       to_delete>>
        /\ made' = n
        /\ name' = [name EXCEPT ![n] = file[t]]
        /\ pin_count' = [pin_count EXCEPT ![n] = 1]
        /\ node' = [node EXCEPT ![t] = n]
        /\ pc' = [pc EXCEPT ![t] = "insert"]
    BY Zenon, <1>n DEF MakeNode, Goto, totals, eviction
  <1>2. /\ \A u \in Thread : /\ node'[u] = IF u = t THEN n ELSE node[u]
                             /\ pc'[u] = IF u = t THEN "insert" ELSE pc[u]
        /\ \A m \in Node : /\ pin_count'[m] = IF m = n THEN 1 ELSE pin_count[m]
                           /\ name'[m] = IF m = n THEN file[t] ELSE name[m]
    BY Zenon, <1>0, <1>1 DEF TypeInv
  <1>3. \A m \in Node : PinsOf(m)' = PinsOf(m)
    BY <1>0, <1>2 DEF PinsOf, Node, NULL
  (* The new number is nowhere in the cache. *)
  <1>4. /\ n \notin deleted /\ n # head_ /\ n > made /\ made \in Nat /\ n \in Nat
        /\ \A u \in Thread : /\ node[u] # n /\ n \notin to_delete[u]
                             /\ curr[u] # n /\ prev[u] # n
        /\ \A f \in File : cache_map_[f] # n
        /\ \A m \in Node \cup {Sentinel} : next[m] # n
    <2>1. made \in Nat /\ n > made /\ n \in Nat /\ ~ (n <= made)
      BY <1>0, <1>n DEF TypeInv
    <2>2. n \notin deleted /\ n # head_ /\ \A m \in Node \cup {Sentinel} : next[m] # n
      BY Zenon, <2>1 DEF FullInv, LinkInv
    <2>3. \A u \in Thread : node[u] # n /\ n \notin to_delete[u] /\ curr[u] # n /\ prev[u] # n
      BY Zenon, <1>n, <2>1 DEF FullInv, LinkInv, CallInv, DropInv
    <2>4. \A f \in File : cache_map_[f] # n
      BY Zenon, <1>n, <2>1 DEF FullInv, MapInv
    <2> QED
      BY ZenonT(60), <2>1, <2>2, <2>3, <2>4
  <1>5. \A m \in Node : (m <= made) => (m <= n /\ m # n)
    BY <1>4 DEF Node
  <1>a. TypeInv'
    <2>1. pin_count' \in [Node -> Int] /\ name' \in [Node -> File] /\ made' \in Nat
      BY <1>0, <1>1, <1>4 DEF TypeInv
    <2>2. pc' \in [Thread -> PcType] /\ node' \in [Thread -> Node \cup {NULL}]
      BY ZenonT(60), <1>0, <1>1 DEF TypeInv, PcType
    <2> QED
      BY Zenon, <1>0, <1>1, <2>1, <2>2 DEF TypeInv
  <1>bb. BoundInv'
    <2>1. calls \in Nat /\ MaxPins \in Nat
      BY Zenon, <1>0, BoundsAssumption DEF TypeInv
    <2> QED
      BY <1>0, <1>b, <1>n, <1>1, <1>4, <2>1 DEF BoundInv
  <1>c. LockInv'
    BY <1>0, <1>1, <1>2, ThreadAssumption DEF FullInv, LockInv, NULL
  <1>d. CallInv'
    <2>1. \A u \in Thread : node[u] # NULL => node[u] <= n
      BY Zenon, <1>0, <1>5 DEF FullInv, TypeInv, CallInv
    <2>2. n <= n
      BY <1>4
    <2> QED
      BY <1>0, <1>n, <1>1, <1>2, <2>1, <2>2 DEF FullInv, CallInv
  <1>e. InsertInv'
    <2>1. ASSUME NEW u \in Thread, pc'[u] = "insert"
          PROVE  /\ name'[node'[u]] = file[u]
                 /\ pin_count'[node'[u]] = 1
                 /\ node'[u] \notin deleted
                 /\ node'[u] # head_
                 /\ \A v \in Thread : /\ (node'[v] = node'[u]) => (v = u)
                                      /\ node'[u] \notin to_delete[v]
                                      /\ curr[v] # node'[u] /\ prev[v] # node'[u]
                 /\ \A f \in File : cache_map_[f] # node'[u]
                 /\ \A m \in Node \cup {Sentinel} : next[m] # node'[u]
      <3>1. CASE u = t
        BY Zenon, <1>2, <1>4, <3>1
      <3>2. CASE u # t
        <4>1. pc[u] = "insert" /\ node'[u] = node[u] /\ node[u] # n /\ node[u] \in Node
          BY <1>0, <1>2, <1>4, <2>1, <3>2 DEF FullInv, TypeInv, CallInv
        <4>2. \A v \in Thread : (node'[v] = node[u]) => (v = u)
          BY <1>2, <4>1 DEF FullInv, InsertInv
        <4> QED
          BY <1>2, <4>1, <4>2 DEF FullInv, InsertInv
      <3> QED
        BY Zenon, <3>1, <3>2
    <2> QED
      BY <1>1, <2>1 DEF InsertInv
  <1>f. LinkInv'
    <2>1. \A m \in Int : (m <= made) => (m <= n)
      BY <1>4
    <2>2. /\ head_ \in Int /\ deleted \subseteq Int
          /\ \A m \in Node \cup {Sentinel} : next[m] \in Int
          /\ \A u \in Thread : curr[u] \in Int /\ prev[u] \in Int
      BY <1>0 DEF TypeInv, Node, Sentinel, NULL
    <2> QED
      BY ZenonT(60), <1>1, <2>1, <2>2 DEF FullInv, LinkInv
  <1>g. MapInv'
    <2>1. ASSUME NEW f \in File, cache_map_[f] # NULL
          PROVE  /\ cache_map_[f] <= n
                 /\ name'[cache_map_[f]] = f
                 /\ cache_map_[f] \notin deleted
                 /\ \A u \in Thread : cache_map_[f] \notin to_delete[u]
                 /\ pin_count'[cache_map_[f]] = Cardinality(PinsOf(cache_map_[f]))'
      <3>1. cache_map_[f] \in Node /\ cache_map_[f] # n /\ cache_map_'[f] = cache_map_[f]
        BY Zenon, <1>0, <1>1, <1>4, <2>1 DEF TypeInv
      <3>2. PinsOf(cache_map_[f])' = PinsOf(cache_map_[f])
        BY Zenon, <1>0, <1>2, <3>1 DEF PinsOf, Node, NULL
      <3> QED
        BY Zenon, <1>2, <1>5, <2>1, <3>1, <3>2 DEF FullInv, MapInv
    <2> QED
      BY Zenon, <1>1, <2>1 DEF MapInv
  <1>h. PinInv'
    <2>1. ASSUME NEW u \in Thread, node'[u] # NULL, pc'[u] # "insert"
          PROVE  cache_map_[name'[node'[u]]] = node'[u]
      <3>1. u # t /\ node'[u] = node[u] /\ node[u] \in Node /\ node[u] # n /\ pc[u] # "insert"
        BY <1>0, <1>2, <1>4, <2>1 DEF TypeInv
      <3> QED
        BY <1>2, <2>1, <3>1 DEF FullInv, PinInv
    <2> QED
      BY Zenon, <1>1, <2>1 DEF PinInv
  <1>i. DropInv'
    <2>1. \A u \in Thread : \A m \in to_delete[u] : m \in Node /\ m # n /\ name'[m] = name[m]
      BY Zenon, <1>0, <1>2, <1>4 DEF TypeInv
    <2> QED
      BY ZenonT(60), <1>1, <1>5, <2>1 DEF FullInv, DropInv
  <1>j. NodeInv'
    <2>1. \A u \in Thread : pc[u] = "insert" => pc'[u] = "insert" /\ node'[u] = node[u]
      BY Zenon, <1>0, <1>2
    <2>2. ASSUME NEW m \in Node, m <= n
          PROVE  \/ m \in deleted
                 \/ \E u \in Thread : m \in to_delete[u]
                 \/ \E u \in Thread : pc'[u] = "insert" /\ node'[u] = m
                 \/ cache_map_[name'[m]] = m
      <3>1. CASE m = n
        BY Zenon, <1>2, <3>1
      <3>2. CASE m # n
        <4>1. m <= made
          BY <1>n, <1>4, <2>2, <3>2 DEF Node
        <4> QED
          BY ZenonT(60), <1>2, <2>1, <3>2, <4>1 DEF FullInv, NodeInv
      <3> QED
        BY Zenon, <3>1, <3>2
    <2> QED
      BY Zenon, <1>1, <2>2 DEF NodeInv
  <1> QED
    BY Zenon, <1>a, <1>bb, <1>c, <1>d, <1>e, <1>f, <1>g, <1>h, <1>i, <1>j DEF FullInv

LEMMA InsertInvs ==
  ASSUME FullInv, NEW t \in Thread, InsertNode(t) \/ InsertAtDeleted(t)
  PROVE  FullInv'
  <1>n. PICK n \in Node : node[t] = n
    BY Zenon DEF FullInv, TypeInv, CallInv, InsertNode, InsertAtDeleted
  <1>g. PICK g \in File : file[t] = g
    BY Zenon DEF FullInv, CallInv, InsertNode, InsertAtDeleted
  <1>l. PICK label \in {"count", "crashed"} : pc' = [pc EXCEPT ![t] = label]
    BY Zenon DEF InsertNode, InsertAtDeleted, Goto
  <1>0. /\ pc[t] = "insert" /\ rw_m_ = NULL /\ cache_map_[g] = NULL /\ TypeInv /\ n # NULL
        /\ name[n] = g /\ pin_count[n] = 1 /\ n \notin deleted /\ n # head_ /\ n <= made
        /\ \A u \in Thread : /\ (node[u] = n) => (u = t)
                             /\ n \notin to_delete[u] /\ curr[u] # n /\ prev[u] # n
        /\ \A f \in File : cache_map_[f] # n
    BY Zenon, <1>n, <1>g DEF FullInv, CallInv, InsertInv, InsertNode, InsertAtDeleted, Unlocked,
       Node, NULL
  <1>1. /\ UNCHANGED <<rw_m_, name, pin_count, made, deleted, calls, file, node, curr, prev,
                       to_delete>>
        /\ cache_map_' = [cache_map_ EXCEPT ![g] = n]
    BY Zenon, <1>n, <1>g DEF InsertNode, InsertAtDeleted, totals, eviction
  <1>2. /\ \A u \in Thread : pc'[u] = IF u = t THEN label ELSE pc[u]
        /\ \A f \in File : cache_map_'[f] = IF f = g THEN n ELSE cache_map_[f]
    BY Zenon, <1>0, <1>1, <1>l DEF TypeInv
  <1>3. /\ head_' \in {head_, n}
        /\ next' \in [Node \cup {Sentinel} -> Node \cup {NULL}]
        /\ \A m \in Node \cup {Sentinel} : next'[m] \in {next[m], n, NULL}
    BY Zenon, <1>n, <1>0 DEF InsertNode, InsertAtDeleted, nodeInsert, TypeInv
  <1>4. PinsOf(n)' = {t}
    BY ZenonT(60), <1>n, <1>0, <1>1, <1>2, <1>l DEF PinsOf
  <1>5. \A m \in Node \ {n} : PinsOf(m)' = PinsOf(m)
    BY ZenonT(60), <1>n, <1>0, <1>1, <1>2 DEF PinsOf
  (* Nobody is in evict(). *)
  <1>6. \A u \in Thread : to_delete[u] = {}
    BY Zenon, <1>0, ThreadAssumption DEF FullInv, LockInv, NULL
  <1>a. TypeInv'
    <2>1. pc' \in [Thread -> PcType] /\ cache_map_' \in [File -> Node \cup {NULL}]
      BY ZenonT(60), <1>0, <1>1, <1>l DEF TypeInv, PcType
    <2>2. head_' \in Node \cup {Sentinel}
      BY Zenon, <1>0, <1>3 DEF TypeInv
    <2> QED
      BY Zenon, <1>0, <1>1, <1>3, <2>1, <2>2 DEF TypeInv
  <1>b. BoundInv'
    <2>1. pc[t] \notin LoadLabels /\ label \notin LoadLabels
      BY Zenon, <1>0, <1>l DEF LoadLabels
    <2>2. Cardinality(Loading') = Cardinality(Loading)
      BY ZenonT(60), <1>0, <1>l, <2>1, LoadingStep
    <2> QED
      BY Zenon, <1>1, <2>2 DEF FullInv, BoundInv
  <1>c. LockInv'
    BY <1>0, <1>1, <1>2, <1>l, ThreadAssumption DEF FullInv, LockInv, NULL
  <1>d. CallInv'
    BY <1>0, <1>1, <1>2, <1>l DEF FullInv, CallInv
  <1>e. InsertInv'
    <2>1. ASSUME NEW u \in Thread, pc'[u] = "insert"
          PROVE  /\ name[node[u]] = file[u]
                 /\ pin_count[node[u]] = 1
                 /\ node[u] \notin deleted
                 /\ node[u] # head_'
                 /\ \A v \in Thread : /\ (node[v] = node[u]) => (v = u)
                                      /\ node[u] \notin to_delete[v]
                                      /\ curr[v] # node[u] /\ prev[v] # node[u]
                 /\ \A f \in File : cache_map_'[f] # node[u]
                 /\ \A m \in Node \cup {Sentinel} : next'[m] # node[u]
      <3>1. u # t /\ pc[u] = "insert" /\ node[u] # n /\ node[u] # NULL
        BY ZenonT(60), <1>0, <1>2, <1>l, <2>1 DEF FullInv, CallInv
      <3>2. /\ node[u] # head_
            /\ \A f \in File : cache_map_[f] # node[u]
            /\ \A m \in Node \cup {Sentinel} : next[m] # node[u]
        BY Zenon, <3>1 DEF FullInv, InsertInv
      <3>3. node[u] # head_' /\ \A m \in Node \cup {Sentinel} : next'[m] # node[u]
        BY Zenon, <1>3, <3>1, <3>2
      <3>4. \A f \in File : cache_map_'[f] # node[u]
        BY Zenon, <1>2, <3>1, <3>2
      <3> QED
        BY Zenon, <3>1, <3>3, <3>4 DEF FullInv, InsertInv
    <2> QED
      BY <1>1, <2>1 DEF InsertInv
  <1>f. LinkInv'
    <2>1. made \in Nat /\ NULL <= made
      BY <1>0 DEF TypeInv, NULL
    <2>2. head_' <= made /\ \A m \in Node \cup {Sentinel} : next'[m] <= made
      BY Zenon, <1>0, <1>3, <2>1 DEF FullInv, LinkInv
    <2> QED
      BY Zenon, <1>1, <2>2 DEF FullInv, LinkInv
  <1>h. MapInv'
    <2>1. ASSUME NEW f \in File, cache_map_'[f] # NULL
          PROVE  /\ cache_map_'[f] <= made
                 /\ name[cache_map_'[f]] = f
                 /\ cache_map_'[f] \notin deleted
                 /\ \A u \in Thread : cache_map_'[f] \notin to_delete[u]
                 /\ pin_count[cache_map_'[f]] = (Cardinality(PinsOf(cache_map_[f])))'
      <3>1. CASE f = g
        <4>1. cache_map_'[f] = n
          BY Zenon, <1>2, <3>1
        <4>2. Cardinality({t}) = 1
          BY ZenonT(60), FS_Singleton
        <4>3. (PinsOf(cache_map_[f]))' = {t}
          BY <1>n, <1>0, <1>1, <1>2, <1>l, <4>1 DEF PinsOf
        <4> QED
          BY Zenon, <1>0, <3>1, <4>1, <4>2, <4>3
      <3>2. CASE f # g
        <4>1. cache_map_'[f] = cache_map_[f] /\ cache_map_[f] \in Node /\ cache_map_[f] # n
          BY <1>0, <1>2, <2>1, <3>2 DEF TypeInv
        <4>2. (PinsOf(cache_map_[f]))' = PinsOf(cache_map_[f])
          BY <1>n, <1>0, <1>1, <1>2, <4>1 DEF PinsOf
        <4> QED
          BY Zenon, <2>1, <4>1, <4>2 DEF FullInv, MapInv
      <3> QED
        BY Zenon, <3>1, <3>2
    <2> QED
      BY Zenon, <1>1, <2>1 DEF MapInv
  <1>i. PinInv'
    <2>1. ASSUME NEW u \in Thread, node[u] # NULL, pc'[u] # "insert"
          PROVE  cache_map_'[name[node[u]]] = node[u]
      <3>1. CASE u = t
        BY Zenon, <1>n, <1>0, <1>2, <3>1
      <3>2. CASE u # t
        <4>1. cache_map_[name[node[u]]] = node[u] /\ name[node[u]] \in File
          BY <1>0, <1>2, <2>1, <3>2 DEF FullInv, TypeInv, PinInv
        <4> QED
          BY Zenon, <1>0, <1>2, <2>1, <4>1
      <3> QED
        BY Zenon, <3>1, <3>2
    <2> QED
      BY Zenon, <1>1, <2>1 DEF PinInv
  <1>j. DropInv'
    BY Zenon, <1>1, <1>6 DEF DropInv
  <1>k. NodeInv'
    <2>1. ASSUME NEW m \in Node, m <= made
          PROVE  \/ m \in deleted
                 \/ \E u \in Thread : m \in to_delete[u]
                 \/ \E u \in Thread : pc'[u] = "insert" /\ node[u] = m
                 \/ cache_map_'[name[m]] = m
      <3>1. CASE m = n
        BY Zenon, <1>0, <1>2, <3>1
      <3>2. CASE m # n
        <4>1. \/ m \in deleted
              \/ \E u \in Thread : m \in to_delete[u]
              \/ \E u \in Thread : pc[u] = "insert" /\ node[u] = m
              \/ cache_map_[name[m]] = m
          BY Zenon, <2>1 DEF FullInv, NodeInv
        <4>2. \A u \in Thread : (pc[u] = "insert" /\ node[u] = m) => (pc'[u] = "insert")
          BY Zenon, <1>n, <1>2, <3>2
        <4>3. (cache_map_[name[m]] = m) => (cache_map_'[name[m]] = m)
          BY <1>0, <1>2 DEF TypeInv, Node, NULL
        <4> QED
          BY Zenon, <4>1, <4>2, <4>3
      <3> QED
        BY Zenon, <3>1, <3>2
    <2> QED
      BY Zenon, <1>1, <2>1 DEF NodeInv
  <1> QED
    BY Zenon, <1>a, <1>b, <1>c, <1>d, <1>e, <1>f, <1>h, <1>i, <1>j, <1>k DEF FullInv

LEMMA DuplicateLoadInv ==
  ASSUME FullInv, NEW t \in Thread, DuplicateLoad(t)
  PROVE  FullInv'
  <1>n. PICK n \in Node : node[t] = n
    BY Zenon DEF FullInv, TypeInv, CallInv, DuplicateLoad
  <1>0. /\ pc[t] = "insert" /\ rw_m_ = NULL /\ TypeInv /\ n # NULL /\ n <= made
        /\ \A u \in Thread : (node[u] = n) => (u = t)
        /\ \A f \in File : cache_map_[f] # n
    BY Zenon, <1>n DEF FullInv, CallInv, InsertInv, DuplicateLoad, Unlocked, Node, NULL
  <1>1. /\ UNCHANGED <<rw_m_, cache_map_, head_, next, name, pin_count, made, calls, curr, prev,
                       to_delete>>
        /\ deleted' = deleted \cup {n}
        /\ node' = [node EXCEPT ![t] = NULL]
        /\ file' = [file EXCEPT ![t] = NULL]
        /\ pc' = [pc EXCEPT ![t] = "idle"]
    BY Zenon, <1>n DEF DuplicateLoad, CountFailed, ReturnsNothing, Goto, eviction
  <1>2. \A u \in Thread : /\ node'[u] = IF u = t THEN NULL ELSE node[u]
                          /\ file'[u] = IF u = t THEN NULL ELSE file[u]
                          /\ pc'[u] = IF u = t THEN "idle" ELSE pc[u]
    BY Zenon, <1>0, <1>1 DEF TypeInv
  <1>3. \A m \in Node : (PinsOf(m))' = PinsOf(m)
    BY Zenon, <1>0, <1>2 DEF PinsOf
  <1>a. TypeInv'
    <2>1. pc' \in [Thread -> PcType] /\ node' \in [Thread -> Node \cup {NULL}]
      BY ZenonT(60), <1>0, <1>1 DEF TypeInv, PcType
    <2>2. file' \in [Thread -> File \cup {NULL}] /\ deleted' \in SUBSET Node
      BY Zenon, <1>0, <1>1 DEF TypeInv
    <2> QED
      BY Zenon, <1>0, <1>1, <2>1, <2>2 DEF TypeInv
  <1>b. BoundInv'
    <2>1. pc[t] \notin LoadLabels /\ "idle" \notin LoadLabels
      BY Zenon, <1>0 DEF LoadLabels
    <2>2. Cardinality(Loading') = Cardinality(Loading)
      BY ZenonT(60), <1>0, <1>1, <2>1, LoadingStep
    <2> QED
      BY Zenon, <1>1, <2>2 DEF FullInv, BoundInv
  <1>c. LockInv'
    BY <1>0, <1>1, <1>2, ThreadAssumption DEF FullInv, LockInv, NULL
  <1>d. CallInv'
    BY <1>0, <1>1, <1>2 DEF FullInv, CallInv
  <1>e. InsertInv'
    <2>1. ASSUME NEW u \in Thread, pc'[u] = "insert"
          PROVE  /\ u # t /\ pc[u] = "insert" /\ node'[u] = node[u] /\ file'[u] = file[u]
                 /\ node[u] \notin deleted'
                 /\ \A v \in Thread : (node'[v] = node[u]) => (v = u)
      <3>1. u # t /\ pc[u] = "insert" /\ node'[u] = node[u] /\ file'[u] = file[u]
        BY Zenon, <1>0, <1>2, <2>1
      <3>2. node[u] # n /\ node[u] # NULL /\ node[u] \notin deleted
        BY ZenonT(60), <1>0, <3>1 DEF FullInv, CallInv, InsertInv
      <3>3. \A v \in Thread : (node'[v] = node[u]) => (v = u)
        BY <1>2, <3>1, <3>2 DEF FullInv, InsertInv
      <3> QED
        BY Zenon, <1>1, <3>1, <3>2, <3>3
    <2> QED
      BY <1>1, <2>1 DEF FullInv, InsertInv
  <1>f. LinkInv'
    BY Zenon, <1>0, <1>1 DEF FullInv, LinkInv
  <1>g. MapInv'
    <2>1. ASSUME NEW f \in File, cache_map_[f] # NULL
          PROVE  /\ cache_map_[f] \notin deleted'
                 /\ pin_count[cache_map_[f]] = (Cardinality(PinsOf(cache_map_[f])))'
      <3>1. cache_map_[f] \in Node /\ cache_map_'[f] = cache_map_[f] /\ cache_map_[f] # n
        BY Zenon, <1>0, <1>1, <2>1 DEF TypeInv
      <3>2. (PinsOf(cache_map_[f]))' = PinsOf(cache_map_[f])
        BY Zenon, <1>0, <1>2, <3>1 DEF PinsOf, Node, NULL
      <3> QED
        BY Zenon, <1>1, <2>1, <3>1, <3>2 DEF FullInv, MapInv
    <2> QED
      BY Zenon, <1>1, <2>1 DEF FullInv, MapInv
  <1>h. PinInv'
    BY <1>1, <1>2 DEF FullInv, PinInv
  <1>i. DropInv'
    BY Zenon, <1>1 DEF FullInv, DropInv
  <1>j. NodeInv'
    <2>1. \A u \in Thread : (u # t /\ pc[u] = "insert") => (pc'[u] = "insert" /\ node'[u] = node[u])
      BY Zenon, <1>2
    <2> QED
      BY <1>n, <1>1, <2>1 DEF FullInv, NodeInv
  <1> QED
    BY Zenon, <1>a, <1>b, <1>c, <1>d, <1>e, <1>f, <1>g, <1>h, <1>i, <1>j DEF FullInv

LEMMA UnpinInv ==
  ASSUME FullInv, NEW t \in Thread, Unpin(t)
  PROVE  FullInv'
  <1>n. PICK n \in Node : node[t] = n
    BY Zenon DEF FullInv, TypeInv, CallInv, Unpin
  <1>0. /\ pc[t] = "pinned" /\ rw_m_ = NULL /\ TypeInv /\ n # NULL
        /\ name[n] \in File /\ cache_map_[name[n]] = n
    BY <1>n DEF FullInv, TypeInv, PinInv, Unpin, Unlocked, Node, NULL
  (* The name finds the node, and its count has this pin. *)
  <1>3. /\ n \notin deleted
        /\ pin_count[n] = Cardinality(PinsOf(n)) /\ pin_count[n] \in Int
        /\ t \in PinsOf(n)
    BY <1>n, <1>0 DEF FullInv, TypeInv, MapInv, PinsOf
  <1>4. pin_count[n] # 0
    BY Zenon, <1>3, PinsFinite, FS_EmptySet
  <1>1. /\ UNCHANGED <<rw_m_, cache_map_, head_, next, name, made, deleted, calls, file, curr,
                       prev, to_delete>>
        /\ pin_count' = [pin_count EXCEPT ![n] = pin_count[n] - 1]
        /\ node' = [node EXCEPT ![t] = NULL]
        /\ pc' = [pc EXCEPT ![t] = "idle"]
    BY Zenon, <1>n, <1>0, <1>3, <1>4 DEF Unpin, Goto, totals, eviction
  <1>2. /\ \A u \in Thread : /\ node'[u] = IF u = t THEN NULL ELSE node[u]
                             /\ pc'[u] = IF u = t THEN "idle" ELSE pc[u]
        /\ \A m \in Node : pin_count'[m] = IF m = n THEN pin_count[n] - 1 ELSE pin_count[m]
    BY Zenon, <1>0, <1>1 DEF TypeInv
  <1>5. Cardinality(PinsOf(n) \ {t}) = Cardinality(PinsOf(n)) - 1
    BY ZenonT(60), <1>3, PinsFinite, FS_RemoveElement
  <1>a. TypeInv'
    <2>1. pin_count' \in [Node -> Int]
      BY <1>0, <1>1 DEF TypeInv
    <2>2. pc' \in [Thread -> PcType] /\ node' \in [Thread -> Node \cup {NULL}]
      BY ZenonT(60), <1>0, <1>1 DEF TypeInv, PcType
    <2> QED
      BY Zenon, <1>0, <1>1, <2>1, <2>2 DEF TypeInv
  <1>b. BoundInv'
    <2>1. pc[t] \notin LoadLabels /\ "idle" \notin LoadLabels
      BY Zenon, <1>0 DEF LoadLabels
    <2>2. Cardinality(Loading') = Cardinality(Loading)
      BY ZenonT(60), <1>0, <1>1, <2>1, LoadingStep
    <2> QED
      BY Zenon, <1>1, <2>2 DEF FullInv, BoundInv
  <1>c. LockInv'
    BY <1>0, <1>1, <1>2, ThreadAssumption DEF FullInv, LockInv, NULL
  <1>d. CallInv'
    BY <1>0, <1>1, <1>2 DEF FullInv, CallInv
  <1>e. InsertInv'
    <2>1. ASSUME NEW u \in Thread, pc'[u] = "insert"
          PROVE  /\ pc[u] = "insert" /\ node'[u] = node[u]
                 /\ pin_count'[node[u]] = 1
                 /\ \A v \in Thread : (node'[v] = node[u]) => (v = u)
      <3>1. u # t /\ pc[u] = "insert" /\ node'[u] = node[u]
        BY Zenon, <1>0, <1>2, <2>1
      <3>2. node[u] # n /\ node[u] \in Node /\ node[u] # NULL
        BY <1>0, <3>1 DEF FullInv, TypeInv, CallInv, InsertInv
      <3> QED
        BY <1>2, <3>1, <3>2 DEF FullInv, InsertInv
    <2> QED
      BY <1>1, <2>1 DEF FullInv, InsertInv
  <1>f. LinkInv'
    BY Zenon, <1>1 DEF FullInv, LinkInv
  <1>g. MapInv'
    <2>1. ASSUME NEW f \in File, cache_map_[f] # NULL
          PROVE  pin_count'[cache_map_[f]] = (Cardinality(PinsOf(cache_map_[f])))'
      <3>1. cache_map_[f] \in Node /\ cache_map_'[f] = cache_map_[f]
            /\ pin_count[cache_map_[f]] = Cardinality(PinsOf(cache_map_[f]))
        BY ZenonT(60), <1>0, <1>1, <2>1 DEF FullInv, TypeInv, MapInv
      <3>2. CASE cache_map_[f] = n
        <4>1. (PinsOf(cache_map_[f]))' = PinsOf(n) \ {t}
          BY <1>0, <1>2, <3>1, <3>2 DEF PinsOf
        <4> QED
          BY ZenonT(60), <1>2, <1>3, <1>5, <3>1, <3>2, <4>1
      <3>3. CASE cache_map_[f] # n
        <4>1. (PinsOf(cache_map_[f]))' = PinsOf(cache_map_[f])
          BY <1>n, <1>0, <1>2, <3>1, <3>3 DEF PinsOf
        <4> QED
          BY Zenon, <1>2, <3>1, <3>3, <4>1
      <3> QED
        BY Zenon, <3>2, <3>3
    <2> QED
      BY ZenonT(60), <1>1, <2>1 DEF FullInv, MapInv
  <1>h. PinInv'
    BY <1>1, <1>2 DEF FullInv, PinInv
  <1>i. DropInv'
    BY Zenon, <1>1 DEF FullInv, DropInv
  <1>j. NodeInv'
    <2>1. \A u \in Thread : pc[u] = "insert" => pc'[u] = "insert" /\ node'[u] = node[u]
      BY Zenon, <1>0, <1>2
    <2> QED
      BY <1>1, <2>1 DEF FullInv, NodeInv
  <1> QED
    BY Zenon, <1>a, <1>b, <1>c, <1>d, <1>e, <1>f, <1>g, <1>h, <1>i, <1>j DEF FullInv

-----------------------------------------------------------------------------
(* The destructor runs when nobody has a pin: only the counts matter. *)
LEMMA DestroyInv ==
  ASSUME FullInv, Destroy
  PROVE  PinnedStaysCached'
  <1>1. \A n \in Node : PinsOf(n) = {} /\ (PinsOf(n))' = {}
    BY Zenon DEF PinsOf, Destroy
  <1>2. \A f \in File : (cache_map_'[f] # NULL) =>
          pin_count'[cache_map_'[f]] = (Cardinality(PinsOf(cache_map_[f])))'
    <2>1. ASSUME NEW f \in File, cache_map_[f] # NULL
          PROVE  pin_count[cache_map_[f]] = (Cardinality(PinsOf(cache_map_[f])))'
      <3>1. cache_map_'[f] = cache_map_[f]
        BY Zenon DEF Destroy
      <3>2. PinsOf(cache_map_[f]) = (PinsOf(cache_map_[f]))'
        BY Zenon, <3>1 DEF PinsOf, Destroy
      <3> QED
        BY Zenon, <2>1, <3>2 DEF FullInv, MapInv
    <2> QED
      BY Zenon, <2>1 DEF Destroy
  <1> QED
    BY Zenon, <1>1, <1>2 DEF PinnedStaysCached

LEMMA NextInv == CacheInv /\ [Next]_vars => CacheInv'
  <1> SUFFICES ASSUME CacheInv, [Next]_vars PROVE CacheInv'
    OBVIOUS
  <1>1. CASE Next
    <2>1. FullInv /\ ~destroyed
      BY Zenon, <1>1 DEF CacheInv, Next
    <2>2. ASSUME FullInv' PROVE CacheInv'
      <3>1. PinnedStaysCached'
        BY <2>2, InvImpliesPinned, PTL
      <3> QED
        BY Zenon, <2>2, <3>1 DEF CacheInv
    <2>3. CASE \E t \in Thread : \E f \in File : PinHit(t, f)
      BY Zenon, <2>1, <2>2, <2>3, PinHitInv
    <2>4. CASE \E t \in Thread : \/ \E f \in File : PinMiss(t, f)
                                 \/ OpenFails(t) \/ CheckSpace(t) \/ ReadFails(t)
                                 \/ ReadsForever(t) \/ CountBytes(t) \/ EvictEmpty(t)
      BY Zenon, <2>1, <2>2, <2>4, CallSteps
    <2>5. CASE \E t \in Thread : EvictStart(t) \/ SkipPinned(t) \/ VisitDeleted(t)
      BY Zenon, <2>1, <2>2, <2>5, WalkSteps
    <2>6. CASE \E t \in Thread : MakeNode(t) \/ EvictNode(t) \/ EvictEnd(t)
      BY Zenon, <2>1, <2>2, <2>6, MakeNodeInv, EvictNodeInv, EvictEndInv
    <2>7. CASE \E t \in Thread : InsertNode(t) \/ InsertAtDeleted(t) \/ DuplicateLoad(t)
      BY Zenon, <2>1, <2>2, <2>7, InsertInvs, DuplicateLoadInv
    <2>8. CASE \E t \in Thread : Unpin(t)
      BY Zenon, <2>1, <2>2, <2>8, UnpinInv
    <2>9. CASE Destroy
      <3>1. PinnedStaysCached' /\ destroyed'
        BY ZenonT(60), <2>1, <2>9, DestroyInv DEF Destroy
      <3> QED
        BY Zenon, <3>1 DEF CacheInv
    <2> QED
      BY Zenon, <1>1, <2>3, <2>4, <2>5, <2>6, <2>7, <2>8, <2>9 DEF Next, Load, Evict
  <1>2. CASE UNCHANGED vars
    <2>1. /\ UNCHANGED <<rw_m_, cache_map_, head_, next, name, pin_count, made, deleted>>
          /\ UNCHANGED <<bytes_used_, calls, pc, file, node, curr, prev, bytes_to_evict>>
          /\ UNCHANGED <<to_delete, fs, destroyed>>
      BY Zenon, <1>2 DEF vars
    <2>2. TypeInv => TypeInv'
      BY Zenon, <2>1 DEF TypeInv
    <2>3. BoundInv => BoundInv'
      BY Zenon, <2>1 DEF BoundInv, Loading
    <2>4. /\ LockInv => LockInv'
          /\ CallInv => CallInv'
      BY Zenon, <2>1 DEF LockInv, CallInv
    <2>5. InsertInv => InsertInv'
      BY Zenon, <2>1 DEF InsertInv
    <2>6. LinkInv => LinkInv'
      BY Zenon, <2>1 DEF LinkInv
    <2>7. MapInv => MapInv'
      BY Zenon, <2>1 DEF MapInv, PinsOf
    <2>8. /\ PinInv => PinInv'
          /\ DropInv => DropInv'
      BY Zenon, <2>1 DEF PinInv, DropInv
    <2>9. NodeInv => NodeInv'
      BY Zenon, <2>1 DEF NodeInv
    <2>10. PinnedStaysCached => PinnedStaysCached'
      BY Zenon, <2>1 DEF PinnedStaysCached, PinsOf
    <2> QED
      BY Zenon, <2>1, <2>2, <2>3, <2>4, <2>5, <2>6, <2>7, <2>8, <2>9, <2>10 DEF CacheInv, FullInv
  <1> QED
    BY Zenon, <1>1, <1>2

(* A pinned file is never evicted (file_cache.cpp:74-75): for any threads, *)
(* files, file sizes and cache size, and however pins, loads, evictions    *)
(* and unpins interleave, a node with a pin is not deleted, the map finds  *)
(* it, and its pin count is the number of its pins.                        *)
THEOREM PinnedTheorem == Spec => []PinnedStaysCached
  <1>1. CacheInv => PinnedStaysCached
    BY Zenon DEF CacheInv
  <1> QED
    BY InitInv, NextInv, <1>1, PTL DEF Spec

-----------------------------------------------------------------------------
(* Induction: a set of numbers with 0 and every successor has them all. *)
LEMMA NatSet ==
  ASSUME NEW T \in SUBSET Nat, 0 \in T, \A n \in T : n + 1 \in T
  PROVE  T = Nat
  <1> SUFFICES ASSUME Nat \ T # {} PROVE FALSE
    BY Zenon
  <1>1. PICK x \in Nat \ T : \A y \in Nat \ T : ~(<<y, x>> \in OpToRel(<, Nat))
    <2>1. Nat \ T \subseteq Nat
      OBVIOUS
    <2> QED
      BY ONLY Zenon, <2>1, Nat \ T # {}, NatLessThanWellFounded, WFMin
  <1>2. \A y \in Nat \ T : ~(y < x)
    BY Zenon, <1>1 DEF OpToRel
  <1>3. x # 0 /\ x - 1 \in Nat /\ x - 1 < x
    OBVIOUS
  <1>4. x - 1 \in T
    BY <1>2, <1>3
  <1> QED
    BY <1>3, <1>4

-----------------------------------------------------------------------------
(* SumFunctionOnSet, by the recursion that defines it: an element that     *)
(* CHOOSE picks, and the sum of the others.                                *)
Any(s) == CHOOSE x \in s : TRUE
SumStep(g, f, s) == IF s = {} THEN 0 ELSE g[Any(s)] + f[s \ {Any(s)}]
IsSum(g, S, f) == f = [s \in SUBSET S |-> SumStep(g, f, s)]

LEMMA SumIs ==
  ASSUME NEW g, NEW S
  PROVE  SumFunctionOnSet(g, S) = (CHOOSE f : IsSum(g, S, f))[S]
  BY DEF SumFunctionOnSet, FoldFunctionOnSet, MapThenFoldSet, IsSum, SumStep, Any

LEMMA AnyIn == ASSUME NEW s, s # {} PROVE Any(s) \in s
  BY Zenon DEF Any

UpTo(S, n) == {s \in SUBSET S : Cardinality(s) <= n}

(* A function that satisfies the recursion exists on every finite set ...  *)
LEMMA SumExists ==
  ASSUME NEW g, NEW S, IsFiniteSet(S)
  PROVE  \E f : IsSum(g, S, f)
  <1> DEFINE T == {n \in Nat : \E f : f = [s \in UpTo(S, n) |-> SumStep(g, f, s)]}
  <1>0. \A s \in SUBSET S : /\ IsFiniteSet(s) /\ Cardinality(s) \in Nat
                            /\ Cardinality(s) <= Cardinality(S)
    BY FS_Subset, FS_CardinalityType
  <1>1. ASSUME NEW s \in SUBSET S, s # {}
        PROVE  s \ {Any(s)} \in SUBSET S /\ Cardinality(s \ {Any(s)}) = Cardinality(s) - 1
    BY Zenon, <1>0, <1>1, AnyIn, FS_RemoveElement
  <1>2. 0 \in T
    <2>1. \A s \in UpTo(S, 0) : s = {}
      BY <1>0, FS_EmptySet DEF UpTo
    <2>2. \A s \in UpTo(S, 0) : SumStep(g, [r \in UpTo(S, 0) |-> 0], s) = 0
      BY <2>1 DEF SumStep
    <2>3. [s \in UpTo(S, 0) |-> 0] = [s \in UpTo(S, 0) |-> SumStep(g, [r \in UpTo(S, 0) |-> 0], s)]
      BY <2>2
    <2> QED
      BY <2>3
  <1>3. ASSUME NEW n \in T PROVE n + 1 \in T
    <2>1. PICK f : f = [s \in UpTo(S, n) |-> SumStep(g, f, s)]
      OBVIOUS
    <2>h. PICK h : h = [s \in UpTo(S, n + 1) |-> SumStep(g, f, s)]
      BY Zenon
    <2>2. ASSUME NEW s \in UpTo(S, n + 1) PROVE SumStep(g, f, s) = SumStep(g, h, s)
      <3>1. CASE s = {}
        BY <3>1 DEF SumStep
      <3>2. CASE s # {}
        <4> DEFINE r == s \ {Any(s)}
        <4>1. r \in UpTo(S, n) /\ r \in UpTo(S, n + 1)
          BY <1>0, <1>1, <3>2 DEF UpTo
        <4>2. f[r] = h[r]
          BY <2>1, <2>h, <4>1
        <4> QED
          BY <3>2, <4>2 DEF SumStep
      <3> QED
        BY <3>1, <3>2
    <2>3. h = [s \in UpTo(S, n + 1) |-> SumStep(g, h, s)]
      BY <2>h, <2>2
    <2> QED
      BY <2>3
  <1>4. T = Nat
    <2>1. T \in SUBSET Nat
      OBVIOUS
    <2> HIDE DEF T
    <2> QED
      BY ONLY <1>2, <1>3, <2>1, NatSet
  <1>5. UpTo(S, Cardinality(S)) = SUBSET S
    BY <1>0 DEF UpTo
  <1>6. Cardinality(S) \in T
    BY <1>0, <1>4
  <1> QED
    BY Zenon, <1>5, <1>6 DEF IsSum

(* The sum of no numbers, and of some. *)
LEMMA SumUnfold ==
  ASSUME NEW g, NEW S, IsFiniteSet(S)
  PROVE  \E f : /\ IsSum(g, S, f) 
               /\ SumFunctionOnSet(g, S) = f[S]
  BY SumIs, SumExists

(* ... and two of them agree where both are defined.                       *)
LEMMA SumUnique ==
  ASSUME NEW g, NEW S, IsFiniteSet(S), NEW R \in SUBSET S,
         NEW f, NEW h, IsSum(g, S, f), IsSum(g, R, h)
  PROVE  h[R] = f[R]
  <1> DEFINE T == {n \in Nat : \A s \in UpTo(R, n) : h[s] = f[s]}
  <1>0. \A s \in SUBSET R : /\ IsFiniteSet(s) /\ Cardinality(s) \in Nat /\ s \in SUBSET S
                            /\ h[s] = SumStep(g, h, s) /\ f[s] = SumStep(g, f, s)
    <2>1. \A s \in SUBSET R : s \in SUBSET S /\ h[s] = SumStep(g, h, s)
      BY DEF IsSum
    <2>2. \A s \in SUBSET S : f[s] = SumStep(g, f, s)
      BY DEF IsSum
    <2> QED
      BY Zenon, <2>1, <2>2, FS_Subset, FS_CardinalityType
  <1>1. ASSUME NEW s \in SUBSET R, s # {}
        PROVE  s \ {Any(s)} \in SUBSET R /\ Cardinality(s \ {Any(s)}) = Cardinality(s) - 1
    BY Zenon, <1>0, <1>1, AnyIn, FS_RemoveElement
  <1>2. 0 \in T
    <2>1. \A s \in UpTo(R, 0) : s = {} /\ s \in SUBSET R
      BY <1>0, FS_EmptySet DEF UpTo
    <2> QED
      BY Zenon, <1>0, <2>1 DEF SumStep
  <1>3. ASSUME NEW n \in T PROVE n + 1 \in T
    <2>1. ASSUME NEW s \in UpTo(R, n + 1) PROVE h[s] = f[s]
      <3>0. s \in SUBSET R /\ Cardinality(s) <= n + 1
        BY DEF UpTo
      <3>1. CASE s = {}
        BY Zenon, <1>0, <3>0, <3>1 DEF SumStep
      <3>2. CASE s # {}
        <4>1. s \ {Any(s)} \in UpTo(R, n)
          BY <1>0, <1>1, <3>0, <3>2 DEF UpTo
        <4>2. h[s \ {Any(s)}] = f[s \ {Any(s)}]
          BY <4>1
        <4> QED
          BY Zenon, <1>0, <3>0, <3>2, <4>2 DEF SumStep
      <3> QED
        BY <3>1, <3>2
    <2> QED
      BY <2>1
  <1>4. T = Nat
    <2>1. T \in SUBSET Nat
      OBVIOUS
    <2> HIDE DEF T
    <2> QED
      BY ONLY <1>2, <1>3, <2>1, NatSet
  <1>5. R \in UpTo(R, Cardinality(R))
    BY <1>0 DEF UpTo
  <1> QED
    BY <1>0, <1>4, <1>5

LEMMA SumEmpty == ASSUME NEW g PROVE SumFunctionOnSet(g, {}) = 0
  <1>1. PICK f : IsSum(g, {}, f) /\ SumFunctionOnSet(g, {}) = f[{}]
    BY SumUnfold, FS_EmptySet
  <1> QED
    BY <1>1 DEF IsSum, SumStep

LEMMA SumAny ==
  ASSUME NEW g, NEW S, IsFiniteSet(S), S # {}
  PROVE  SumFunctionOnSet(g, S) = g[Any(S)] + SumFunctionOnSet(g, S \ {Any(S)})
  <1>1. PICK f : IsSum(g, S, f) /\ SumFunctionOnSet(g, S) = f[S]
    BY SumUnfold
  <1>2. IsFiniteSet(S \ {Any(S)}) /\ S \ {Any(S)} \in SUBSET S
    BY FS_Subset
  <1>3. PICK h : IsSum(g, S \ {Any(S)}, h) /\ SumFunctionOnSet(g, S \ {Any(S)}) = h[S \ {Any(S)}]
    BY <1>2, SumUnfold
  <1>4. h[S \ {Any(S)}] = f[S \ {Any(S)}]
    BY <1>1, <1>2, <1>3, SumUnique
  <1>5. f[S] = SumStep(g, f, S)
    BY <1>1 DEF IsSum
  <1> QED
    BY <1>1, <1>3, <1>4, <1>5 DEF SumStep

(* What holds for the empty set, and for a set if it does without one of   *)
(* its elements, holds.                                                    *)
LEMMA FiniteSubsets ==
  ASSUME NEW S, IsFiniteSet(S), NEW P \in SUBSET SUBSET S, {} \in P,
         \A s \in SUBSET S : (s # {} /\ \A x \in s : s \ {x} \in P) => (s \in P)
  PROVE  S \in P
  <1> DEFINE T == {n \in Nat : UpTo(S, n) \subseteq P}
  <1>0. \A s \in SUBSET S : IsFiniteSet(s) /\ Cardinality(s) \in Nat
    BY FS_Subset, FS_CardinalityType
  <1>2. 0 \in T
    <2>1. \A s \in UpTo(S, 0) : s = {}
      BY <1>0, FS_EmptySet DEF UpTo
    <2> QED
      BY Zenon, <2>1
  <1>3. ASSUME NEW n \in T PROVE n + 1 \in T
    <2>1. ASSUME NEW s \in UpTo(S, n + 1) PROVE s \in P
      <3>0. s \in SUBSET S /\ Cardinality(s) <= n + 1 /\ IsFiniteSet(s) /\ Cardinality(s) \in Nat
        BY <1>0 DEF UpTo
      <3>1. CASE s = {}
        BY Zenon, <3>1
      <3>2. CASE s # {}
        <4>1. ASSUME NEW x \in s PROVE s \ {x} \in P
          <5>1. Cardinality(s \ {x}) = Cardinality(s) - 1 /\ s \ {x} \in SUBSET S
            BY Zenon, <3>0, FS_RemoveElement
          <5>2. s \ {x} \in UpTo(S, n)
            BY <3>0, <5>1 DEF UpTo
          <5> QED
            BY <5>2
        <4> QED
          BY Zenon, <3>0, <3>2, <4>1
      <3> QED
        BY Zenon, <3>1, <3>2
    <2> QED
      BY <2>1
  <1>4. T = Nat
    <2>1. T \in SUBSET Nat
      BY Zenon
    <2> HIDE DEF T
    <2> QED
      BY ONLY Zenon, <1>2, <1>3, <2>1, NatSet
  <1>5. S \in UpTo(S, Cardinality(S)) /\ Cardinality(S) \in T
    BY <1>0, <1>4 DEF UpTo
  <1> QED
    BY Zenon, <1>5

LEMMA SumType ==
  ASSUME NEW D, NEW g \in [D -> Int], NEW S \in SUBSET D, IsFiniteSet(S)
  PROVE  SumFunctionOnSet(g, S) \in Int
  <1> DEFINE P == {s \in SUBSET S : SumFunctionOnSet(g, s) \in Int}
  <1>1. P \in SUBSET SUBSET S /\ {} \in P
    BY SumEmpty
  <1>2. ASSUME NEW s \in SUBSET S, s # {}, \A x \in s : s \ {x} \in P PROVE s \in P
    <2>1. IsFiniteSet(s) /\ Any(s) \in s /\ Any(s) \in S
      BY Zenon, <1>2, AnyIn, FS_Subset
    <2>2. SumFunctionOnSet(g, s) = g[Any(s)] + SumFunctionOnSet(g, s \ {Any(s)})
      BY Zenon, <1>2, <2>1, SumAny
    <2>3. SumFunctionOnSet(g, s \ {Any(s)}) \in Int
      BY Zenon, <1>2, <2>1
    <2>4. g[Any(s)] \in Int
      BY <2>1
    <2> QED
      BY <2>2, <2>3, <2>4
  <1> HIDE DEF P
  <1>3. S \in P
    BY Zenon, <1>1, <1>2, FiniteSubsets
  <1> QED
    BY Zenon, <1>3 DEF P

(* Any element may be the first one. *)
LEMMA SumRemove ==
  ASSUME NEW D, NEW g \in [D -> Int], NEW S \in SUBSET D, IsFiniteSet(S), NEW x \in S
  PROVE  SumFunctionOnSet(g, S) = g[x] + SumFunctionOnSet(g, S \ {x})
  <1> DEFINE P == {s \in SUBSET S : \A y \in s :
                     SumFunctionOnSet(g, s) = g[y] + SumFunctionOnSet(g, s \ {y})}
  <1>1. P \in SUBSET SUBSET S /\ {} \in P
    BY Zenon
  <1>2. ASSUME NEW s \in SUBSET S, s # {}, \A z \in s : s \ {z} \in P PROVE s \in P
    <2> SUFFICES ASSUME NEW y \in s
                 PROVE  SumFunctionOnSet(g, s) = g[y] + SumFunctionOnSet(g, s \ {y})
      BY Zenon
    <2> DEFINE a == Any(s)
    <2>1. IsFiniteSet(s) /\ a \in s /\ a \in S /\ y \in S /\ IsFiniteSet((s \ {a}) \ {y})
      BY Zenon, <1>2, AnyIn, FS_Subset
    <2>2. SumFunctionOnSet(g, s) = g[a] + SumFunctionOnSet(g, s \ {a})
      BY Zenon, <1>2, <2>1, SumAny
    <2>3. CASE a = y
      BY Zenon, <2>2, <2>3
    <2>4. CASE a # y
      <3>1. SumFunctionOnSet(g, s \ {a}) = g[y] + SumFunctionOnSet(g, (s \ {a}) \ {y})
        BY Zenon, <1>2, <2>1, <2>4
      <3>2. SumFunctionOnSet(g, s \ {y}) = g[a] + SumFunctionOnSet(g, (s \ {y}) \ {a})
        BY Zenon, <1>2, <2>1, <2>4
      <3>3. (s \ {y}) \ {a} = (s \ {a}) \ {y}
        BY Zenon
      <3>4. SumFunctionOnSet(g, (s \ {a}) \ {y}) \in Int /\ g[a] \in Int /\ g[y] \in Int
        <4>1. (s \ {a}) \ {y} \in SUBSET D
          BY Zenon
        <4>2. SumFunctionOnSet(g, (s \ {a}) \ {y}) \in Int
          BY Zenon, <2>1, <4>1, SumType
        <4> QED
          BY <2>1, <4>2
      <3>5. \A i, j, k \in Int : i + (j + k) = j + (i + k)
        OBVIOUS
      <3> DEFINE c == SumFunctionOnSet(g, (s \ {a}) \ {y})
      <3>6. SumFunctionOnSet(g, s) = g[a] + (g[y] + c)
        BY ONLY Zenon, <2>2, <3>1
      <3>7. SumFunctionOnSet(g, s \ {y}) = g[a] + c
        BY ONLY Zenon, <3>2, <3>3
      <3>8. g[a] + (g[y] + c) = g[y] + (g[a] + c)
        BY ONLY Zenon, <3>4, <3>5
      <3> QED
        BY ONLY Zenon, <3>6, <3>7, <3>8
    <2> QED
      BY Zenon, <2>3, <2>4
  <1> HIDE DEF P
  <1>3. S \in P
    BY Zenon, <1>1, <1>2, FiniteSubsets
  <1> QED
    BY Zenon, <1>3 DEF P

LEMMA SumSame ==
  ASSUME NEW g, NEW h, NEW S, IsFiniteSet(S), \A x \in S : g[x] = h[x]
  PROVE  SumFunctionOnSet(g, S) = SumFunctionOnSet(h, S)
  <1> DEFINE P == {s \in SUBSET S : SumFunctionOnSet(g, s) = SumFunctionOnSet(h, s)}
  <1>1. P \in SUBSET SUBSET S /\ {} \in P
    BY Zenon, SumEmpty
  <1>2. ASSUME NEW s \in SUBSET S, s # {}, \A x \in s : s \ {x} \in P PROVE s \in P
    <2>1. IsFiniteSet(s) /\ Any(s) \in s /\ Any(s) \in S
      BY Zenon, <1>2, AnyIn, FS_Subset
    <2>2. /\ SumFunctionOnSet(g, s) = g[Any(s)] + SumFunctionOnSet(g, s \ {Any(s)})
          /\ SumFunctionOnSet(h, s) = h[Any(s)] + SumFunctionOnSet(h, s \ {Any(s)})
      BY Zenon, <1>2, <2>1, SumAny
    <2>3. SumFunctionOnSet(g, s \ {Any(s)}) = SumFunctionOnSet(h, s \ {Any(s)})
      BY Zenon, <1>2, <2>1
    <2> QED
      BY Zenon, <2>1, <2>2, <2>3
  <1> HIDE DEF P
  <1>3. S \in P
    BY Zenon, <1>1, <1>2, FiniteSubsets
  <1> QED
    BY Zenon, <1>3 DEF P

(* The sum of what is left of a set is the difference of the sums. *)
LEMMA SumMinus ==
  ASSUME NEW D, NEW g \in [D -> Int], NEW S \in SUBSET D, IsFiniteSet(S), NEW R \in SUBSET S
  PROVE  SumFunctionOnSet(g, S \ R) = SumFunctionOnSet(g, S) - SumFunctionOnSet(g, R)
  <1> DEFINE P == {s \in SUBSET R : SumFunctionOnSet(g, S \ s)
                                      = SumFunctionOnSet(g, S) - SumFunctionOnSet(g, s)}
  <1>0. IsFiniteSet(R) /\ SumFunctionOnSet(g, S) \in Int
    BY Zenon, FS_Subset, SumType
  <1>1. P \in SUBSET SUBSET R /\ {} \in P
    <2>1. S \ {} = S
      BY Zenon
    <2> QED
      BY <1>0, <2>1, SumEmpty
  <1>2. ASSUME NEW s \in SUBSET R, s # {}, \A x \in s : s \ {x} \in P PROVE s \in P
    <2>0. PICK a \in s : TRUE
      BY Zenon, <1>2
    <2>1. a \in s /\ a \in S /\ s \in SUBSET D /\ IsFiniteSet(s) /\ IsFiniteSet(s \ {a})
      BY Zenon, FS_Subset
    <2>u. PICK U : U = S \ (s \ {a})
      BY Zenon
    <2>2. U \in SUBSET D /\ IsFiniteSet(U) /\ a \in U
      BY Zenon, <2>1, <2>u, FS_Subset
    <2>3. SumFunctionOnSet(g, s) = g[a] + SumFunctionOnSet(g, s \ {a})
      BY ONLY <2>1, g \in [D -> Int], SumRemove
    <2>4. SumFunctionOnSet(g, U) = g[a] + SumFunctionOnSet(g, U \ {a})
      BY ONLY <2>2, g \in [D -> Int], SumRemove
    <2>5. U \ {a} = S \ s
      BY Zenon, <2>1, <2>u
    <2>6. SumFunctionOnSet(g, U) = SumFunctionOnSet(g, S) - SumFunctionOnSet(g, s \ {a})
      BY Zenon, <1>2, <2>u
    <2>7. /\ SumFunctionOnSet(g, S \ s) \in Int /\ SumFunctionOnSet(g, s \ {a}) \in Int
          /\ g[a] \in Int
      <3>1. /\ S \ s \in SUBSET D /\ IsFiniteSet(S \ s)
            /\ s \ {a} \in SUBSET D /\ IsFiniteSet(s \ {a})
        BY Zenon, <2>1, FS_Subset
      <3>2. SumFunctionOnSet(g, S \ s) \in Int /\ SumFunctionOnSet(g, s \ {a}) \in Int
        BY Zenon, <3>1, SumType
      <3>3. g[a] \in Int
        BY <2>1
      <3> QED
        BY Zenon, <3>2, <3>3
    <2>8. \A i, j, k, l \in Int : (i + j = k - l) => (j = k - (i + l))
      OBVIOUS
    <2>9. g[a] + SumFunctionOnSet(g, S \ s) = SumFunctionOnSet(g, S) - SumFunctionOnSet(g, s \ {a})
      BY ONLY Zenon, <2>4, <2>5, <2>6
    <2>10. SumFunctionOnSet(g, S \ s)
             = SumFunctionOnSet(g, S) - (g[a] + SumFunctionOnSet(g, s \ {a}))
      BY ONLY <1>0, <2>7, <2>8, <2>9
    <2> QED
      BY Zenon, <2>3, <2>10
  <1> HIDE DEF P
  <1>3. R \in P
    BY Zenon, <1>0, <1>1, <1>2, FiniteSubsets
  <1> QED
    BY Zenon, <1>3 DEF P
-----------------------------------------------------------------------------
(* The list, as a sequence of nodes behind the sentinel. *)
IsList(k, s) ==
    /\ s[0] = Sentinel
    /\ \A i, j \in 0..k : (s[i] = s[j]) => (i = j)
    /\ \A n \in Node : (n \in Cached) <=> (\E i \in 1..k : s[i] = n)
    /\ \A i \in 0..k : next[s[i]] = IF i = k THEN NULL ELSE s[i + 1]
    /\ head_ = s[k]

Reaches(g) ==
    g = [i \in 0..MaxPins |->
           IF i = 0 THEN {next[Sentinel]} ELSE {next[n] : n \in g[i - 1] \ {NULL}}]

(* What the recursion of Listed computes for links that are a list. *)
LEMMA ListedIs ==
    Listed = (UNION {(CHOOSE g : Reaches(g))[i] : i \in 0..MaxPins}) \ {NULL}
  BY DEF Listed, Reaches

LEMMA ListedCached ==
  ASSUME TypeInv, NEW k \in Nat, NEW s \in [0..k -> Node \cup {Sentinel}], IsList(k, s)
  PROVE  Listed = Cached
  <1> DEFINE R == [i \in 0..MaxPins |->
                     IF i < k THEN {s[i + 1]} ELSE IF i = k THEN {NULL} ELSE {}]
  <1>0. MaxPins \in Nat
    BY BoundsAssumption
  <1>1. k <= MaxPins
    <2>1. /\ IsFiniteSet(0..k) /\ Cardinality(0..k) = k + 1
          /\ IsFiniteSet(0..MaxPins) /\ Cardinality(0..MaxPins) = MaxPins + 1
      BY <1>0, FS_Interval
    <2>2. s \in [0..k -> 0..MaxPins]
      BY <1>0 DEF Node, Sentinel
    <2>3. ~ \E x, y \in 0..k : x # y /\ s[x] = s[y]
      BY Zenon DEF IsList
    <2>4. ~ (Cardinality(0..MaxPins) < Cardinality(0..k))
      BY ONLY Zenon, <2>1, <2>2, <2>3, FS_PigeonHole
    <2> QED
      BY <1>0, <2>1, <2>4
  <1>2. \A i \in 1..k : s[i] \in Node /\ s[i] # NULL
    BY DEF IsList, Node, Sentinel, NULL
  <1>3. /\ next[Sentinel] = IF k = 0 THEN NULL ELSE s[1]
        /\ \A i \in 1..k : next[s[i]] = IF i = k THEN NULL ELSE s[i + 1]
    BY DEF IsList
  <1>4. Reaches(R)
    <2>1. R[0] = {next[Sentinel]}
      BY <1>0, <1>3
    <2>2. ASSUME NEW i \in 1..MaxPins
          PROVE  R[i] = {next[n] : n \in R[i - 1] \ {NULL}}
      <3>1. CASE i <= k
        <4>1. R[i - 1] = {s[i]} /\ s[i] # NULL
          BY <1>0, <1>2, <3>1
        <4>2. {next[n] : n \in R[i - 1] \ {NULL}} = {next[s[i]]}
          BY Zenon, <4>1
        <4>3. next[s[i]] = IF i = k THEN NULL ELSE s[i + 1]
          BY <1>3, <3>1
        <4>4. R[i] = {next[s[i]]}
          BY <1>0, <3>1, <4>3
        <4> QED
          BY Zenon, <4>2, <4>4
      <3>2. CASE i > k
        <4>1. R[i] = {} /\ R[i - 1] \in {{}, {NULL}}
          BY <1>0, <3>2
        <4> QED
          BY Zenon, <4>1
      <3>3. i <= k \/ i > k
        BY <1>0
      <3> QED
        BY Zenon, <3>1, <3>2, <3>3
    <2>3. R = [i \in 0..MaxPins |->
                 IF i = 0 THEN {next[Sentinel]} ELSE {next[n] : n \in R[i - 1] \ {NULL}}]
      <3>1. \A i \in 0..MaxPins :
              R[i] = IF i = 0 THEN {next[Sentinel]} ELSE {next[n] : n \in R[i - 1] \ {NULL}}
        <4>1. \A i \in 0..MaxPins : i = 0 \/ (i # 0 /\ i \in 1..MaxPins)
          BY <1>0
        <4> HIDE DEF R
        <4> QED
          BY Zenon, <2>1, <2>2, <4>1
      <3>2. R = [i \in 0..MaxPins |-> R[i]]
        BY Zenon
      <3> HIDE DEF R
      <3> QED
        BY Zenon, <3>1, <3>2
    <2> QED
      BY Zenon, <2>3 DEF Reaches
  <1>5. PICK G : Reaches(G) /\ G = CHOOSE g : Reaches(g)
    BY Zenon, <1>4
  <1> HIDE DEF R
  <1>6. \A i \in 0..MaxPins : G[i] = R[i]
    <2> DEFINE T == {i \in Nat : i \in 0..MaxPins => G[i] = R[i]}
    <2>1. /\ \A i \in 0..MaxPins : G[i] =
                IF i = 0 THEN {next[Sentinel]} ELSE {next[n] : n \in G[i - 1] \ {NULL}}
          /\ \A i \in 0..MaxPins : R[i] =
                IF i = 0 THEN {next[Sentinel]} ELSE {next[n] : n \in R[i - 1] \ {NULL}}
      BY Zenon, <1>4, <1>5 DEF Reaches
    <2>2. 0 \in T
      BY Zenon, <1>0, <2>1
    <2>3. ASSUME NEW i \in T PROVE i + 1 \in T
      <3>0. i + 1 \in Nat
        OBVIOUS
      <3> SUFFICES ASSUME i + 1 \in 0..MaxPins PROVE G[i + 1] = R[i + 1]
        BY Zenon, <3>0
      <3>1. i \in 0..MaxPins /\ i + 1 # 0 /\ (i + 1) - 1 = i
        BY <1>0
      <3>2. G[i] = R[i]
        BY Zenon, <3>1
      <3> QED
        BY Zenon, <2>1, <3>1, <3>2
    <2>4. T \in SUBSET Nat
      BY Zenon
    <2>5. T = Nat
      <3> HIDE DEF T
      <3> QED
        BY ONLY Zenon, <2>2, <2>3, <2>4, NatSet
    <2> QED
      BY <1>0, <2>5
  <1>7. Listed = (UNION {R[i] : i \in 0..MaxPins}) \ {NULL}
    BY Zenon, <1>5, <1>6, ListedIs
  <1>a. ASSUME NEW n
        PROVE  n \in Listed <=> (n # NULL /\ \E i \in 0..MaxPins : n \in R[i])
    <2>1. PICK U : U = UNION {R[i] : i \in 0..MaxPins}
      BY ONLY Zenon
    <2>2. n \in U <=> \E i \in 0..MaxPins : n \in R[i]
      BY ONLY Zenon, <2>1
    <2>3. Listed = U \ {NULL}
      BY ONLY Zenon, <1>7, <2>1
    <2>4. n \in Listed <=> (n \in U /\ n # NULL)
      BY ONLY Zenon, <2>3
    <2> QED
      BY ONLY Zenon, <2>2, <2>4
  <1>8. ASSUME NEW n PROVE n \in Listed <=> \E i \in 1..k : s[i] = n
    <2>1. ASSUME NEW i \in 0..MaxPins
          PROVE  R[i] = IF i < k THEN {s[i + 1]} ELSE IF i = k THEN {NULL} ELSE {}
      BY Zenon DEF R
    <2>2. ASSUME n \in Listed PROVE \E i \in 1..k : s[i] = n
      <3>1. PICK i \in 0..MaxPins : n \in R[i] /\ n # NULL
        BY Zenon, <1>a, <2>2
      <3>2. i < k /\ n = s[i + 1]
        BY ONLY Zenon, <2>1, <3>1
      <3> QED
        BY <1>0, <3>2
    <2>3. ASSUME NEW i \in 1..k, s[i] = n PROVE n \in Listed
      <3>1. i - 1 \in 0..MaxPins /\ i - 1 < k /\ (i - 1) + 1 = i
        BY <1>0, <1>1
      <3>2. n \in R[i - 1] /\ n # NULL
        BY Zenon, <1>2, <2>1, <2>3, <3>1
      <3> QED
        BY Zenon, <1>a, <3>1, <3>2
    <2> QED
      BY Zenon, <2>2, <2>3
  <1>9. Cached \subseteq Node
    BY DEF Cached, TypeInv
  <1>10. \A n : n \in Cached <=> \E i \in 1..k : s[i] = n
    BY ZenonT(60), <1>2, <1>9 DEF IsList
  <1> QED
    BY Zenon, <1>8, <1>10
-----------------------------------------------------------------------------
(* What the loads and evictions keep, besides FullInv, while the cache     *)
(* lives.                                                                  *)

(* The totals of the calls. *)
InsideSet == {t \in Thread : Inside(t)}
CallsInv ==
    /\ pin_total_ \in Nat /\ errors \in Nat
    /\ calls = pin_total_ + errors + Cardinality(InsideSet)

SizeInv == fs \in FileSystem /\ bytes_to_evict \in [Thread -> Int]

(* The nodes whose bytes are in bytes_used_: those of the map and those on *)
(* the way out, but for the ones that a load has not counted yet.          *)
Uncounted == {t \in Thread : pc[t] \in {"count", "crashed"}}
Leaving == UNION {to_delete[t] : t \in Thread}
Counted == (Cached \cup Leaving) \ {node[t] : t \in Uncounted}

BytesInv ==
    /\ bytes_used_ = BytesOf(Counted)
    /\ \A t \in Thread : (pc[t] = "count") =>
         /\ name[node[t]] = file[t]
         /\ \A u \in Thread : (u \in Uncounted /\ node[u] = node[t]) => (u = t)

(* With files of one size evict() removes one node: the links are a list   *)
(* of the nodes of the map, and the walk stands in it until it has removed *)
(* a node.                                                                 *)
ListInv ==
    OneSize => \E k \in Nat : \E s \in [0..k -> Node \cup {Sentinel}] : IsList(k, s)

WalkInv ==
    OneSize => \A t \in Thread : (pc[t] = "evicting") =>
      \/ bytes_to_evict[t] = 0
      \/ /\ bytes_to_evict[t] = Size[file[t]]
         /\ prev[t] \in Cached \cup {Sentinel}
         /\ curr[t] = next[prev[t]]

ConsInv == CallsInv /\ SizeInv /\ BytesInv /\ ListInv /\ WalkInv

-----------------------------------------------------------------------------
(* The totals. *)

OutLabels == {"idle", "pinned"}

(* How a move of one thread changes the number of calls that are inside. *)
LEMMA InsideStep ==
  ASSUME TypeInv, NEW t \in Thread, NEW label, pc' = [pc EXCEPT ![t] = label]
  PROVE  /\ Cardinality(InsideSet) \in Nat
         /\ (pc[t] \notin OutLabels /\ label \notin OutLabels) =>
              Cardinality(InsideSet') = Cardinality(InsideSet)
         /\ (pc[t] \notin OutLabels /\ label \in OutLabels) =>
              Cardinality(InsideSet') = Cardinality(InsideSet) - 1
         /\ (pc[t] \in OutLabels /\ label \notin OutLabels) =>
              Cardinality(InsideSet') = Cardinality(InsideSet) + 1
         /\ (pc[t] \in OutLabels /\ label \in OutLabels) =>
              Cardinality(InsideSet') = Cardinality(InsideSet)
  <1>0. InsideSet \in SUBSET Thread
    BY Zenon DEF InsideSet
  <1>1. IsFiniteSet(InsideSet) /\ Cardinality(InsideSet) \in Nat
    BY Zenon, <1>0, ThreadAssumption, FS_Subset, FS_CardinalityType
  <1>2. t \in InsideSet <=> pc[t] \notin OutLabels
    BY Zenon DEF InsideSet, Inside, OutLabels
  <1>3. (label \notin OutLabels) => InsideSet' = InsideSet \cup {t}
    BY Zenon DEF InsideSet, Inside, OutLabels, TypeInv
  <1>4. (label \in OutLabels) => InsideSet' = InsideSet \ {t}
    BY Zenon DEF InsideSet, Inside, OutLabels, TypeInv
  <1>5. /\ Cardinality(InsideSet \cup {t}) =
             IF t \in InsideSet THEN Cardinality(InsideSet) ELSE Cardinality(InsideSet) + 1
        /\ Cardinality(InsideSet \ {t}) =
             IF t \in InsideSet THEN Cardinality(InsideSet) - 1 ELSE Cardinality(InsideSet)
    BY ZenonT(60), <1>1, FS_AddElement, FS_RemoveElement
  <1> QED
    BY Zenon, <1>1, <1>2, <1>3, <1>4, <1>5

(* A handle is a pinned node of the map: unpin() finds it. *)
LEMMA UnpinFinds ==
  ASSUME FullInv, NEW t \in Thread, Unpin(t)
  PROVE  Goto(t, "idle")
  <1>0. pc[t] = "pinned"
    BY Zenon DEF Unpin
  <1>1. node[t] \in Node /\ node[t] # NULL /\ name[node[t]] \in File
    BY Zenon, <1>0 DEF FullInv, TypeInv, CallInv
  <1>2. cache_map_[name[node[t]]] = node[t]
    BY Zenon, <1>0, <1>1 DEF FullInv, PinInv
  <1>3. node[t] \notin deleted /\ pin_count[node[t]] = Cardinality(PinsOf(node[t]))
    BY Zenon, <1>1, <1>2 DEF FullInv, MapInv
  <1>4. t \in PinsOf(node[t])
    BY Zenon, <1>0 DEF PinsOf
  <1>5. pin_count[node[t]] # 0
    BY Zenon, <1>3, <1>4, PinsFinite, FS_EmptySet
  <1> QED
    BY Zenon, <1>1, <1>2, <1>3, <1>5 DEF Unpin

(* A step of a thread. *)
Step(t) ==
    \/ \E f \in File : PinHit(t, f) \/ PinMiss(t, f)
    \/ Load(t)
    \/ Evict(t)
    \/ Unpin(t)

(* Each call is counted once when it ends. *)
LEMMA CallsStep ==
  ASSUME FullInv, CallsInv, NEW t \in Thread, Step(t)
  PROVE  CallsInv'
  <1> DEFINE K == Cardinality(InsideSet)
  <1>0. TypeInv /\ calls \in Nat /\ pin_total_ \in Nat /\ errors \in Nat
    BY Zenon DEF FullInv, TypeInv, CallsInv
  <1>k. /\ K \in Nat
        /\ calls = pin_total_ + errors + K
    <2>1. InsideSet \in SUBSET Thread
      BY Zenon DEF InsideSet
    <2> QED
      BY Zenon, <2>1, ThreadAssumption, FS_Subset, FS_CardinalityType DEF CallsInv
  <1>s. /\ pin_total_ + 1 \in Nat /\ errors + 1 \in Nat
        /\ calls + 1 = (pin_total_ + 1) + errors + K
        /\ calls + 1 = pin_total_ + errors + (K + 1)
        /\ calls = pin_total_ + (errors + 1) + (K - 1)
        /\ calls = (pin_total_ + 1) + errors + (K - 1)
    BY SMT, <1>0, <1>k
  <1>1. ASSUME NEW f \in File, PinHit(t, f) PROVE CallsInv'
    <2>1. /\ pc[t] = "idle" /\ pc' = [pc EXCEPT ![t] = "pinned"]
          /\ calls' = calls + 1 /\ pin_total_' = pin_total_ + 1 /\ errors' = errors
      BY Zenon, <1>1 DEF PinHit, Goto
    <2>2. Cardinality(InsideSet') = K
      BY Zenon, <1>0, <2>1, InsideStep DEF OutLabels
    <2> QED
      BY Zenon, <1>0, <1>s, <2>1, <2>2 DEF CallsInv
  <1>2. ASSUME NEW f \in File, PinMiss(t, f) PROVE CallsInv'
    <2>1. /\ pc[t] = "idle" /\ pc' = [pc EXCEPT ![t] = "open"]
          /\ calls' = calls + 1 /\ pin_total_' = pin_total_ /\ errors' = errors
      BY Zenon, <1>2 DEF PinMiss, Goto
    <2>0. pc[t] \in OutLabels /\ "open" \notin OutLabels
      BY Zenon, <2>1 DEF OutLabels
    <2>2. Cardinality(InsideSet') = K + 1
      BY Zenon, <1>0, <2>0, <2>1, InsideStep
    <2> QED
      BY Zenon, <1>0, <1>s, <2>1, <2>2 DEF CallsInv
  <1>3. CASE OpenFails(t) \/ ReadFails(t)
    <2>1. /\ pc[t] \in {"open", "read"} /\ pc' = [pc EXCEPT ![t] = "idle"]
          /\ calls' = calls /\ pin_total_' = pin_total_ /\ errors' = errors + 1
      BY Zenon, <1>3 DEF OpenFails, ReadFails, CountError, ReturnsNothing, Goto
    <2>2. Cardinality(InsideSet') = K - 1
      BY Zenon, <1>0, <2>1, InsideStep DEF OutLabels
    <2> QED
      BY Zenon, <1>0, <1>s, <2>1, <2>2 DEF CallsInv
  <1>4. ASSUME pc[t] \notin OutLabels, NEW label, label \notin OutLabels,
               pc' = [pc EXCEPT ![t] = label], UNCHANGED <<calls, pin_total_, errors>>
        PROVE  CallsInv'
    <2>2. Cardinality(InsideSet') = K
      BY Zenon, <1>0, <1>4, InsideStep
    <2> QED
      BY Zenon, <1>0, <1>k, <1>4, <2>2 DEF CallsInv
  <1>5. ASSUME pc[t] \notin OutLabels, NEW label, label \in OutLabels,
               pc' = [pc EXCEPT ![t] = label], UNCHANGED <<calls, errors>>,
               pin_total_' = pin_total_ + 1
        PROVE  CallsInv'
    <2>2. Cardinality(InsideSet') = K - 1
      BY Zenon, <1>0, <1>5, InsideStep
    <2> QED
      BY Zenon, <1>0, <1>s, <1>5, <2>2 DEF CallsInv
  <1>6. CASE CheckSpace(t) \/ ReadsForever(t)
    <2>1. /\ pc[t] \in {"open", "read"} /\ UNCHANGED <<calls, pin_total_, errors>>
          /\ \E label \in {"evict", "read", "reading forever"} : pc' = [pc EXCEPT ![t] = label]
      BY Zenon, <1>6 DEF CheckSpace, ReadsForever, Goto, totals
    <2> QED
      BY Zenon, <2>1, <1>4 DEF OutLabels
  <1>7. CASE MakeNode(t) \/ InsertNode(t) \/ InsertAtDeleted(t)
    <2>1. /\ pc[t] \in {"read", "insert"} /\ UNCHANGED <<calls, pin_total_, errors>>
          /\ \E label \in {"insert", "count", "crashed"} : pc' = [pc EXCEPT ![t] = label]
      BY Zenon, <1>7 DEF MakeNode, InsertNode, InsertAtDeleted, Goto, totals
    <2> QED
      BY Zenon, <2>1, <1>4 DEF OutLabels
  <1>8. CASE EvictStart(t) \/ VisitDeleted(t)
    <2>1. /\ pc[t] \in {"evict", "evicting"} /\ UNCHANGED <<calls, pin_total_, errors>>
          /\ \E label \in {"evicting", "crashed"} : pc' = [pc EXCEPT ![t] = label]
      BY Zenon, <1>8 DEF EvictStart, VisitDeleted, Visits, Goto, totals
    <2> QED
      BY Zenon, <2>1, <1>4 DEF OutLabels
  <1>9. CASE EvictNode(t) \/ SkipPinned(t)
    <2>1. UNCHANGED <<calls, pin_total_, errors, pc>>
      BY Zenon, <1>9 DEF EvictNode, SkipPinned, totals
    <2> QED
      BY Zenon, <2>1 DEF CallsInv, InsideSet, Inside
  <1>10. CASE DuplicateLoad(t) \/ EvictEmpty(t)
    <2>1. /\ pc[t] \in {"insert", "evict"} /\ pc' = [pc EXCEPT ![t] = "idle"]
          /\ UNCHANGED <<calls, errors>> /\ pin_total_' = pin_total_ + 1
      BY Zenon, <1>10 DEF DuplicateLoad, EvictEmpty, CountFailed, ReturnsNothing, Goto
    <2> QED
      BY Zenon, <2>1, <1>5 DEF OutLabels
  <1>11. CASE CountBytes(t)
    <2>1. /\ pc[t] = "count" /\ pc' = [pc EXCEPT ![t] = "pinned"]
          /\ UNCHANGED <<calls, errors>> /\ pin_total_' = pin_total_ + 1
      BY Zenon, <1>11 DEF CountBytes, Goto
    <2> QED
      BY Zenon, <2>1, <1>5 DEF OutLabels
  <1>12. CASE EvictEnd(t)
    <2>1. pc[t] = "evicting"
      BY Zenon, <1>12 DEF EvictEnd
    <2>2. \/ /\ pc' = [pc EXCEPT ![t] = "read"]
             /\ UNCHANGED <<calls, pin_total_, errors>>
          \/ /\ pc' = [pc EXCEPT ![t] = "idle"]
             /\ UNCHANGED <<calls, errors>> /\ pin_total_' = pin_total_ + 1
      BY Zenon, <1>12 DEF EvictEnd, CountFailed, ReturnsNothing, Goto, totals
    <2> QED
      BY Zenon, <2>1, <2>2, <1>4, <1>5 DEF OutLabels
  <1>13. CASE Unpin(t)
    <2>1. /\ pc[t] = "pinned" /\ pc' = [pc EXCEPT ![t] = "idle"]
          /\ UNCHANGED <<calls, pin_total_, errors>>
      BY Zenon, <1>13, UnpinFinds DEF Unpin, Goto, totals
    <2>2. Cardinality(InsideSet') = K
      BY Zenon, <1>0, <2>1, InsideStep DEF OutLabels
    <2> QED
      BY Zenon, <1>0, <1>k, <2>1, <2>2 DEF CallsInv
  <1> QED
    BY ZenonT(60), <1>1, <1>2, <1>3, <1>6, <1>7, <1>8, <1>9, <1>10, <1>11, <1>12, <1>13
    DEF Step, Load, Evict

-----------------------------------------------------------------------------
(* The list and the walk of evict(). *)

LEMMA ListKept ==
  ASSUME ListInv, UNCHANGED <<cache_map_, head_, next, fs>>
  PROVE  ListInv'
  <1>1. OneSize' <=> OneSize
    BY Zenon DEF OneSize, Size
  <1>2. ASSUME NEW k, NEW s, IsList(k, s) PROVE (IsList(k, s))'
    <2>1. Cached' = Cached /\ next' = next /\ head_' = head_
      BY Zenon DEF Cached
    <2> QED
      BY Zenon, <1>2, <2>1 DEF IsList
  <1>3. ASSUME OneSize
        PROVE  \E k \in Nat : \E s \in [0..k -> Node \cup {Sentinel}] : (IsList(k, s))'
    <2>1. PICK k \in Nat : \E s \in [0..k -> Node \cup {Sentinel}] : IsList(k, s)
      BY Zenon, <1>3 DEF ListInv
    <2>2. PICK s \in [0..k -> Node \cup {Sentinel}] : IsList(k, s)
      BY Zenon, <2>1
    <2>3. (IsList(k, s))'
      BY Zenon, <1>2, <2>2
    <2> QED
      BY Zenon, <2>3
  <1> QED
    BY Zenon, <1>1, <1>3 DEF ListInv

(* Nobody begins or goes on with the walk. *)
LEMMA WalkKept ==
  ASSUME WalkInv, UNCHANGED <<cache_map_, next, fs>>,
         \A u \in Thread : (pc'[u] = "evicting") =>
           /\ pc[u] = "evicting"
           /\ bytes_to_evict'[u] = bytes_to_evict[u]
           /\ file'[u] = file[u]
           /\ prev'[u] = prev[u]
           /\ curr'[u] = curr[u]
  PROVE  WalkInv'
  <1>1. OneSize' <=> OneSize
    BY Zenon DEF OneSize, Size
  <1>2. Cached' = Cached /\ Size' = Size
    BY Zenon DEF Cached, Size
  <1> QED
    BY Zenon, <1>1, <1>2 DEF WalkInv

LEMMA CachedNodes == ASSUME TypeInv PROVE Cached \subseteq Node
  <1>1. ASSUME NEW n \in Cached PROVE n \in Node
    <2>1. PICK f \in File : n = cache_map_[f]
      BY Zenon DEF Cached
    <2>2. n # NULL
      BY Zenon DEF Cached
    <2>3. cache_map_[f] \in Node \cup {NULL}
      BY Zenon DEF TypeInv
    <2> QED
      BY Zenon, <2>1, <2>2, <2>3
  <1> QED
    BY Zenon, <1>1

(* Without the lock nobody walks. *)
LEMMA NobodyWalks ==
  ASSUME FullInv, Unlocked, NEW u \in Thread
  PROVE  pc[u] # "evicting" /\ to_delete[u] = {}
  BY Zenon, ThreadAssumption DEF FullInv, LockInv, Unlocked, NULL

(* Where the walk is in the list. *)
LEMMA WalkStands ==
  ASSUME FullInv, WalkInv, OneSize, NEW t \in Thread, Visits(t),
         NEW k \in Nat, NEW s \in [0..k -> Node \cup {Sentinel}], IsList(k, s)
  PROVE  /\ bytes_to_evict[t] = Size[file[t]]
         /\ \E i \in 0..k : i < k /\ prev[t] = s[i] /\ curr[t] = s[i + 1]
  <1>1. pc[t] = "evicting" /\ bytes_to_evict[t] > 0 /\ curr[t] # NULL
    BY Zenon DEF Visits
  <1>2. bytes_to_evict[t] # 0
    BY <1>1
  <1>3. /\ bytes_to_evict[t] = Size[file[t]]
        /\ prev[t] \in Cached \cup {Sentinel}
        /\ curr[t] = next[prev[t]]
    BY Zenon, <1>1, <1>2 DEF WalkInv
  <1>4. Cached \subseteq Node
    BY Zenon, CachedNodes DEF FullInv
  <1>5. \E i \in 0..k : prev[t] = s[i]
    <2>1. CASE prev[t] = Sentinel
      BY <2>1 DEF IsList
    <2>2. CASE prev[t] \in Cached
      <3>1. PICK i \in 1..k : prev[t] = s[i]
        BY Zenon, <2>2, <1>4 DEF IsList
      <3> QED
        BY <3>1
    <2> QED
      BY Zenon, <2>1, <2>2, <1>3
  <1>6. PICK i \in 0..k : prev[t] = s[i]
    BY Zenon, <1>5
  <1>7. i # k /\ curr[t] = s[i + 1]
    BY Zenon, <1>1, <1>3, <1>6 DEF IsList
  <1> QED
    BY <1>3, <1>6, <1>7

LEMMA Zero == ASSUME NEW d \in Nat, d > 0, NEW x \in Int PROVE (x - x) % d = 0
  OBVIOUS

LEMMA SizeFacts ==
  ASSUME SizeInv, NEW f \in File
  PROVE  Size[f] \in Int /\ SizeT \in Nat /\ SizeT > 0
  <1>1. SizeT \in Nat /\ fs \in [size : [File -> 1..(SizeT - 1)], resizes : BOOLEAN]
    BY Zenon, FileSystemAssumption, BoundsAssumption DEF SizeInv
  <1>2. Size[f] \in 1..(SizeT - 1)
    BY <1>1 DEF Size
  <1> QED
    BY <1>1, <1>2

LEMMA SizeStep ==
  ASSUME FullInv, SizeInv, NEW t \in Thread, Step(t)
  PROVE  SizeInv'
  <1>1. fs' = fs
    BY Zenon DEF Step, Load, Evict, PinHit, PinMiss, OpenFails, CheckSpace, ReadFails,
                 ReadsForever, MakeNode, InsertNode, InsertAtDeleted, DuplicateLoad, CountBytes,
                 EvictEmpty, EvictStart, EvictNode, SkipPinned, VisitDeleted, EvictEnd, Unpin,
                 eviction
  <1>2. \/ bytes_to_evict' = bytes_to_evict
        \/ EvictStart(t) \/ EvictNode(t) \/ EvictEnd(t)
    BY Zenon DEF Step, Load, Evict, PinHit, PinMiss, OpenFails, CheckSpace, ReadFails,
                 ReadsForever, MakeNode, InsertNode, InsertAtDeleted, DuplicateLoad, CountBytes,
                 EvictEmpty, SkipPinned, VisitDeleted, Unpin, eviction
  <1>3. ASSUME NEW x \in Int, bytes_to_evict' = [bytes_to_evict EXCEPT ![t] = x]
        PROVE  bytes_to_evict' \in [Thread -> Int]
    BY Zenon, <1>3 DEF SizeInv
  <1>4. CASE EvictStart(t)
    <2>1. file[t] \in File
      BY Zenon, <1>4 DEF EvictStart, FullInv, CallInv
    <2> QED
      BY Zenon, <1>1, <1>3, <1>4, <2>1, SizeFacts DEF EvictStart, SizeInv
  <1>5. CASE EvictNode(t)
    <2>1. curr[t] \in Node /\ name[curr[t]] \in File
      BY Zenon, <1>5 DEF EvictNode, Visits, FullInv, TypeInv
    <2>2. Size[name[curr[t]]] \in Int /\ SizeT \in Nat /\ SizeT > 0 /\ bytes_to_evict[t] \in Int
      BY Zenon, <2>1, SizeFacts DEF SizeInv
    <2>3. (bytes_to_evict[t] - Size[name[curr[t]]]) % SizeT \in Int
      BY ONLY SMT, <2>2
    <2> QED
      BY Zenon, <1>1, <1>3, <1>5, <2>3 DEF EvictNode, SizeInv
  <1>6. CASE EvictEnd(t)
    <2>1. 0 \in Int
      OBVIOUS
    <2> QED
      BY Zenon, <1>1, <1>3, <1>6, <2>1 DEF EvictEnd, SizeInv
  <1> QED
    BY Zenon, <1>1, <1>2, <1>4, <1>5, <1>6 DEF SizeInv

LEMMA CachedInsert ==
  ASSUME FullInv, NEW t \in Thread, InsertNode(t) \/ InsertAtDeleted(t)
  PROVE  Cached' = Cached \cup {node[t]}
  <1> DEFINE n == node[t]
  <1>0. pc[t] = "insert" /\ cache_map_[file[t]] = NULL
    BY Zenon DEF InsertNode, InsertAtDeleted
  <1>1. n \in Node /\ n # NULL /\ file[t] \in File
    BY Zenon, <1>0 DEF FullInv, TypeInv, CallInv
  <1>2. cache_map_' = [cache_map_ EXCEPT ![file[t]] = n]
    BY Zenon DEF InsertNode, InsertAtDeleted
  <1>3. cache_map_ \in [File -> Node \cup {NULL}]
    BY Zenon DEF FullInv, TypeInv
  <1>4. ASSUME NEW m, m \in Cached' PROVE m \in Cached \cup {n}
    BY Zenon, <1>2, <1>3, <1>4 DEF Cached
  <1>5. ASSUME NEW m, m \in Cached PROVE m \in Cached'
    BY Zenon, <1>0, <1>2, <1>3, <1>5 DEF Cached
  <1>6. n \in Cached'
    BY Zenon, <1>1, <1>2, <1>3 DEF Cached
  <1> QED
    BY Zenon, <1>4, <1>5, <1>6

(* A new node is the head of the list. *)
LEMMA ListInsert ==
  ASSUME FullInv, OneSize, NEW t \in Thread, InsertNode(t),
         NEW k \in Nat, NEW s \in [0..k -> Node \cup {Sentinel}], IsList(k, s)
  PROVE  \E z \in [0..(k + 1) -> Node \cup {Sentinel}] : (IsList(k + 1, z))'
  <1> DEFINE n == node[t]
             z == [i \in 0..(k + 1) |-> IF i = k + 1 THEN n ELSE s[i]]
  <1>0. pc[t] = "insert" /\ cache_map_[file[t]] = NULL
    BY Zenon DEF InsertNode
  <1>1. n \in Node /\ n # NULL /\ file[t] \in File /\ n # Sentinel
    <2>1. n \in Node /\ n # NULL /\ file[t] \in File
      BY Zenon, <1>0 DEF FullInv, TypeInv, CallInv
    <2> QED
      BY <2>1 DEF Node, Sentinel
  <1>2. n \notin Cached
    BY Zenon, <1>0 DEF FullInv, InsertInv, Cached
  <1>3. Cached' = Cached \cup {n}
    BY Zenon, CachedInsert
  <1>4. /\ next \in [Node \cup {Sentinel} -> Node \cup {NULL}]
        /\ next' = [next EXCEPT ![s[k]] = n, ![n] = NULL]
        /\ head_' = n
    BY Zenon DEF FullInv, TypeInv, InsertNode, nodeInsert, IsList
  <1>5. \A i \in 0..k : s[i] # n /\ s[i] \in Node \cup {Sentinel}
    <2>1. \A i \in 1..k : s[i] # n
      BY Zenon, <1>1, <1>2 DEF IsList
    <2>2. s[0] # n
      BY Zenon, <1>1 DEF IsList
    <2> QED
      BY <2>1, <2>2
  <1>6. /\ z \in [0..(k + 1) -> Node \cup {Sentinel}]
        /\ z[k + 1] = n /\ \A i \in 0..k : z[i] = s[i]
    BY <1>1, <1>5
  <1>7. PICK y \in [0..(k + 1) -> Node \cup {Sentinel}] :
          y[k + 1] = n /\ \A i \in 0..k : y[i] = s[i]
    BY Zenon, <1>6
  <1> HIDE DEF n, z
  <1>8. y[0] = Sentinel
    BY <1>7 DEF IsList
  <1>9. ASSUME NEW i \in 0..(k + 1), NEW j \in 0..(k + 1), y[i] = y[j] PROVE i = j
    <2>1. \A p, q \in 0..k : (s[p] = s[q]) => (p = q)
      BY Zenon DEF IsList
    <2> QED
      BY ONLY SMT, k \in Nat, <1>5, <1>7, <1>9, <2>1
  <1>10. ASSUME NEW m \in Node
         PROVE  (m \in Cached') <=> (\E i \in 1..(k + 1) : y[i] = m)
    <2>1. (m \in Cached) <=> (\E i \in 1..k : s[i] = m)
      BY Zenon DEF IsList
    <2>2. (\E i \in 1..(k + 1) : y[i] = m) <=> (m = n \/ \E i \in 1..k : s[i] = m)
      BY ONLY SMT, k \in Nat, <1>7
    <2> QED
      BY Zenon, <1>3, <2>1, <2>2
  <1>11. ASSUME NEW i \in 0..(k + 1)
         PROVE  next'[y[i]] = IF i = k + 1 THEN NULL ELSE y[i + 1]
    <2>1. CASE i = k + 1
      BY Zenon, <1>1, <1>4, <1>7, <2>1
    <2>2. CASE i = k
      <3>1. y[i] = s[k] /\ y[i + 1] = n /\ i # k + 1 /\ s[k] # n /\ s[k] \in Node \cup {Sentinel}
        BY <1>5, <1>7, <2>2
      <3> QED
        BY Zenon, <1>4, <3>1
    <2>3. CASE i < k
      <3>1. /\ i \in 0..k /\ k \in 0..k /\ y[i] = s[i] /\ y[i + 1] = s[i + 1] /\ i # k + 1
            /\ i # k
        BY <1>7, <2>3
      <3>2. s[i] # s[k] /\ next[s[i]] = s[i + 1]
        BY Zenon, <3>1 DEF IsList
      <3> QED
        BY Zenon, <1>4, <1>5, <3>1, <3>2
    <2> QED
      BY <2>1, <2>2, <2>3
  <1>12. (IsList(k + 1, y))'
    BY Zenon, <1>4, <1>7, <1>8, <1>9, <1>10, <1>11 DEF IsList
  <1> QED
    BY Zenon, <1>12

LEMMA CachedRemove ==
  ASSUME FullInv, NEW t \in Thread, EvictNode(t), curr[t] \in Cached
  PROVE  Cached' = Cached \ {curr[t]}
  <1> DEFINE n == curr[t]
  <1>1. n \in Node /\ n # NULL
    BY Zenon DEF FullInv, TypeInv, EvictNode, Visits
  <1>2. n \in Cached
    BY Zenon
  <1>3. Cached' = Cached \ {n}
    <2>1. cache_map_' = [cache_map_ EXCEPT ![name[n]] = NULL]
      BY Zenon DEF EvictNode
    <2>2. cache_map_ \in [File -> Node \cup {NULL}]
      BY Zenon DEF FullInv, TypeInv
    <2>f. \A f \in File : (cache_map_[f] = n) <=> (f = name[n])
      <3>1. PICK f \in File : cache_map_[f] = n
        BY Zenon, <1>2 DEF Cached
      <3>2. \A g \in File : (cache_map_[g] = n) => (name[n] = g)
        BY Zenon, <1>1 DEF FullInv, MapInv
      <3> QED
        BY Zenon, <3>1, <3>2
    <2>3. ASSUME NEW m, m \in Cached' PROVE m \in Cached /\ m # n
      <3>1. PICK f \in File : m = cache_map_'[f] /\ m # NULL
        BY Zenon, <2>3 DEF Cached
      <3>2. f # name[n] /\ cache_map_'[f] = cache_map_[f]
        BY Zenon, <2>1, <2>2, <3>1
      <3> QED
        BY Zenon, <2>f, <3>1, <3>2 DEF Cached
    <2>4. ASSUME NEW m, m \in Cached, m # n PROVE m \in Cached'
      <3>1. PICK f \in File : m = cache_map_[f] /\ m # NULL
        BY Zenon, <2>4 DEF Cached
      <3>2. f # name[n]
        BY Zenon, <2>f, <2>4, <3>1
      <3>3. cache_map_'[f] = m
        BY Zenon, <2>1, <2>2, <3>1, <3>2
      <3> QED
        BY Zenon, <3>1, <3>3 DEF Cached
    <2> QED
      BY Zenon, <2>3, <2>4
  <1> QED
    BY Zenon, <1>3

(* A node that evict() removes leaves the list to those around it. *)
LEMMA ListRemove ==
  ASSUME FullInv, OneSize, NEW t \in Thread, EvictNode(t),
         NEW k \in Nat, NEW s \in [0..k -> Node \cup {Sentinel}], IsList(k, s),
         NEW e \in 0..k, e < k, prev[t] = s[e], curr[t] = s[e + 1]
  PROVE  \E z \in [0..(k - 1) -> Node \cup {Sentinel}] : (IsList(k - 1, z))'
  <1> DEFINE n == curr[t]
             z == [i \in 0..(k - 1) |-> IF i <= e THEN s[i] ELSE s[i + 1]]
  <1>0. k - 1 \in Nat /\ e + 1 \in 1..k /\ e + 1 \in 0..k /\ e + 1 # e
    OBVIOUS
  <1>1. n = s[e + 1] /\ n \in Node /\ n # NULL
    BY Zenon DEF FullInv, TypeInv, EvictNode, Visits
  <1>2. n \in Cached
    BY Zenon, <1>0, <1>1 DEF IsList
  <1>3. Cached' = Cached \ {n}
    BY Zenon, <1>2, CachedRemove
  <1>4. /\ next \in [Node \cup {Sentinel} -> Node \cup {NULL}]
        /\ next' = [next EXCEPT ![s[e]] = next[n]]
        /\ head_' = IF head_ = n THEN s[e] ELSE head_
    BY Zenon DEF FullInv, TypeInv, EvictNode, nodeExtract
  <1>5. /\ z \in [0..(k - 1) -> Node \cup {Sentinel}]
        /\ \A i \in 0..(k - 1) : z[i] = IF i <= e THEN s[i] ELSE s[i + 1]
    OBVIOUS
  <1>6. PICK y \in [0..(k - 1) -> Node \cup {Sentinel}] :
          \A i \in 0..(k - 1) : y[i] = IF i <= e THEN s[i] ELSE s[i + 1]
    BY Zenon, <1>5
  <1> HIDE DEF n, z
  <1>7. \A p, q \in 0..k : (s[p] = s[q]) => (p = q)
    BY Zenon DEF IsList
  <1>8. y[0] = Sentinel
    <2>1. y[0] = s[0]
      BY ONLY SMT, <1>0, <1>6, e \in 0..k, k \in Nat
    <2> QED
      BY Zenon, <2>1 DEF IsList
  <1>9. ASSUME NEW i \in 0..(k - 1), NEW j \in 0..(k - 1), y[i] = y[j] PROVE i = j
    BY ONLY SMT, k \in Nat, e \in 0..k, <1>0, <1>6, <1>7, <1>9
  <1>10. ASSUME NEW m \in Node
         PROVE  (m \in Cached') <=> (\E i \in 1..(k - 1) : y[i] = m)
    <2>1. (m \in Cached) <=> (\E i \in 1..k : s[i] = m)
      BY Zenon DEF IsList
    <2>2. ASSUME NEW i \in 1..(k - 1), y[i] = m PROVE m # n /\ \E j \in 1..k : s[j] = m
      BY ONLY SMT, k \in Nat, e \in 0..k, <1>0, <1>1, <1>6, <1>7, <2>2
    <2>3. ASSUME NEW j \in 1..k, s[j] = m, m # n PROVE \E i \in 1..(k - 1) : y[i] = m
      <3>1. CASE j <= e
        <4>1. j \in 1..(k - 1) /\ y[j] = m
          BY ONLY SMT, k \in Nat, e \in 0..k, e < k, <1>0, <1>6, <2>3, <3>1
        <4> QED
          BY Zenon, <4>1
      <3>2. CASE j > e + 1
        <4>1. j - 1 \in 1..(k - 1) /\ y[j - 1] = m
          BY ONLY SMT, k \in Nat, e \in 0..k, e < k, <1>0, <1>6, <2>3, <3>2
        <4> QED
          BY Zenon, <4>1
      <3>3. j # e + 1
        BY Zenon, <1>1, <2>3
      <3> QED
        BY <3>1, <3>2, <3>3
    <2> QED
      BY Zenon, <1>3, <2>1, <2>2, <2>3
  <1>11. next[n] = IF e + 1 = k THEN NULL ELSE s[(e + 1) + 1]
    BY Zenon, <1>0, <1>1 DEF IsList
  <1>12. ASSUME NEW i \in 0..(k - 1)
         PROVE  next'[y[i]] = IF i = k - 1 THEN NULL ELSE y[i + 1]
    <2>0. s[e] \in Node \cup {Sentinel}
      BY Zenon
    <2>1. CASE i = e
      <3>1. /\ y[i] = s[e] /\ (i = k - 1) = (e + 1 = k)
            /\ (i # k - 1) => (y[i + 1] = s[(e + 1) + 1])
        BY ONLY SMT, k \in Nat, e \in 0..k, e < k, <1>0, <1>6, i \in 0..(k - 1), <2>1
      <3>2. next'[y[i]] = next[n]
        BY Zenon, <1>4, <2>0, <3>1
      <3> QED
        BY Zenon, <1>11, <3>1, <3>2
    <2>2. CASE i < e
      <3>1. /\ i \in 0..k /\ y[i] = s[i] /\ y[i + 1] = s[i + 1] /\ i # k /\ i # k - 1 /\ i # e
        BY ONLY SMT, k \in Nat, e \in 0..k, e < k, <1>0, <1>6, i \in 0..(k - 1), <2>2
      <3>2. s[i] # s[e] /\ next[s[i]] = s[i + 1] /\ s[i] \in Node \cup {Sentinel}
        BY Zenon, <1>7, <3>1 DEF IsList
      <3> QED
        BY Zenon, <1>4, <3>1, <3>2
    <2>3. CASE i > e
      <3>1. /\ i + 1 \in 0..k /\ y[i] = s[i + 1] /\ i + 1 # e
            /\ (i + 1 = k) = (i = k - 1)
            /\ (i # k - 1) => (y[i + 1] = s[(i + 1) + 1])
        BY ONLY SMT, k \in Nat, e \in 0..k, e < k, <1>0, <1>6, i \in 0..(k - 1), <2>3
      <3>2. /\ s[i + 1] # s[e] /\ s[i + 1] \in Node \cup {Sentinel}
            /\ next[s[i + 1]] = IF i + 1 = k THEN NULL ELSE s[(i + 1) + 1]
        BY Zenon, <1>7, <3>1 DEF IsList
      <3>3. next'[y[i]] = next[s[i + 1]]
        BY Zenon, <1>4, <3>1, <3>2
      <3> QED
        BY Zenon, <3>1, <3>2, <3>3
    <2> QED
      BY <2>1, <2>2, <2>3
  <1>13. head_' = y[k - 1]
    <2>0. head_ = s[k] /\ k \in 0..k
      BY DEF IsList
    <2>1. CASE e + 1 = k
      <3>1. y[k - 1] = s[e]
        BY ONLY SMT, k \in Nat, e \in 0..k, e < k, <1>0, <1>6, <2>1
      <3> QED
        BY Zenon, <1>1, <1>4, <2>0, <2>1, <3>1
    <2>2. CASE e + 1 # k
      <3>1. y[k - 1] = s[k]
        BY ONLY SMT, k \in Nat, e \in 0..k, e < k, <1>0, <1>6, <2>2
      <3>2. head_ # n
        BY Zenon, <1>0, <1>1, <1>7, <2>0, <2>2
      <3> QED
        BY Zenon, <1>4, <2>0, <3>1, <3>2
    <2> QED
      BY Zenon, <2>1, <2>2
  <1>14. (IsList(k - 1, y))'
    BY Zenon, <1>6, <1>8, <1>9, <1>10, <1>12, <1>13 DEF IsList
  <1> QED
    BY Zenon, <1>14

(* Each step keeps the list, and the walk in it. *)
LEMMA ListStep ==
  ASSUME FullInv, SizeInv, ListInv, WalkInv, NEW t \in Thread, Step(t)
  PROVE  ListInv' /\ WalkInv'
  <1>0. /\ pc \in [Thread -> PcType]
        /\ file \in [Thread -> File \cup {NULL}]
        /\ curr \in [Thread -> Node \cup {NULL}]
        /\ prev \in [Thread -> Node \cup {Sentinel, NULL}]
        /\ bytes_to_evict \in [Thread -> Int]
    BY Zenon DEF FullInv, TypeInv, SizeInv
  <1>1. ASSUME UNCHANGED <<cache_map_, head_, next, fs, bytes_to_evict, prev, curr>>,
               NEW label, label # "evicting", pc' = [pc EXCEPT ![t] = label],
               \A u \in Thread : u # t => file'[u] = file[u]
        PROVE  ListInv' /\ WalkInv'
    <2>1. ListInv'
      BY Zenon, <1>1, ListKept
    <2>2. WalkInv'
      BY Zenon, <1>0, <1>1, WalkKept
    <2> QED
      BY Zenon, <2>1, <2>2
  <1>2. CASE \E f \in File : PinHit(t, f) \/ PinMiss(t, f)
    <2>1. /\ UNCHANGED <<cache_map_, head_, next, fs, bytes_to_evict, prev, curr>>
          /\ \E label \in {"pinned", "open"} : pc' = [pc EXCEPT ![t] = label]
      BY Zenon, <1>2 DEF PinHit, PinMiss, nodes, eviction, Goto
    <2>2. \A u \in Thread : u # t => file'[u] = file[u]
      BY Zenon, <1>0, <1>2 DEF PinHit, PinMiss
    <2> QED
      BY Zenon, <1>1, <2>1, <2>2
  <1>3. CASE OpenFails(t) \/ CheckSpace(t) \/ ReadFails(t) \/ ReadsForever(t)
    <2>1. /\ UNCHANGED <<cache_map_, head_, next, fs, bytes_to_evict, prev, curr>>
          /\ \E label \in {"idle", "evict", "read", "reading forever"} :
               pc' = [pc EXCEPT ![t] = label]
      BY Zenon, <1>3 DEF OpenFails, CheckSpace, ReadFails, ReadsForever, ReturnsNothing, nodes,
                        eviction, Goto
    <2>2. \A u \in Thread : u # t => file'[u] = file[u]
      BY Zenon, <1>0, <1>3 DEF OpenFails, CheckSpace, ReadFails, ReadsForever, ReturnsNothing
    <2> QED
      BY Zenon, <1>1, <2>1, <2>2
  <1>4. CASE MakeNode(t) \/ DuplicateLoad(t) \/ CountBytes(t)
    <2>1. /\ UNCHANGED <<cache_map_, head_, next, fs, bytes_to_evict, prev, curr>>
          /\ \E label \in {"idle", "insert", "pinned"} : pc' = [pc EXCEPT ![t] = label]
      BY Zenon, <1>4 DEF MakeNode, DuplicateLoad, CountBytes, ReturnsNothing, nodes, eviction, Goto
    <2>2. \A u \in Thread : u # t => file'[u] = file[u]
      BY Zenon, <1>0, <1>4 DEF MakeNode, DuplicateLoad, CountBytes, ReturnsNothing
    <2> QED
      BY Zenon, <1>1, <2>1, <2>2
  <1>5. CASE EvictEmpty(t) \/ VisitDeleted(t) \/ Unpin(t)
    <2>1. UNCHANGED <<cache_map_, head_, next, fs, bytes_to_evict, prev, curr>>
      BY Zenon, <1>5 DEF EvictEmpty, VisitDeleted, Unpin, nodes, eviction
    <2>2. \E label \in {"idle", "crashed"} : pc' = [pc EXCEPT ![t] = label]
      BY Zenon, <1>5, UnpinFinds DEF EvictEmpty, VisitDeleted, ReturnsNothing, Goto
    <2>3. \A u \in Thread : u # t => file'[u] = file[u]
      BY Zenon, <1>0, <1>5 DEF EvictEmpty, VisitDeleted, Unpin, ReturnsNothing
    <2> QED
      BY Zenon, <1>1, <2>1, <2>2, <2>3
  <1>6. CASE EvictEnd(t)
    <2>1. UNCHANGED <<cache_map_, head_, next, fs>>
      BY Zenon, <1>6 DEF EvictEnd
    <2>2. ListInv'
      BY Zenon, <2>1, ListKept
    <2>3. rw_m_ = t
      BY Zenon, <1>6 DEF EvictEnd, FullInv, LockInv
    <2>4. \A u \in Thread : pc'[u] # "evicting"
      BY Zenon, <1>0, <1>6, <2>3 DEF EvictEnd, ReturnsNothing, Goto, FullInv, LockInv
    <2>5. WalkInv'
      BY Zenon, <2>4 DEF WalkInv
    <2> QED
      BY Zenon, <2>2, <2>5
  <1>7. CASE InsertNode(t) \/ InsertAtDeleted(t)
    <2>1. WalkInv'
      <3>1. Unlocked
        BY Zenon, <1>7 DEF InsertNode, InsertAtDeleted
      <3>2. \A u \in Thread : pc'[u] # "evicting"
        BY Zenon, <1>0, <1>7, <3>1, NobodyWalks DEF InsertNode, InsertAtDeleted, Goto
      <3> QED
        BY Zenon, <3>2 DEF WalkInv
    <2>2. ASSUME OneSize'
          PROVE  \E k \in Nat : \E s \in [0..k -> Node \cup {Sentinel}] : (IsList(k, s))'
      <3>0. fs' = fs
        BY Zenon, <1>7 DEF InsertNode, InsertAtDeleted, eviction
      <3>1. OneSize
        BY Zenon, <2>2, <3>0 DEF OneSize, Size
      <3>2. PICK k \in Nat : \E s \in [0..k -> Node \cup {Sentinel}] : IsList(k, s)
        BY Zenon, <3>1 DEF ListInv
      <3>3. PICK s \in [0..k -> Node \cup {Sentinel}] : IsList(k, s)
        BY Zenon, <3>2
      <3>4. head_ \notin deleted
        <4>1. head_ = s[k] /\ s[0] = Sentinel
          BY Zenon, <3>3 DEF IsList
        <4>2. Sentinel \notin deleted
          BY DEF FullInv, TypeInv, Node, Sentinel
        <4>3. CASE k = 0
          BY Zenon, <4>1, <4>2, <4>3
        <4>4. CASE k # 0
          <5>0. k \in 1..k
            BY <4>4
          <5>1. s[k] # Sentinel
            <6>1. 0 \in 0..k /\ k \in 0..k
              OBVIOUS
            <6> QED
              BY Zenon, <3>3, <4>1, <4>4, <6>1 DEF IsList
          <5>2. s[k] \in Cached
            <6>1. k \in 0..k
              OBVIOUS
            <6>2. s[k] \in Node
              BY Zenon, <5>1, <6>1
            <6> QED
              BY Zenon, <3>3, <5>0, <6>2 DEF IsList
          <5> QED
            BY Zenon, <4>1, <5>2 DEF Cached, FullInv, MapInv
        <4> QED
          BY Zenon, <4>3, <4>4
      <3>5. InsertNode(t)
        BY Zenon, <1>7, <3>4 DEF InsertAtDeleted
      <3>6. \E z \in [0..(k + 1) -> Node \cup {Sentinel}] : (IsList(k + 1, z))'
        BY Zenon, <3>1, <3>3, <3>5, ListInsert
      <3>7. k + 1 \in Nat
        OBVIOUS
      <3> QED
        BY Zenon, <3>6, <3>7
    <2>3. ListInv'
      BY Zenon, <2>2 DEF ListInv
    <2> QED
      BY Zenon, <2>1, <2>3
  <1>8. CASE EvictStart(t)
    <2>1. /\ UNCHANGED <<cache_map_, head_, next, fs, file>> /\ Unlocked
          /\ pc' = [pc EXCEPT ![t] = "evicting"]
      BY Zenon, <1>8 DEF EvictStart, nodes, Goto
    <2>2. ListInv'
      BY Zenon, <2>1, ListKept
    <2>3. \A u \in Thread : (pc'[u] = "evicting") => (u = t)
      BY Zenon, <1>0, <2>1, NobodyWalks
    <2>4. /\ bytes_to_evict'[t] = Size'[file'[t]]
          /\ prev'[t] = Sentinel /\ curr'[t] = next'[Sentinel]
      BY Zenon, <1>0, <1>8, <2>1 DEF EvictStart, Size
    <2>5. WalkInv'
      BY Zenon, <2>3, <2>4 DEF WalkInv
    <2> QED
      BY Zenon, <2>2, <2>5
  <1>9. ASSUME EvictNode(t) \/ SkipPinned(t), OneSize
        PROVE  /\ ListInv'
               /\ \/ bytes_to_evict'[t] = 0
                  \/ /\ bytes_to_evict'[t] = Size[file[t]]
                     /\ prev'[t] \in Cached'
                     /\ curr'[t] = next'[prev'[t]]
    <2>1. PICK k \in Nat : \E s \in [0..k -> Node \cup {Sentinel}] : IsList(k, s)
      BY Zenon, <1>9 DEF ListInv
    <2>2. PICK s \in [0..k -> Node \cup {Sentinel}] : IsList(k, s)
      BY Zenon, <2>1
    <2>3. Visits(t)
      BY Zenon, <1>9 DEF EvictNode, SkipPinned
    <2>4. /\ bytes_to_evict[t] = Size[file[t]]
          /\ \E i \in 0..k : i < k /\ prev[t] = s[i] /\ curr[t] = s[i + 1]
      BY ZenonT(30), <1>9, <2>2, <2>3, WalkStands
    <2>5. PICK i \in 0..k : i < k /\ prev[t] = s[i] /\ curr[t] = s[i + 1]
      BY Zenon, <2>4
    <2>6. curr[t] \in Node /\ curr[t] \in Cached
      <3>1. i + 1 \in 1..k
        BY <2>5
      <3>2. curr[t] \in Node
        BY Zenon, <1>0, <2>3 DEF Visits
      <3> QED
        BY Zenon, <2>2, <2>5, <3>1, <3>2 DEF IsList
    <2>7. CASE EvictNode(t)
      <3>1. \E z \in [0..(k - 1) -> Node \cup {Sentinel}] : (IsList(k - 1, z))'
        BY ZenonT(30), <1>9, <2>2, <2>5, <2>7, ListRemove
      <3>2. k - 1 \in Nat
        BY <2>5
      <3>3. ListInv'
        BY Zenon, <3>1, <3>2 DEF ListInv
      <3>4. file[t] \in File /\ name[curr[t]] \in File
        BY Zenon, <2>3, <2>6 DEF FullInv, TypeInv, CallInv, Visits
      <3>5. bytes_to_evict[t] = Size[name[curr[t]]]
        BY Zenon, <1>9, <2>4, <3>4 DEF OneSize
      <3>6. bytes_to_evict[t] \in Int /\ SizeT \in Nat /\ SizeT > 0
        BY Zenon, <1>0, <3>4, SizeFacts
      <3>7. bytes_to_evict'[t] = (bytes_to_evict[t] - Size[name[curr[t]]]) % SizeT
        BY Zenon, <1>0, <2>7 DEF EvictNode
      <3>8. bytes_to_evict'[t] = 0
        BY Zenon, <3>5, <3>6, <3>7, Zero
      <3> QED
        BY Zenon, <3>3, <3>8
    <2>8. CASE SkipPinned(t)
      <3>1. UNCHANGED <<cache_map_, head_, next, fs, bytes_to_evict>>
        BY Zenon, <2>8 DEF SkipPinned, nodes
      <3>2. ListInv'
        BY Zenon, <3>1, ListKept
      <3>3. prev'[t] = curr[t] /\ curr'[t] = next[curr[t]]
        BY Zenon, <1>0, <2>8 DEF SkipPinned
      <3>4. Cached' = Cached
        BY Zenon, <3>1 DEF Cached
      <3> QED
        BY Zenon, <2>4, <2>6, <3>1, <3>2, <3>3, <3>4
    <2> QED
      BY Zenon, <1>9, <2>7, <2>8
  <1>10. CASE EvictNode(t) \/ SkipPinned(t)
    <2>1. UNCHANGED <<fs, pc, file>> /\ pc[t] = "evicting"
      BY Zenon, <1>10 DEF EvictNode, SkipPinned, Visits
    <2>2. \A u \in Thread : (pc'[u] = "evicting") => (u = t)
      BY Zenon, <2>1 DEF FullInv, LockInv
    <2>3. (OneSize' <=> OneSize) /\ Size' = Size
      BY Zenon, <2>1 DEF OneSize, Size
    <2>4. ListInv'
      BY Zenon, <1>9, <1>10, <2>3 DEF ListInv
    <2>5. WalkInv'
      BY Zenon, <1>9, <1>10, <2>1, <2>2, <2>3 DEF WalkInv
    <2> QED
      BY Zenon, <2>4, <2>5
  <1> QED
    BY Zenon, <1>2, <1>3, <1>4, <1>5, <1>6, <1>7, <1>8, <1>10 DEF Step, Load, Evict

-----------------------------------------------------------------------------
(* The bytes of the cache. *)

Weigh(sz, nm, S) == SumFunctionOnSet([n \in Node |-> sz[nm[n]]], S)

LEMMA NodesFinite == ASSUME NEW S \in SUBSET Node PROVE IsFiniteSet(S)
  <1>1. IsFiniteSet(Node)
    BY BoundsAssumption, FS_Interval DEF Node
  <1> QED
    BY Zenon, <1>1, FS_Subset

LEMMA WeighFacts ==
  ASSUME NEW sz \in [File -> Int], NEW nm \in [Node -> File], NEW S \in SUBSET Node
  PROVE  /\ Weigh(sz, nm, S) \in Int
         /\ \A x \in S : Weigh(sz, nm, S) = sz[nm[x]] + Weigh(sz, nm, S \ {x})
         /\ \A T \in SUBSET S : Weigh(sz, nm, S \ T) = Weigh(sz, nm, S) - Weigh(sz, nm, T)
  <1> DEFINE g == [n \in Node |-> sz[nm[n]]]
  <1>1. g \in [Node -> Int] /\ \A n \in Node : g[n] = sz[nm[n]]
    BY Zenon
  <1>2. IsFiniteSet(S)
    BY Zenon, NodesFinite
  <1>3. \A Q : Weigh(sz, nm, Q) = SumFunctionOnSet(g, Q)
    BY Zenon DEF Weigh
  <1> HIDE DEF g
  <1>4. SumFunctionOnSet(g, S) \in Int
    BY Zenon, <1>1, <1>2, SumType
  <1>5. ASSUME NEW x \in S PROVE SumFunctionOnSet(g, S) = g[x] + SumFunctionOnSet(g, S \ {x})
    BY ONLY SMT, <1>1, <1>2, <1>5, S \in SUBSET Node, SumRemove
  <1>6. ASSUME NEW T \in SUBSET S
        PROVE  SumFunctionOnSet(g, S \ T) = SumFunctionOnSet(g, S) - SumFunctionOnSet(g, T)
    BY ZenonT(60), <1>1, <1>2, SumMinus
  <1> QED
    BY Zenon, <1>1, <1>3, <1>4, <1>5, <1>6

LEMMA WeighSame ==
  ASSUME NEW sz \in [File -> Int], NEW nm \in [Node -> File], NEW mm \in [Node -> File],
         NEW S \in SUBSET Node, \A n \in S : mm[n] = nm[n]
  PROVE  Weigh(sz, mm, S) = Weigh(sz, nm, S)
  <1> DEFINE g == [n \in Node |-> sz[nm[n]]]
             h == [n \in Node |-> sz[mm[n]]]
  <1>1. \A n \in S : g[n] = h[n]
    BY Zenon
  <1>2. IsFiniteSet(S)
    BY Zenon, NodesFinite
  <1>3. SumFunctionOnSet(g, S) = SumFunctionOnSet(h, S)
    <2> HIDE DEF g, h
    <2> QED
      BY Zenon, <1>1, <1>2, SumSame
  <1> QED
    BY Zenon, <1>3 DEF Weigh

LEMMA BytesWeigh ==
  ASSUME FullInv, SizeInv
  PROVE  /\ Size \in [File -> Int] /\ name \in [Node -> File]
         /\ Counted \in SUBSET Node
         /\ BytesInv => (bytes_used_ = Weigh(Size, name, Counted))
  <1>1. fs \in [size : [File -> 1..(SizeT - 1)], resizes : BOOLEAN]
    BY Zenon, FileSystemAssumption DEF SizeInv
  <1>2. Size \in [File -> Int]
    BY <1>1, BoundsAssumption DEF Size
  <1>3. name \in [Node -> File] /\ to_delete \in [Thread -> SUBSET Node] /\ TypeInv
    BY Zenon DEF FullInv, TypeInv
  <1>4. Counted \in SUBSET Node
    BY Zenon, <1>3, CachedNodes DEF Counted, Leaving
  <1>5. BytesInv => (bytes_used_ = Weigh(Size, name, Counted))
    BY Zenon DEF BytesInv, BytesOf, Weigh
  <1> QED
    BY Zenon, <1>2, <1>3, <1>4, <1>5

(* A step that counts nothing. *)
LEMMA BytesKept ==
  ASSUME FullInv, SizeInv, BytesInv, fs' = fs, bytes_used_' = bytes_used_,
         Counted' = Counted, name' \in [Node -> File],
         \A n \in Counted : name'[n] = name[n]
  PROVE  bytes_used_' = (BytesOf(Counted))'
  <1>1. Weigh(Size, name', Counted) = Weigh(Size, name, Counted)
    BY Zenon, BytesWeigh, WeighSame
  <1>2. (BytesOf(Counted))' = Weigh(Size', name', Counted')
    BY Zenon DEF BytesOf, Weigh
  <1>3. Size' = Size
    BY Zenon DEF Size
  <1> QED
    BY Zenon, <1>1, <1>2, <1>3, BytesWeigh

(* ... in which at most one thread moves, and no load is counted or        *)
(* begins to wait for it.                                                  *)
LEMMA BytesQuiet ==
  ASSUME FullInv, SizeInv, BytesInv, NEW t \in Thread,
         fs' = fs, bytes_used_' = bytes_used_, UNCHANGED <<cache_map_, to_delete>>,
         name' \in [Node -> File],
         \A n \in Node : (n <= made) => (name'[n] = name[n]),
         pc'[t] \notin {"count", "crashed"}, pc[t] \notin {"count", "crashed"},
         \A u \in Thread : (u # t) =>
           pc'[u] = pc[u] /\ file'[u] = file[u] /\ node'[u] = node[u]
  PROVE  BytesInv'
  <1>1. \A u \in Thread : (u \in Uncounted' <=> u \in Uncounted)
                          /\ (u \in Uncounted => u # t /\ node'[u] = node[u])
    BY Zenon DEF Uncounted
  <1>2. {node'[u] : u \in Uncounted'} = {node[u] : u \in Uncounted}
    <2>1. Uncounted' = Uncounted
      BY Zenon, <1>1 DEF Uncounted
    <2>2. \A u \in Uncounted : node'[u] = node[u]
      BY Zenon, <1>1 DEF Uncounted
    <2> QED
      BY ONLY Zenon, <2>1, <2>2
  <1>3. Cached' = Cached /\ Leaving' = Leaving
    BY Zenon DEF Cached, Leaving
  <1>4. Counted' = Counted
    BY Zenon, <1>2, <1>3 DEF Counted
  <1>5. \A n \in Counted : n \in Node /\ n <= made
    <2>1. \A n \in Cached : n <= made
      BY ZenonT(60) DEF Cached, FullInv, MapInv
    <2>2. \A n \in Leaving : n <= made
      BY Zenon DEF Leaving, FullInv, DropInv
    <2> QED
      BY Zenon, <2>1, <2>2, BytesWeigh DEF Counted
  <1>6. bytes_used_' = (BytesOf(Counted))'
    BY Zenon, <1>4, <1>5, BytesKept
  <1>7. ASSUME NEW v \in Thread, pc'[v] = "count"
        PROVE  /\ name'[node'[v]] = file'[v]
               /\ \A u \in Thread : (u \in Uncounted' /\ node'[u] = node'[v]) => (u = v)
    <2>1. v # t /\ v \in Uncounted /\ pc[v] = "count" /\ node'[v] = node[v]
          /\ file'[v] = file[v]
      BY Zenon, <1>7 DEF Uncounted
    <2>2. node[v] \in Node /\ node[v] <= made
      BY ZenonT(60), <2>1 DEF FullInv, TypeInv, CallInv
    <2>3. name'[node'[v]] = file'[v]
      BY ZenonT(60), <2>1, <2>2 DEF BytesInv
    <2> QED
      BY ZenonT(60), <1>1, <2>1, <2>3 DEF BytesInv
  <1> QED
    BY Zenon, <1>6, <1>7 DEF BytesInv

(* A thread that begins to wait for its load to be counted, or crashes. *)
LEMMA BytesWait ==
  ASSUME FullInv, SizeInv, BytesInv, NEW t \in Thread,
         InsertNode(t) \/ InsertAtDeleted(t) \/ VisitDeleted(t)
  PROVE  BytesInv'
  <1>0. /\ UNCHANGED <<fs, bytes_used_, name, to_delete, file, node>>
        /\ \E label \in {"count", "crashed"} : pc' = [pc EXCEPT ![t] = label]
    BY Zenon DEF InsertNode, InsertAtDeleted, VisitDeleted, eviction, nodes, Goto
  <1>1. pc \in [Thread -> PcType] /\ pc[t] \in {"insert", "evicting"}
    BY Zenon DEF FullInv, TypeInv, InsertNode, InsertAtDeleted, VisitDeleted, Visits
  <1>2. Uncounted' = Uncounted \cup {t} /\ t \notin Uncounted
    BY Zenon, <1>0, <1>1 DEF Uncounted
  <1>3. {node'[u] : u \in Uncounted'} = {node[u] : u \in Uncounted} \cup {node[t]}
    BY Zenon, <1>0, <1>2
  <1>4. \A u \in Uncounted : node[u] # node[t] \/ node[t] = NULL
    BY Zenon, <1>1 DEF Uncounted, FullInv, InsertInv, CallInv
  <1>5. /\ Cached' = Cached \/ Cached' = Cached \cup {node[t]}
        /\ node[t] \notin Cached \cup Leaving
    <2>1. CASE VisitDeleted(t)
      <3>1. node[t] = NULL
        BY Zenon, <2>1 DEF FullInv, CallInv, VisitDeleted, Visits
      <3>2. NULL \notin Cached /\ NULL \notin Leaving
        <4>1. NULL \notin Node
          BY DEF NULL, Node
        <4>0. to_delete \in [Thread -> SUBSET Node]
          BY Zenon DEF FullInv, TypeInv
        <4>2. Leaving \subseteq Node
          BY Zenon, <4>0 DEF Leaving
        <4> QED
          BY Zenon, <4>1, <4>2 DEF Cached
      <3>3. Cached' = Cached
        BY Zenon, <2>1 DEF VisitDeleted, nodes, Cached
      <3> QED
        BY Zenon, <3>1, <3>2, <3>3
    <2>2. CASE InsertNode(t) \/ InsertAtDeleted(t)
      <3>0. pc[t] = "insert" /\ cache_map_[file[t]] = NULL
        BY Zenon, <2>2 DEF InsertNode, InsertAtDeleted
      <3>1. node[t] \notin Cached
        BY Zenon, <3>0 DEF FullInv, InsertInv, Cached
      <3>2. node[t] \notin Leaving
        BY Zenon, <3>0 DEF FullInv, InsertInv, Leaving
      <3>3. Cached' = Cached \cup {node[t]}
        BY Zenon, <2>2, CachedInsert
      <3> QED
        BY Zenon, <3>1, <3>2, <3>3
    <2> QED
      BY Zenon, <2>1, <2>2
  <1>6. Leaving' = Leaving
    BY Zenon, <1>0 DEF Leaving
  <1>7. Counted' = Counted
    <2>1. Counted' = (Cached' \cup Leaving') \ ({node[u] : u \in Uncounted} \cup {node[t]})
      BY Zenon, <1>3 DEF Counted
    <2> QED
      BY Zenon, <1>5, <1>6, <2>1 DEF Counted
  <1>8. bytes_used_' = (BytesOf(Counted))'
    BY Zenon, <1>0, <1>7, BytesKept, BytesWeigh
  <1>9. ASSUME NEW v \in Thread, pc'[v] = "count"
        PROVE  /\ name'[node'[v]] = file'[v]
               /\ \A u \in Thread : (u \in Uncounted' /\ node'[u] = node'[v]) => (u = v)
    <2>1. CASE v = t
      <3>1. pc[t] = "insert"
        BY Zenon, <1>9, <1>0, <1>1, <2>1 DEF InsertNode, InsertAtDeleted, VisitDeleted, Goto
      <3>2. name[node[t]] = file[t] /\ \A u \in Thread : node[u] = node[t] => u = t
        BY Zenon, <3>1 DEF FullInv, InsertInv
      <3> QED
        BY Zenon, <1>0, <2>1, <3>2
    <2>2. CASE v # t
      <3>1. pc[v] = "count" /\ v \in Uncounted
        BY Zenon, <1>0, <1>1, <1>9, <2>2 DEF Uncounted
      <3>2. node[v] # NULL
        BY Zenon, <3>1 DEF FullInv, CallInv
      <3>3. node[v] # node[t]
        BY Zenon, <1>4, <3>1, <3>2
      <3> QED
        BY Zenon, <1>0, <1>2, <3>1, <3>3 DEF BytesInv
    <2> QED
      BY Zenon, <2>1, <2>2
  <1> QED
    BY Zenon, <1>8, <1>9 DEF BytesInv

(* The bytes of a load are counted. *)
LEMMA BytesCount ==
  ASSUME FullInv, SizeInv, BytesInv, NEW t \in Thread, CountBytes(t)
  PROVE  BytesInv'
  <1> DEFINE n == node[t]
  <1>0. /\ UNCHANGED <<fs, cache_map_, name, to_delete, node>>
        /\ pc' = [pc EXCEPT ![t] = "pinned"] /\ pc[t] = "count"
        /\ file' = [file EXCEPT ![t] = NULL]
        /\ bytes_used_' = bytes_used_ + Size[file[t]]
    BY Zenon DEF CountBytes, eviction, nodes, Goto
  <1>1. /\ pc \in [Thread -> PcType] /\ file \in [Thread -> File \cup {NULL}]
        /\ name \in [Node -> File]
        /\ n \in Node /\ n # NULL /\ file[t] \in File
    BY Zenon, <1>0 DEF FullInv, TypeInv, CallInv
  <1>2. Uncounted' = Uncounted \ {t} /\ t \in Uncounted
    BY Zenon, <1>0, <1>1 DEF Uncounted
  <1>3. name[n] = file[t] /\ \A u \in Uncounted \ {t} : node[u] # n
    BY Zenon, <1>0 DEF BytesInv, Uncounted
  <1>4. n \in Cached
    <2>1. cache_map_[name[n]] = n
      BY Zenon, <1>0, <1>1 DEF FullInv, PinInv
    <2> QED
      BY Zenon, <1>1, <2>1 DEF Cached
  <1>5. Cached' = Cached /\ Leaving' = Leaving
    BY Zenon, <1>0 DEF Cached, Leaving
  <1>6. Counted' = Counted \cup {n} /\ n \notin Counted
    <2>1. {node[u] : u \in Uncounted} = {node[u] : u \in Uncounted \ {t}} \cup {n}
      BY Zenon, <1>2
    <2>2. n \notin {node[u] : u \in Uncounted \ {t}}
      BY Zenon, <1>3
    <2>3. {node'[u] : u \in Uncounted'} = {node[u] : u \in Uncounted \ {t}}
      BY Zenon, <1>0, <1>2
    <2> QED
      BY Zenon, <1>4, <1>5, <2>1, <2>2, <2>3 DEF Counted
  <1>7. bytes_used_' = (BytesOf(Counted))'
    <2>0. Counted \in SUBSET Node /\ Size \in [File -> Int]
          /\ bytes_used_ = Weigh(Size, name, Counted)
      BY Zenon, BytesWeigh
    <2>1. Counted \cup {n} \in SUBSET Node /\ (Counted \cup {n}) \ {n} = Counted
      BY Zenon, <1>1, <1>6, <2>0
    <2>2. Weigh(Size, name, Counted \cup {n})
            = Size[name[n]] + Weigh(Size, name, (Counted \cup {n}) \ {n})
      <3> DEFINE S == Counted \cup {n}
      <3>1. n \in S /\ S \in SUBSET Node
        BY Zenon, <2>1
      <3> HIDE DEF n, S
      <3>2. \A x \in S : Weigh(Size, name, S) = Size[name[x]] + Weigh(Size, name, S \ {x})
        BY ONLY ZenonT(60), <1>1, <2>0, <3>1, WeighFacts
      <3>3. Weigh(Size, name, S) = Size[name[n]] + Weigh(Size, name, S \ {n})
        BY ONLY Zenon, <3>1, <3>2
      <3> QED
        BY Zenon, <3>3 DEF S
    <2>3. Weigh(Size, name, Counted) \in Int
      BY Zenon, <1>1, <2>0, WeighFacts
    <2>4. (BytesOf(Counted))' = Weigh(Size', name', Counted')
      BY Zenon DEF BytesOf, Weigh
    <2>5. Size' = Size /\ name' = name
      BY Zenon, <1>0 DEF Size
    <2>6. (BytesOf(Counted))' = Size[file[t]] + Weigh(Size, name, Counted)
      BY Zenon, <1>3, <1>6, <2>1, <2>2, <2>4, <2>5
    <2>7. Size[file[t]] \in Int
      BY Zenon, <1>1, <2>0
    <2>8. Size[file[t]] + bytes_used_ = bytes_used_ + Size[file[t]]
      BY ONLY SMT, <2>0, <2>3, <2>7
    <2> QED
      BY Zenon, <1>0, <2>0, <2>6, <2>8
  <1>8. ASSUME NEW v \in Thread, pc'[v] = "count"
        PROVE  /\ name'[node'[v]] = file'[v]
               /\ \A u \in Thread : (u \in Uncounted' /\ node'[u] = node'[v]) => (u = v)
    <2>1. v # t /\ pc[v] = "count" /\ file'[v] = file[v]
      BY Zenon, <1>0, <1>1, <1>8
    <2> QED
      BY Zenon, <1>0, <1>2, <2>1 DEF BytesInv
  <1> QED
    BY Zenon, <1>7, <1>8 DEF BytesInv

(* The walk moves nodes from the map to those on the way out. *)
LEMMA BytesWalk ==
  ASSUME FullInv, SizeInv, BytesInv, NEW t \in Thread, EvictNode(t) \/ SkipPinned(t)
  PROVE  BytesInv'
  <1>0. UNCHANGED <<fs, name, pc, file, node, bytes_used_>>
    BY Zenon DEF EvictNode, SkipPinned, nodes
  <1>1. Cached' \cup Leaving' = Cached \cup Leaving
    <2>1. CASE SkipPinned(t)
      BY Zenon, <2>1 DEF SkipPinned, nodes, Cached, Leaving
    <2>2. CASE EvictNode(t)
      <3> DEFINE n == curr[t]
      <3>0. /\ Visits(t) /\ n \notin deleted
            /\ cache_map_' = [cache_map_ EXCEPT ![name[n]] = NULL]
            /\ to_delete' = [to_delete EXCEPT ![t] = to_delete[t] \cup {n}]
        BY Zenon, <2>2 DEF EvictNode
      <3>1. /\ n \in Node /\ n # NULL /\ rw_m_ = t /\ n <= made /\ name[n] \in File
            /\ to_delete \in [Thread -> SUBSET Node]
            /\ cache_map_ \in [File -> Node \cup {NULL}]
        BY Zenon, <3>0 DEF Visits, FullInv, TypeInv, LockInv, LinkInv
      <3>2. \A u \in Thread : u # t => to_delete[u] = {}
        BY Zenon, <3>1 DEF FullInv, LockInv
      <3>3. n \in to_delete[t] \/ cache_map_[name[n]] = n
        <4>1. \A u \in Thread : pc[u] = "insert" => node[u] # n
          BY Zenon DEF FullInv, InsertInv
        <4> QED
          BY Zenon, <3>0, <3>1, <3>2, <4>1 DEF FullInv, NodeInv
      <3>4. CASE n \in to_delete[t]
        <4>1. cache_map_[name[n]] = NULL
          BY Zenon, <3>4 DEF FullInv, DropInv
        <4>2. cache_map_' = cache_map_
          BY Zenon, <3>0, <3>1, <4>1
        <4>3. to_delete' = to_delete
          <5>1. to_delete[t] \cup {n} = to_delete[t]
            BY Zenon, <3>4
          <5> QED
            BY Zenon, <3>0, <3>1, <5>1
        <4> QED
          BY Zenon, <4>2, <4>3 DEF Cached, Leaving
      <3>5. CASE cache_map_[name[n]] = n
        <4>1. n \in Cached
          BY Zenon, <3>1, <3>5 DEF Cached
        <4>2. Cached' = Cached \ {n}
          BY Zenon, <2>2, <4>1, CachedRemove
        <4>3. Leaving' = Leaving \cup {n}
          <5>1. Leaving = to_delete[t]
            BY Zenon, <3>2 DEF Leaving
          <5>2. /\ to_delete'[t] = to_delete[t] \cup {n}
                /\ \A u \in Thread : u # t => to_delete'[u] = {}
            BY Zenon, <3>0, <3>1, <3>2
          <5>3. Leaving' = to_delete[t] \cup {n}
            BY Zenon, <5>2 DEF Leaving
          <5> QED
            BY Zenon, <5>1, <5>3
        <4> QED
          BY Zenon, <4>1, <4>2, <4>3
      <3> QED
        BY Zenon, <3>3, <3>4, <3>5
    <2> QED
      BY Zenon, <2>1, <2>2
  <1>2. Uncounted' = Uncounted
    BY Zenon, <1>0 DEF Uncounted
  <1>3. Counted' = Counted
    BY Zenon, <1>0, <1>1, <1>2 DEF Counted
  <1>4. bytes_used_' = (BytesOf(Counted))'
    BY Zenon, <1>0, <1>3, BytesKept, BytesWeigh
  <1> QED
    BY Zenon, <1>0, <1>2, <1>4 DEF BytesInv

(* evict() deletes the nodes and takes their bytes away. *)
LEMMA BytesEnd ==
  ASSUME FullInv, SizeInv, BytesInv, NEW t \in Thread, EvictEnd(t)
  PROVE  BytesInv'
  <1> DEFINE T == to_delete[t]
  <1>0. /\ UNCHANGED <<fs, cache_map_, name, node>>
        /\ pc[t] = "evicting"
        /\ \E label \in {"read", "idle"} : pc' = [pc EXCEPT ![t] = label]
        /\ to_delete' = [to_delete EXCEPT ![t] = {}]
        /\ bytes_used_' = bytes_used_ - BytesOf(T)
    BY Zenon DEF EvictEnd, ReturnsNothing, Goto
  <1>1. /\ pc \in [Thread -> PcType] /\ file \in [Thread -> File \cup {NULL}]
        /\ name \in [Node -> File] /\ rw_m_ = t
        /\ to_delete \in [Thread -> SUBSET Node] /\ T \in SUBSET Node
    BY Zenon, <1>0 DEF FullInv, TypeInv, LockInv
  <1>2. Uncounted' = Uncounted /\ t \notin Uncounted
    BY Zenon, <1>0, <1>1 DEF Uncounted
  <1>3. Leaving = T /\ Leaving' = {}
    <2>1. \A u \in Thread : u # t => to_delete[u] = {}
      BY Zenon, <1>1 DEF FullInv, LockInv
    <2>2. \A u \in Thread : to_delete'[u] = {}
      BY Zenon, <1>0, <1>1, <2>1
    <2> QED
      BY Zenon, <2>1, <2>2 DEF Leaving
  <1>4. ASSUME NEW n \in T PROVE n \notin Cached /\ \A u \in Uncounted : node[u] # n
    <2>1. n \in Node /\ name[n] \in File /\ cache_map_[name[n]] = NULL /\ n # NULL
      <3>1. NULL \notin Node
        BY DEF NULL, Node
      <3> QED
        BY Zenon, <1>1, <1>4, <3>1 DEF FullInv, DropInv
    <2>2. n \notin Cached
      <3>1. \A f \in File : (cache_map_[f] # NULL) => cache_map_[f] \notin to_delete[t]
        BY Zenon DEF FullInv, MapInv
      <3> QED
        BY Zenon, <1>4, <2>1, <3>1 DEF Cached
    <2>3. ASSUME NEW u \in Uncounted PROVE node[u] # n
      BY Zenon, <2>1, <2>3 DEF Uncounted, FullInv, PinInv
    <2> QED
      BY Zenon, <2>2, <2>3
  <1>5. T \in SUBSET Counted /\ Counted' = Counted \ T
    <2>1. Cached' = Cached
      BY Zenon, <1>0 DEF Cached
    <2>2. {node'[u] : u \in Uncounted'} = {node[u] : u \in Uncounted}
      BY Zenon, <1>0, <1>2
    <2>3. T \cap {node[u] : u \in Uncounted} = {} /\ T \cap Cached = {}
      BY Zenon, <1>4
    <2> QED
      BY Zenon, <1>3, <2>1, <2>2, <2>3 DEF Counted
  <1>6. bytes_used_' = (BytesOf(Counted))'
    <2>0. Counted \in SUBSET Node /\ Size \in [File -> Int]
          /\ bytes_used_ = Weigh(Size, name, Counted)
      BY Zenon, BytesWeigh
    <2>1. Weigh(Size, name, Counted \ T) = Weigh(Size, name, Counted) - Weigh(Size, name, T)
      <3> HIDE DEF T
      <3> QED
        BY Zenon, <1>1, <1>5, <2>0, WeighFacts
    <2>2. (BytesOf(Counted))' = Weigh(Size', name', Counted')
      BY Zenon DEF BytesOf, Weigh
    <2>3. Size' = Size /\ name' = name
      BY Zenon, <1>0 DEF Size
    <2>4. BytesOf(T) = Weigh(Size, name, T)
      BY Zenon DEF BytesOf, Weigh
    <2> QED
      BY Zenon, <1>0, <1>5, <2>0, <2>1, <2>2, <2>3, <2>4
  <1>7. ASSUME NEW v \in Thread, pc'[v] = "count"
        PROVE  /\ name'[node'[v]] = file'[v]
               /\ \A u \in Thread : (u \in Uncounted' /\ node'[u] = node'[v]) => (u = v)
    <2>1. v # t /\ pc[v] = "count"
      BY Zenon, <1>0, <1>1, <1>7
    <2>2. file'[v] = file[v]
      BY Zenon, <1>1, <2>1 DEF EvictEnd, ReturnsNothing
    <2> QED
      BY Zenon, <1>0, <1>2, <2>1, <2>2 DEF BytesInv
  <1> QED
    BY Zenon, <1>6, <1>7 DEF BytesInv

LEMMA MadeBounded == ASSUME FullInv PROVE made <= MaxPins
  <1>1. Loading \in SUBSET Thread
    BY Zenon DEF Loading
  <1>2. Cardinality(Loading) \in Nat
    BY Zenon, <1>1, ThreadAssumption, FS_Subset, FS_CardinalityType
  <1> QED
    BY <1>2, BoundsAssumption DEF FullInv, TypeInv, BoundInv

(* Each step keeps the bytes. *)
LEMMA BytesStep ==
  ASSUME FullInv, SizeInv, BytesInv, NEW t \in Thread, Step(t)
  PROVE  BytesInv'
  <1>0. /\ pc \in [Thread -> PcType]
        /\ file \in [Thread -> File \cup {NULL}]
        /\ node \in [Thread -> Node \cup {NULL}]
        /\ name \in [Node -> File]
        /\ to_delete \in [Thread -> SUBSET Node]
    BY Zenon DEF FullInv, TypeInv
  <1>1. ASSUME UNCHANGED <<fs, bytes_used_, cache_map_, name, to_delete>>,
               \A u \in Thread : (u # t) => file'[u] = file[u] /\ node'[u] = node[u],
               pc[t] \notin {"count", "crashed"},
               NEW label, label \notin {"count", "crashed"}, pc' = [pc EXCEPT ![t] = label]
        PROVE  BytesInv'
    <2>1. /\ pc'[t] \notin {"count", "crashed"}
          /\ \A u \in Thread : (u # t) =>
               pc'[u] = pc[u] /\ file'[u] = file[u] /\ node'[u] = node[u]
      BY Zenon, <1>0, <1>1
    <2> QED
      BY Zenon, <1>0, <1>1, <2>1, BytesQuiet
  <1>2. CASE \E f \in File : PinHit(t, f) \/ PinMiss(t, f)
    <2>1. /\ UNCHANGED <<fs, bytes_used_, cache_map_, name, to_delete>> /\ pc[t] = "idle"
          /\ \E label \in {"pinned", "open"} : pc' = [pc EXCEPT ![t] = label]
      BY Zenon, <1>2 DEF PinHit, PinMiss, nodes, eviction, Goto
    <2>2. \A u \in Thread : (u # t) => file'[u] = file[u] /\ node'[u] = node[u]
      BY Zenon, <1>0, <1>2 DEF PinHit, PinMiss
    <2> QED
      BY Zenon, <1>1, <2>1, <2>2
  <1>3. CASE OpenFails(t) \/ CheckSpace(t) \/ ReadFails(t) \/ ReadsForever(t)
    <2>1. /\ UNCHANGED <<fs, bytes_used_, cache_map_, name, to_delete>>
          /\ pc[t] \in {"open", "read"}
          /\ \E label \in {"idle", "evict", "read", "reading forever"} :
               pc' = [pc EXCEPT ![t] = label]
      BY Zenon, <1>3 DEF OpenFails, CheckSpace, ReadFails, ReadsForever, ReturnsNothing, nodes,
                        eviction, Goto
    <2>2. \A u \in Thread : (u # t) => file'[u] = file[u] /\ node'[u] = node[u]
      BY Zenon, <1>0, <1>3 DEF OpenFails, CheckSpace, ReadFails, ReadsForever, ReturnsNothing
    <2> QED
      BY Zenon, <1>1, <2>1, <2>2
  <1>4. CASE DuplicateLoad(t) \/ EvictEmpty(t) \/ Unpin(t)
    <2>1. /\ UNCHANGED <<fs, bytes_used_, cache_map_, name, to_delete>>
          /\ pc[t] \in {"insert", "evict", "pinned"}
      BY Zenon, <1>4 DEF DuplicateLoad, EvictEmpty, Unpin, nodes, eviction
    <2>2. pc' = [pc EXCEPT ![t] = "idle"]
      BY Zenon, <1>4, UnpinFinds DEF DuplicateLoad, EvictEmpty, ReturnsNothing, Goto
    <2>3. \A u \in Thread : (u # t) => file'[u] = file[u] /\ node'[u] = node[u]
      BY Zenon, <1>0, <1>4 DEF DuplicateLoad, EvictEmpty, Unpin, ReturnsNothing
    <2> QED
      BY Zenon, <1>1, <2>1, <2>2, <2>3
  <1>5. CASE EvictStart(t)
    <2>1. /\ UNCHANGED <<fs, bytes_used_, cache_map_, name, file, node>> /\ pc[t] = "evict"
          /\ pc' = [pc EXCEPT ![t] = "evicting"] /\ Unlocked
          /\ to_delete' = [to_delete EXCEPT ![t] = {}]
      BY Zenon, <1>5 DEF EvictStart, nodes, Goto
    <2>2. to_delete' = to_delete
      BY Zenon, <1>0, <2>1, NobodyWalks
    <2> QED
      BY Zenon, <1>1, <2>1, <2>2
  <1>6. CASE MakeNode(t)
    <2>1. /\ UNCHANGED <<fs, bytes_used_, cache_map_, to_delete, file>> /\ pc[t] = "read"
          /\ pc' = [pc EXCEPT ![t] = "insert"]
          /\ name' = [name EXCEPT ![made + 1] = file[t]]
          /\ node' = [node EXCEPT ![t] = made + 1]
      BY Zenon, <1>6 DEF MakeNode, eviction, Goto
    <2>2. file[t] \in File /\ made \in Nat
      BY Zenon, <2>1 DEF FullInv, CallInv, TypeInv
    <2>3. name' \in [Node -> File]
      BY Zenon, <1>0, <2>1, <2>2
    <2>4. \A n \in Node : (n <= made) => (name'[n] = name[n])
      <3>1. \A n \in Node : (n <= made) => (n # made + 1)
        BY <2>2 DEF Node
      <3> QED
        BY Zenon, <1>0, <2>1, <3>1
    <2>5. /\ pc'[t] \notin {"count", "crashed"} /\ pc[t] \notin {"count", "crashed"}
          /\ \A u \in Thread : (u # t) =>
               pc'[u] = pc[u] /\ file'[u] = file[u] /\ node'[u] = node[u]
      BY Zenon, <1>0, <2>1
    <2> QED
      BY Zenon, <2>1, <2>3, <2>4, <2>5, BytesQuiet
  <1> QED
    BY Zenon, <1>2, <1>3, <1>4, <1>5, <1>6, BytesWait, BytesCount, BytesWalk, BytesEnd
    DEF Step, Load, Evict

-----------------------------------------------------------------------------
LEMMA ConsInit == Init => ConsInv
  <1> SUFFICES ASSUME Init PROVE ConsInv
    OBVIOUS
  <1>1. CallsInv
    <2>1. InsideSet = {}
      BY Zenon DEF Init, InsideSet, Inside
    <2> QED
      BY <2>1, FS_EmptySet DEF Init, CallsInv
  <1>2. SizeInv
    BY DEF Init, SizeInv
  <1>3. Cached = {} /\ Counted = {}
    BY Zenon DEF Init, Cached, Counted, Leaving
  <1>4. BytesInv
    BY Zenon, <1>3, SumEmpty DEF Init, BytesInv, BytesOf
  <1>5. ListInv
    <2> DEFINE s == [i \in 0..0 |-> Sentinel]
    <2>1. s \in [0..0 -> Node \cup {Sentinel}] /\ s[0] = Sentinel /\ 0 \in Nat
      OBVIOUS
    <2>2. \A i \in 0..0 : i = 0
      OBVIOUS
    <2>3. 1..0 = {}
      OBVIOUS
    <2>4. next[Sentinel] = NULL
      BY Zenon DEF Init
    <2> HIDE DEF s
    <2>5. IsList(0, s)
      BY Zenon, <1>3, <2>1, <2>2, <2>3, <2>4 DEF Init, IsList
    <2> QED
      BY Zenon, <2>1, <2>5 DEF ListInv
  <1>6. WalkInv
    BY Zenon DEF Init, WalkInv
  <1> QED
    BY Zenon, <1>1, <1>2, <1>4, <1>5, <1>6 DEF ConsInv

(* Outside of evict() nothing is on the way out. *)
LEMMA CountedUnlocked ==
  ASSUME FullInv, Unlocked
  PROVE  Counted = Cached \ {node[t] : t \in Uncounted}
  <1>1. Leaving = {}
    BY Zenon, NobodyWalks DEF Leaving
  <1> QED
    BY Zenon, <1>1 DEF Counted

(* What the invariant says while the cache lives. *)
LEMMA ConsImplies ==
  ASSUME FullInv, ConsInv
  PROVE  /\ (OneSize /\ Unlocked) =>
              /\ Listed = Cached
              /\ Cached \cap deleted = {}
              /\ head_ \in Cached \cup {Sentinel}
              /\ next[head_] = NULL
         /\ Unlocked => bytes_used_ = BytesOf(Cached \ {node[t] : t \in Uncounted})
         /\ (\A t \in Thread : ~Inside(t)) => (calls = pin_total_ + errors)
  <1>1. ASSUME OneSize
        PROVE  /\ Listed = Cached
               /\ Cached \cap deleted = {}
               /\ head_ \in Cached \cup {Sentinel}
               /\ next[head_] = NULL
    <2>1. PICK k \in Nat : \E s \in [0..k -> Node \cup {Sentinel}] : IsList(k, s)
      BY Zenon, <1>1 DEF ConsInv, ListInv
    <2>2. PICK s \in [0..k -> Node \cup {Sentinel}] : IsList(k, s)
      BY Zenon, <2>1
    <2>3. Listed = Cached
      BY Zenon, <2>2, ListedCached DEF FullInv
    <2>4. Cached \cap deleted = {}
      <3>1. \A f \in File : (cache_map_[f] # NULL) => cache_map_[f] \notin deleted
        BY Zenon DEF FullInv, MapInv
      <3> QED
        BY Zenon, <3>1 DEF Cached
    <2>5. k \in 0..k /\ (k = 0 \/ k \in 1..k)
      OBVIOUS
    <2>6. head_ \in Cached \cup {Sentinel}
      BY Zenon, <2>2, <2>5 DEF IsList
    <2>7. next[head_] = NULL
      BY Zenon, <2>2, <2>5 DEF IsList
    <2> QED
      BY Zenon, <2>3, <2>4, <2>6, <2>7
  <1>2. Unlocked => bytes_used_ = BytesOf(Cached \ {node[t] : t \in Uncounted})
    BY Zenon, CountedUnlocked DEF ConsInv, BytesInv
  <1>3. ASSUME \A t \in Thread : ~Inside(t) PROVE calls = pin_total_ + errors
    <2>1. InsideSet = {}
      BY Zenon, <1>3 DEF InsideSet
    <2>2. /\ pin_total_ \in Nat /\ errors \in Nat
          /\ calls = pin_total_ + errors + 0
      BY Zenon, <2>1, FS_EmptySet DEF ConsInv, CallsInv
    <2> QED
      BY <2>2
  <1> QED
    BY Zenon, <1>1, <1>2, <1>3

(* Listed depends on the links alone. *)
ListOf(nx) ==
    LET reach[i \in 0..MaxPins] ==
          IF i = 0 THEN {nx[Sentinel]} ELSE {nx[n] : n \in reach[i - 1] \ {NULL}}
    IN  (UNION {reach[i] : i \in 0..MaxPins}) \ {NULL}

LEMMA ListedSame == ASSUME next' = next PROVE Listed' = Listed
  <1>1. Listed = ListOf(next) /\ Listed' = ListOf(next')
    BY Zenon DEF Listed, ListOf
  <1> QED
    BY Zenon, <1>1

(* What the destructor leaves: with files of one size, every node that was *)
(* made is deleted.                                                        *)
LEMMA ConsDestroy ==
  ASSUME FullInv, ConsInv, Destroy
  PROVE  CacheConsistent'
  <1>0. /\ UNCHANGED <<rw_m_, cache_map_, head_, next, name, made, bytes_used_, pc, node, fs>>
        /\ UNCHANGED <<calls, pin_total_, errors>>
        /\ Unlocked /\ destroyed' = TRUE /\ deleted' = deleted \cup Listed
        /\ \A t \in Thread : pc[t] = "idle"
    BY Zenon DEF Destroy, totals, eviction
  <1>1. ASSUME OneSize PROVE deleted \cup Listed = 1..made
    <2>1. Listed = Cached
      BY Zenon, <1>0, <1>1, ConsImplies
    <2>2. \A n \in deleted \cup Cached : n \in Node /\ n <= made
      <3>1. deleted \subseteq Node /\ Cached \subseteq Node
        BY Zenon, CachedNodes DEF FullInv, TypeInv
      <3>2. \A n \in Cached : n <= made
        BY ZenonT(60) DEF Cached, FullInv, MapInv
      <3>3. \A n \in deleted : n <= made
        BY Zenon DEF FullInv, LinkInv
      <3> QED
        BY Zenon, <3>1, <3>2, <3>3
    <2>3. ASSUME NEW n \in Node, n <= made PROVE n \in deleted \cup Cached
      <3>1. \A t \in Thread : to_delete[t] = {} /\ pc[t] # "insert"
        BY Zenon, <1>0, NobodyWalks
      <3>2. n \in deleted \/ cache_map_[name[n]] = n
        BY Zenon, <2>3, <3>1 DEF FullInv, NodeInv
      <3>3. name[n] \in File /\ n # NULL
        <4>1. n # NULL
          BY DEF Node, NULL
        <4> QED
          BY Zenon, <4>1 DEF FullInv, TypeInv
      <3> QED
        BY Zenon, <3>2, <3>3 DEF Cached
    <2>4. \A n \in 1..made : n \in Node /\ n <= made
      <3>1. made \in Nat /\ made <= MaxPins
        BY Zenon, MadeBounded DEF FullInv, TypeInv
      <3> QED
        BY <3>1, BoundsAssumption DEF Node
    <2>5. \A n \in Node : (n <= made) => n \in 1..made
      BY DEF FullInv, TypeInv, Node
    <2> QED
      BY Zenon, <2>1, <2>2, <2>3, <2>4, <2>5
  <1>2. (OneSize' <=> OneSize) /\ (Unlocked' <=> Unlocked) /\ Cached' = Cached
        /\ Uncounted' = Uncounted
    BY Zenon, <1>0 DEF OneSize, Size, Unlocked, Cached, Uncounted
  <1>3. Listed' = Listed
    BY Zenon, <1>0, ListedSame
  <1>4. ASSUME OneSize'
        PROVE  /\ Listed' = Cached'
               /\ destroyed' \/ Cached' \cap deleted' = {}
               /\ destroyed' => (deleted' = 1..made')
               /\ head_' \in Cached' \cup {Sentinel}
               /\ next'[head_'] = NULL
    BY Zenon, <1>0, <1>1, <1>2, <1>3, <1>4, ConsImplies
  <1>5. bytes_used_' = (BytesOf(Cached \ {node[t] : t \in Uncounted}))'
    BY Zenon, <1>0, <1>2, ConsImplies DEF BytesOf, Size
  <1>6. calls' = pin_total_' + errors'
    BY Zenon, <1>0, ConsImplies DEF Inside
  <1> QED
    BY Zenon, <1>4, <1>5, <1>6 DEF CacheConsistent, Uncounted

(* The inductive invariant of CacheConsistent. *)
WholeInv == CacheConsistent /\ (~destroyed => ConsInv)

LEMMA ConsConsistent ==
  ASSUME FullInv, ConsInv, ~destroyed
  PROVE  CacheConsistent
  BY Zenon, ConsImplies DEF CacheConsistent, Uncounted

LEMMA WholeNext == CacheInv /\ CacheInv' /\ WholeInv /\ [Next]_vars => WholeInv'
  <1> SUFFICES ASSUME CacheInv, CacheInv', WholeInv, [Next]_vars PROVE WholeInv'
    OBVIOUS
  <1>1. CASE Next /\ Destroy
    <2>1. FullInv /\ ConsInv /\ destroyed'
      BY Zenon, <1>1 DEF Next, CacheInv, WholeInv, Destroy
    <2> QED
      BY Zenon, <1>1, <2>1, ConsDestroy DEF WholeInv
  <1>2. CASE Next /\ \E t \in Thread : Step(t) /\ destroyed' = destroyed
    <2>1. PICK t \in Thread : Step(t)
      BY Zenon, <1>2
    <2>2. FullInv /\ ConsInv /\ ~destroyed'
      <3>1. ~destroyed /\ destroyed' = destroyed
        BY Zenon, <1>2 DEF Next
      <3>2. ~destroyed'
        BY <3>1
      <3> QED
        BY Zenon, <3>1, <3>2 DEF CacheInv, WholeInv
    <2>3. ConsInv'
      BY Zenon, <2>1, <2>2, CallsStep, SizeStep, BytesStep, ListStep DEF ConsInv
    <2>4. FullInv'
      BY Zenon, <2>2 DEF CacheInv
    <2>5. CacheConsistent'
      BY <2>2, <2>3, <2>4, ConsConsistent, PTL
    <2> QED
      BY Zenon, <2>3, <2>5 DEF WholeInv
  <1>3. CASE UNCHANGED vars
    <2>1. /\ UNCHANGED <<rw_m_, cache_map_, head_, next, name, made, deleted, bytes_used_>>
          /\ UNCHANGED <<calls, pin_total_, errors, pc, file, node, curr, prev>>
          /\ UNCHANGED <<bytes_to_evict, to_delete, fs, destroyed>>
      BY Zenon, <1>3 DEF vars
    <2>2. CacheConsistent'
      <3>1. Listed' = Listed
        BY Zenon, <2>1, ListedSame
      <3>2. (OneSize' <=> OneSize) /\ (Unlocked' <=> Unlocked) /\ Cached' = Cached
        BY Zenon, <2>1 DEF OneSize, Size, Unlocked, Cached
      <3> QED
        BY Zenon, <2>1, <3>1, <3>2 DEF WholeInv, CacheConsistent, BytesOf, Size, Inside
    <2>3. ASSUME ConsInv PROVE ConsInv'
      <3>1. CallsInv'
        BY Zenon, <2>1, <2>3 DEF ConsInv, CallsInv, InsideSet, Inside
      <3>2. SizeInv'
        BY Zenon, <2>1, <2>3 DEF ConsInv, SizeInv
      <3>3. BytesInv'
        <4>1. Uncounted' = Uncounted /\ Cached' = Cached /\ Leaving' = Leaving
          BY Zenon, <2>1 DEF Uncounted, Cached, Leaving
        <4>2. Counted' = Counted
          BY Zenon, <2>1, <4>1 DEF Counted
        <4> QED
          BY Zenon, <2>1, <2>3, <4>1, <4>2 DEF ConsInv, BytesInv, BytesOf, Size
      <3>4. ListInv'
        BY Zenon, <2>1, <2>3, ListKept DEF ConsInv
      <3>5. WalkInv'
        BY Zenon, <2>1, <2>3, WalkKept DEF ConsInv
      <3> QED
        BY Zenon, <3>1, <3>2, <3>3, <3>4, <3>5 DEF ConsInv
    <2> QED
      BY Zenon, <2>1, <2>2, <2>3 DEF WholeInv
  <1> QED
    BY Zenon, <1>1, <1>2, <1>3 DEF Next, Step

(* The cache agrees with itself, for any threads, files, sizes and number  *)
(* of calls: bytes_used_ counts exactly the nodes of the map that a load   *)
(* has counted and each call of pin() is counted once; and, with files of  *)
(* one size, the links give exactly the nodes of the map, none of them     *)
(* deleted, and the destructor leaves no node that was ever made.          *)
THEOREM ConsistentTheorem == Spec => []CacheConsistent
  <1>1. Init => WholeInv
    <2>1. Init => FullInv /\ ConsInv /\ ~destroyed
      BY Zenon, InitInv, ConsInit DEF CacheInv, Init
    <2> QED
      BY Zenon, <2>1, ConsConsistent DEF WholeInv
  <1>2. WholeInv => CacheConsistent
    BY Zenon DEF WholeInv
  <1> QED
    BY InitInv, NextInv, WholeNext, <1>1, <1>2, PTL DEF Spec
=============================================================================
