----------------------------- MODULE FreeLists -----------------------------
(***************************************************************************)
(* The segregated free lists that the one-layer allocator (MyMalloc.cpp),  *)
(* the central heap (heap_alloc.cpp) and the thread caches                 *)
(* (thread_cache.cpp) each keep, as operators on the list heads.           *)
(*                                                                         *)
(* A block is named by the address of its header.  A free list is the      *)
(* sequence of blocks met from its head along next_; the pointers are in   *)
(* DualLnkList.  unit is the granule of the lists (8 bytes, or a page in   *)
(* the central heap), and sz[a] the _objectSize in the header of block a.  *)
(***************************************************************************)
EXTENDS Integers, Sequences, FiniteSetsExt

(* The operators of SequencesExt that the lists need, as they are there.   *)
(* SequencesExt itself brings in Bags, which the prover is slow with.      *)
SelectInSeq(s, Test(_)) ==
    LET found == {i \in 1..Len(s) : Test(s[i])}
    IN  IF found # {} THEN Min(found) ELSE 0
InsertAt(s, i, e) == SubSeq(s, 1, i - 1) \o <<e>> \o SubSeq(s, i, Len(s))
RemoveAt(s, i) == SubSeq(s, 1, i - 1) \o SubSeq(s, i + 1, Len(s))

Put(f, x, v) == [y \in DOMAIN f \cup {x} |-> IF y = x THEN v ELSE f[y]]
Without(f, x) == [y \in DOMAIN f \ {x} |-> f[y]]

HeaderSize == 16                        \* sizeof(ObjHeader), also the footer
NodeSize == 16                          \* sizeof(DualLnkNode)
MinTotal == NodeSize + 2 * HeaderSize   \* 48, the least block that can be freed

(* The request with its header and footer, rounded up to the granule. *)
TotalSize(size, unit) ==
    LET rounded == ((size + 2 * HeaderSize + unit - 1) \div unit) * unit
    IN  IF rounded < MinTotal THEN MinTotal ELSE rounded

(* The list of a size: the last one holds every larger size. *)
ClassOf(total, unit, last) ==
    IF total \div unit > last THEN last ELSE total \div unit

(* Where insertFreeBlock puts block a: in front, but in the last class     *)
(* before the first block that is not smaller.                             *)
InsertPosition(s, sz, a, isLast) ==
    IF ~isLast THEN 1
    ELSE LET notSmaller == SelectInSeq(s, LAMBDA b : sz[b] >= sz[a])
         IN  IF notSmaller = 0 THEN Len(s) + 1 ELSE notSmaller

insertFreeBlock(fl, sz, a, unit, last) ==
    LET pos == ClassOf(sz[a], unit, last)
    IN  [fl EXCEPT ![pos] =
            InsertAt(fl[pos], InsertPosition(fl[pos], sz, a, pos = last), a)]

(* The position of the block that rmFromFreeLs takes, 0 if there is none:  *)
(* the front, but in the last class the first that is large enough.        *)
FitPosition(s, sz, total, isLast) ==
    IF isLast THEN SelectInSeq(s, LAMBDA b : sz[b] >= total)
    ELSE IF s = <<>> THEN 0 ELSE 1

rmFromFreeLs(fl, pos, i) == [fl EXCEPT ![pos] = RemoveAt(fl[pos], i)]

(***************************************************************************)
(* The decision of allocateObject for a block of total bytes: the list and *)
(* the position it takes a block from (position 0: it takes memory from    *)
(* the layer below), and whether it then searched the larger classes.      *)
(***************************************************************************)
Choice(fl, sz, total, unit, last) ==
    LET index == ClassOf(total, unit, last)
        larger == {k \in (index + 1)..last : fl[k] # <<>>}
        k == Min(larger)
    IN  IF fl[index] # <<>>
          THEN [pos |-> index, searched |-> FALSE,
                at |-> FitPosition(fl[index], sz, total, index = last)]
        ELSE IF larger = {}
          THEN [pos |-> index, searched |-> TRUE, at |-> 0]
        ELSE [pos |-> k, searched |-> TRUE,
              at |-> FitPosition(fl[k], sz, k * unit, k = last)]

(* A block from a larger class is cut when the rest can be a free block. *)
Splits(choice, real, total) == choice.searched /\ real >= total + MinTotal

(* The bytes in the free lists. *)
sumFreeListSize(fl, sz) ==
    FoldSet(LAMBDA c, n : n + FoldFunction(LAMBDA a, m : m + sz[a], 0, fl[c]), 0, DOMAIN fl)
=============================================================================
