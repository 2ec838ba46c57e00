---------------------------- MODULE DualLnkList ----------------------------
(***************************************************************************)
(* The free lists of FreeLists at the level of their pointers: freels_,    *)
(* and the next_ and prev_ that lie inside the free blocks.  The operators *)
(* follow the pointer assignments of insertFreeBlock and rmFromFreeLs.     *)
(*                                                                         *)
(* ls is [freels_, next_, prev_].  The links of a block that was taken     *)
(* from its list are the data of its user: they leave the domain.          *)
(***************************************************************************)
EXTENDS FreeLists

NULL == -1          \* no block has this address

NoLists(last) ==
    [freels_ |-> [c \in 0..last |-> NULL], next_ |-> <<>>, prev_ |-> <<>>]

(* The blocks met from the head of class c along next_. *)
Walk(ls, c) ==
    LET most == Cardinality(DOMAIN ls.next_) + 1
        met[i \in 1..most] ==
          IF i = 1 THEN ls.freels_[c]
          ELSE IF met[i - 1] \in DOMAIN ls.next_ THEN ls.next_[met[i - 1]] ELSE NULL
    IN  [i \in 1..Cardinality({j \in 1..most : met[j] # NULL}) |-> met[i]]

(* The lists as FreeLists sees them. *)
Lists(ls) == [c \in DOMAIN ls.freels_ |-> Walk(ls, c)]

(* Mutant: the loop goes on past a block of the same size. *)
IterStrict(s, sz, n) ==
    LET i == SelectInSeq(s, LAMBDA b : sz[b] > n)
    IN  IF i = 0 THEN NULL ELSE s[i]

(* The first block of a list that is at least n bytes, and the one before  *)
(* it as the loop of insertFreeBlock tracks it.                            *)
Iter(s, sz, n) ==
    LET i == SelectInSeq(s, LAMBDA b : sz[b] >= n)
    IN  IF i = 0 THEN NULL ELSE s[i]
PreIter(s, iter) ==
    LET i == IF iter = NULL THEN Len(s) + 1 ELSE SelectInSeq(s, LAMBDA b : b = iter)
    IN  IF i = 1 THEN NULL ELSE s[i - 1]

InsertFront(ls, c, a) ==
    LET first == ls.freels_[c]
    IN  [freels_ |-> [ls.freels_ EXCEPT ![c] = a],
         next_ |-> Put(ls.next_, a, first),
         prev_ |-> Put(IF first = NULL THEN ls.prev_ ELSE Put(ls.prev_, first, a), a, NULL)]

InsertEnd(ls, preiter, a) ==
    [ls EXCEPT !.next_ = Put(Put(@, preiter, a), a, NULL), !.prev_ = Put(@, a, preiter)]

(* Mutant: prev_ of the block behind is not set. *)
InsertBetweenOneWay(ls, preiter, a, iter) ==
    [ls EXCEPT !.next_ = Put(Put(@, preiter, a), a, iter), !.prev_ = Put(@, a, preiter)]

InsertBetween(ls, preiter, a, iter) ==
    [ls EXCEPT !.next_ = Put(Put(@, preiter, a), a, iter),
               !.prev_ = Put(Put(@, iter, a), a, preiter)]

insertFreeBlockLinks(ls, sz, a, unit, last) ==
    LET pos == ClassOf(sz[a], unit, last)
        s == Walk(ls, pos)
        iter == Iter(s, sz, sz[a])
        preiter == PreIter(s, iter)
    IN  IF pos = last /\ ls.freels_[pos] # NULL
          THEN CASE iter = NULL -> InsertEnd(ls, preiter, a)
                 [] iter # NULL /\ preiter = NULL -> InsertFront(ls, pos, a)
                 [] OTHER -> InsertBetween(ls, preiter, a, iter)
          ELSE InsertFront(ls, pos, a)

(* The end of rmFromFreeLs: the block in front, or the head, and the block *)
(* behind, if there is one, are made to meet.                              *)
rmFromFreeLsLinks(ls, c, a) ==
    LET next == ls.next_[a]
        before == IF a = ls.freels_[c] THEN NULL ELSE ls.prev_[a]
        nexts == IF before = NULL THEN ls.next_ ELSE Put(ls.next_, before, next)
        prevs == IF next = NULL THEN ls.prev_ ELSE Put(ls.prev_, next, before)
    IN  [freels_ |-> IF before = NULL THEN [ls.freels_ EXCEPT ![c] = next] ELSE ls.freels_,
         next_ |-> Without(nexts, a),
         prev_ |-> Without(prevs, a)]

(* assert(iter->prev_ == preiter), all along the list. *)
checkDualLnkList(ls, c) ==
    LET s == Walk(ls, c)
    IN  \A i \in 1..Len(s) :
          /\ s[i] \in DOMAIN ls.prev_
          /\ ls.prev_[s[i]] = IF i = 1 THEN NULL ELSE s[i - 1]
=============================================================================
