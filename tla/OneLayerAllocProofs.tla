------------------------ MODULE OneLayerAllocProofs ------------------------
(***************************************************************************)
(* Proofs about the one-layer allocator, for any number of threads, of     *)
(* size classes and of sizes.                                              *)
(*                                                                         *)
(* AllocInv is the inductive invariant.  It has three parts.  The pointers *)
(* freels_, next_ and prev_ are lists, one per class, that share no block  *)
(* (Linked); that is what insertFreeBlock and rmFromFreeLs keep, case by   *)
(* case, and from which Walk finds the lists again.  Every block is held   *)
(* by a list, by user code or by one call (Own).  And the blocks do not    *)
(* overlap (Laid), with the size of a block that its call has yet to tag   *)
(* taken from the call: a header is written after the lock is released.    *)
(*                                                                         *)
(* OneOwner follows.  RefinesSequence holds of every step but a turn of    *)
(* initialize() that finds a list in use; EarlyInv says that there is none *)
(* when one thread makes the first malloc.                                 *)
(***************************************************************************)
EXTENDS OneLayerAlloc, FiniteSetTheorems, TLAPS

-----------------------------------------------------------------------------
(* Numbers and sequences *)

(* The length and the domain of a sequence. *)
LEMMA LenFacts ==
  ASSUME NEW S, NEW s \in Seq(S)
  PROVE  Len(s) \in Nat /\ DOMAIN s = 1..Len(s) /\ s \in [1..Len(s) -> S]
  OBVIOUS

(* The elements of a sequence. *)
LEMMA ElementIn ==
  ASSUME NEW S, NEW s \in Seq(S), NEW i \in 1..Len(s)
  PROVE  s[i] \in S
  OBVIOUS

(* The empty sequence. *)
LEMMA EmptyFacts ==
  ASSUME NEW S
  PROVE  /\ <<>> \in Seq(S) /\ Len(<<>>) = 0
         /\ \A s \in Seq(S) : (s # <<>>) => (Len(s) \in Nat \ {0})
  OBVIOUS

(* A part of a sequence. *)
LEMMA SubSeqFacts ==
  ASSUME NEW S, NEW s, NEW m \in Int, NEW n \in Int, \A i \in m..n : s[i] \in S
  PROVE  /\ SubSeq(s, m, n) \in Seq(S)
         /\ Len(SubSeq(s, m, n)) = IF m <= n THEN n - m + 1 ELSE 0
         /\ \A i \in 1..(n - m + 1) : SubSeq(s, m, n)[i] = s[m + i - 1]
  OBVIOUS

(* Two sequences, one after the other. *)
LEMMA ConcatFacts ==
  ASSUME NEW S, NEW s \in Seq(S), NEW z \in Seq(S)
  PROVE  /\ s \o z \in Seq(S)
         /\ Len(s \o z) = Len(s) + Len(z)
         /\ \A i \in 1..(Len(s) + Len(z)) :
              (s \o z)[i] = IF i <= Len(s) THEN s[i] ELSE z[i - Len(s)]
  OBVIOUS

(* Induction: a set of numbers with 0 and every successor has them all. *)
LEMMA NatSet ==
  ASSUME NEW T \in SUBSET Nat, 0 \in T, \A n \in T : n + 1 \in T
  PROVE  T = Nat
  <1> SUFFICES ASSUME Nat \ T # {} PROVE FALSE
    BY Zenon
  <1>1. PICK x \in Nat \ T : \A y \in Nat \ T : ~(<<y, x>> \in OpToRel(<, Nat))
    <2>1. Nat \ T \subseteq Nat
      OBVIOUS
    <2> QED
      BY ONLY Zenon, <2>1, Nat \ T # {}, NatLessThanWellFounded, WFMin
  <1>2. \A y \in Nat \ T : ~(y < x)
    BY Zenon, <1>1 DEF OpToRel
  <1>3. x # 0 /\ x - 1 \in Nat /\ x - 1 < x
    OBVIOUS
  <1>4. x - 1 \in T
    BY <1>2, <1>3
  <1> QED
    BY <1>3, <1>4

(* Min, of numbers. *)
LEMMA MinIn ==
  ASSUME NEW I \in SUBSET Nat, I # {}
  PROVE  Min(I) \in I /\ \A j \in I : Min(I) <= j
  <1>1. PICK x \in I : \A y \in I : ~(<<y, x>> \in OpToRel(<, Nat))
    BY ONLY Zenon, I \in SUBSET Nat, I # {}, NatLessThanWellFounded, WFMin
  <1>2. \A y \in I : ~(y < x)
    BY Zenon, <1>1 DEF OpToRel
  <1>3. \A y \in I : x <= y
    BY <1>2
  <1> QED
    BY Zenon, <1>3 DEF Min

(* What RemoveAt and InsertAt make of a sequence. *)
IsRemoved(s, i, r) ==
    /\ r \in Seq(Nat)
    /\ Len(r) = Len(s) - 1
    /\ \A j \in 1..(Len(s) - 1) : r[j] = IF j < i THEN s[j] ELSE s[j + 1]

IsInserted(s, i, a, r) ==
    /\ r \in Seq(Nat)
    /\ Len(r) = Len(s) + 1
    /\ \A j \in 1..(Len(s) + 1) :
         r[j] = IF j < i THEN s[j] ELSE IF j = i THEN a ELSE s[j - 1]

(* RemoveAt is what IsRemoved says. *)
LEMMA Removed ==
  ASSUME NEW s \in Seq(Nat), NEW i \in 1..Len(s)
  PROVE  IsRemoved(s, i, RemoveAt(s, i))
  <1>0. Len(s) \in Nat /\ \A j \in 1..Len(s) : s[j] \in Nat
    BY LenFacts, ElementIn
  <1>1. PICK r : r = SubSeq(s, 1, i - 1)
    BY Zenon
  <1>2. PICK q : q = SubSeq(s, i + 1, Len(s))
    BY Zenon
  <1>3. r \in Seq(Nat) /\ Len(r) = i - 1 /\ \A j \in 1..(i - 1) : r[j] = s[j]
    <2>1. \A j \in 1..(i - 1) : s[j] \in Nat
      BY <1>0
    <2> QED
      BY <1>0, <1>1, <2>1, SubSeqFacts
  <1>4. q \in Seq(Nat) /\ Len(q) = Len(s) - i /\ \A j \in 1..(Len(s) - i) : q[j] = s[j + i]
    <2>1. \A j \in (i + 1)..Len(s) : s[j] \in Nat
      BY <1>0
    <2>2. /\ q \in Seq(Nat)
          /\ Len(q) = IF i + 1 <= Len(s) THEN Len(s) - (i + 1) + 1 ELSE 0
          /\ \A j \in 1..(Len(s) - (i + 1) + 1) : q[j] = s[(i + 1) + j - 1]
      BY <1>0, <1>2, <2>1, SubSeqFacts
    <2> QED
      BY <1>0, <2>2
  <1>5. /\ r \o q \in Seq(Nat)
        /\ Len(r \o q) = Len(r) + Len(q)
        /\ \A j \in 1..(Len(r) + Len(q)) :
             (r \o q)[j] = IF j <= Len(r) THEN r[j] ELSE q[j - Len(r)]
    BY Zenon, <1>3, <1>4, ConcatFacts
  <1>6. RemoveAt(s, i) = r \o q
    BY Zenon, <1>1, <1>2 DEF RemoveAt
  <1>7. PICK z : z = r \o q
    BY Zenon
  <1>8. z \in Seq(Nat) /\ Len(z) = Len(s) - 1
    <2>1. Len(r) + Len(q) = Len(s) - 1
      BY <1>0, <1>3, <1>4
    <2> QED
      BY Zenon, <1>5, <1>7, <2>1
  <1>a. \A j \in 1..(Len(s) - 1) : z[j] = IF j <= i - 1 THEN r[j] ELSE q[j - (i - 1)]
    <2>1. Len(r) + Len(q) = Len(s) - 1
      BY <1>0, <1>3, <1>4
    <2> QED
      BY ONLY Zenon, <1>3, <1>5, <1>7, <2>1
  <1>9. \A j \in 1..(Len(s) - 1) : z[j] = IF j < i THEN s[j] ELSE s[j + 1]
    <2>1. ASSUME NEW j \in 1..(Len(s) - 1), j < i PROVE z[j] = s[j]
      <3>1. j <= i - 1 /\ j \in 1..(i - 1)
        BY <1>0, <2>1
      <3> QED
        BY Zenon, <1>3, <1>a, <3>1
    <2>2. ASSUME NEW j \in 1..(Len(s) - 1), ~(j < i) PROVE z[j] = s[j + 1]
      <3>1. /\ j - (i - 1) \in 1..(Len(s) - i) /\ (j - (i - 1)) + i = j + 1
            /\ ~(j <= i - 1)
        BY <1>0, <2>2
      <3> QED
        BY Zenon, <1>4, <1>a, <3>1
    <2> QED
      BY <2>1, <2>2
  <1> QED
    BY Zenon, <1>6, <1>7, <1>8, <1>9 DEF IsRemoved

(* InsertAt is what IsInserted says. *)
LEMMA Inserted ==
  ASSUME NEW s \in Seq(Nat), NEW i \in 1..(Len(s) + 1), NEW a \in Nat
  PROVE  IsInserted(s, i, a, InsertAt(s, i, a))
  <1>0. Len(s) \in Nat /\ \A j \in 1..Len(s) : s[j] \in Nat
    BY LenFacts, ElementIn
  <1>1. PICK r : r = SubSeq(s, 1, i - 1)
    BY Zenon
  <1>2. PICK q : q = SubSeq(s, i, Len(s))
    BY Zenon
  <1>3. r \in Seq(Nat) /\ Len(r) = i - 1 /\ \A j \in 1..(i - 1) : r[j] = s[j]
    <2>1. \A j \in 1..(i - 1) : s[j] \in Nat
      BY <1>0
    <2> QED
      BY <1>0, <1>1, <2>1, SubSeqFacts
  <1>4. /\ q \in Seq(Nat) /\ Len(q) = Len(s) - i + 1
        /\ \A j \in 1..(Len(s) - i + 1) : q[j] = s[j + i - 1]
    <2>1. \A j \in i..Len(s) : s[j] \in Nat
      BY <1>0
    <2>2. /\ q \in Seq(Nat)
          /\ Len(q) = IF i <= Len(s) THEN Len(s) - i + 1 ELSE 0
          /\ \A j \in 1..(Len(s) - i + 1) : q[j] = s[i + j - 1]
      BY <1>0, <1>2, <2>1, SubSeqFacts
    <2> QED
      BY <1>0, <2>2
  <1>e. PICK e : e = <<a>>
    BY Zenon
  <1>f. e \in Seq(Nat) /\ Len(e) = 1 /\ e[1] = a
    BY <1>e
  <1>5. PICK y : y = r \o e
    BY Zenon
  <1>6. y \in Seq(Nat) /\ Len(y) = i /\ \A j \in 1..i : y[j] = IF j < i THEN s[j] ELSE a
    <2>1. /\ y \in Seq(Nat)
          /\ Len(y) = Len(r) + Len(e)
          /\ \A j \in 1..(Len(r) + Len(e)) :
               y[j] = IF j <= Len(r) THEN r[j] ELSE e[j - Len(r)]
      BY Zenon, <1>3, <1>5, <1>f, ConcatFacts
    <2>2. Len(r) + Len(e) = i
      BY <1>3, <1>f
    <2>3. \A j \in 1..i : y[j] = IF j <= i - 1 THEN r[j] ELSE e[j - (i - 1)]
      BY ONLY Zenon, <1>3, <2>1, <2>2
    <2>4. ASSUME NEW j \in 1..i PROVE y[j] = IF j < i THEN s[j] ELSE a
      <3>1. CASE j < i
        <4>1. j <= i - 1 /\ j \in 1..(i - 1)
          BY <3>1
        <4> QED
          BY Zenon, <1>3, <2>3, <3>1, <4>1
      <3>2. CASE ~(j < i)
        <4>1. ~(j <= i - 1) /\ j - (i - 1) = 1
          BY <3>2
        <4> QED
          BY Zenon, <1>f, <2>3, <3>2, <4>1
      <3> QED
        BY Zenon, <3>1, <3>2
    <2> QED
      BY Zenon, <2>1, <2>2, <2>4
  <1>7. PICK z : z = y \o q
    BY Zenon
  <1>8. /\ z \in Seq(Nat)
        /\ Len(z) = Len(y) + Len(q)
        /\ \A j \in 1..(Len(y) + Len(q)) :
             z[j] = IF j <= Len(y) THEN y[j] ELSE q[j - Len(y)]
    BY Zenon, <1>4, <1>6, <1>7, ConcatFacts
  <1>9. z \in Seq(Nat) /\ Len(z) = Len(s) + 1
    BY <1>0, <1>4, <1>6, <1>8
  <1>10. \A j \in 1..(Len(s) + 1) :
           z[j] = IF j < i THEN s[j] ELSE IF j = i THEN a ELSE s[j - 1]
    <2>0. \A j \in 1..(Len(s) + 1) : z[j] = IF j <= i THEN y[j] ELSE q[j - i]
      <3>1. Len(y) + Len(q) = Len(s) + 1
        BY <1>0, <1>4, <1>6
      <3> QED
        BY ONLY Zenon, <1>6, <1>8, <3>1
    <2>1. ASSUME NEW j \in 1..(Len(s) + 1), j <= i
          PROVE  z[j] = IF j < i THEN s[j] ELSE a
      <3>1. j \in 1..i
        BY <1>0, <2>1
      <3> QED
        BY Zenon, <1>6, <2>0, <2>1, <3>1
    <2>2. ASSUME NEW j \in 1..(Len(s) + 1), ~(j <= i) PROVE z[j] = s[j - 1]
      <3>1. j - i \in 1..(Len(s) - i + 1) /\ (j - i) + i - 1 = j - 1
        BY <1>0, <2>2
      <3> QED
        BY Zenon, <1>4, <2>0, <2>2, <3>1
    <2> QED
      BY <2>1, <2>2
  <1>11. InsertAt(s, i, a) = z
    BY Zenon, <1>1, <1>2, <1>5, <1>7, <1>e DEF InsertAt
  <1> QED
    BY Zenon, <1>9, <1>10, <1>11 DEF IsInserted

-----------------------------------------------------------------------------
(* The links *)

(* From h along n, and back along p, are the blocks of s. *)
IsList(h, n, p, s) ==
    /\ s \in Seq(Nat)
    /\ h = IF Len(s) = 0 THEN NULL ELSE s[1]
    /\ \A i \in 1..Len(s) :
         /\ s[i] \in DOMAIN n /\ s[i] \in DOMAIN p
         /\ n[s[i]] = IF i = Len(s) THEN NULL ELSE s[i + 1]
         /\ p[s[i]] = IF i = 1 THEN NULL ELSE s[i - 1]
    /\ \A i, j \in 1..Len(s) : (s[i] = s[j]) => (i = j)

Apart(s, r) == \A i \in 1..Len(s), j \in 1..Len(r) : s[i] # r[j]

(* The pointers are lists of the blocks of L, which share no block. *)
IsLists(f, n, p, L) ==
    /\ f \in [Class -> Int]
    /\ IsFiniteSet(DOMAIN n) /\ DOMAIN n \subseteq Nat
    /\ L \in [Class -> Seq(Nat)]
    /\ \A c \in Class : IsList(f[c], n, p, L[c])
    /\ \A c, d \in Class : (c # d) => Apart(L[c], L[d])

Linked(x, L) ==
    /\ x = [freels_ |-> x.freels_, next_ |-> x.next_, prev_ |-> x.prev_]
    /\ IsLists(x.freels_, x.next_, x.prev_, L)

Meets(x, c, most, g) ==
    g = [i \in 1..most |->
           IF i = 1 THEN x.freels_[c]
           ELSE IF g[i - 1] \in DOMAIN x.next_ THEN x.next_[g[i - 1]] ELSE NULL]
Most(x) == Cardinality(DOMAIN x.next_) + 1
Met(x, c) == CHOOSE g : Meets(x, c, Most(x), g)

(* Walk, with its local function named. *)
LEMMA WalkIsMet ==
  ASSUME NEW x, NEW c
  PROVE  Walk(x, c) = [i \in 1..Cardinality({j \in 1..Most(x) : Met(x, c)[j] # NULL}) |-> Met(x, c)[i]]
  BY DEF Walk, Met, Most, Meets

(* There are k numbers from 1 to k. *)
LEMMA CountTo ==
  ASSUME NEW k \in Nat
  PROVE  IsFiniteSet(1..k) /\ Cardinality(1..k) = k
  <1>1. /\ IsFiniteSet(1..k)
        /\ Cardinality(1..k) = IF 1 > k THEN 0 ELSE k - 1 + 1
    BY FS_Interval
  <1> QED
    BY <1>1

(* The walk along next_ meets the blocks of the list. *)
LEMMA WalkIs ==
  ASSUME NEW x, NEW L, Linked(x, L), NEW c \in Class
  PROVE  Walk(x, c) = L[c]
  <1> DEFINE n == x.next_
  <1>1. PICK s : s = L[c]
    BY Zenon
  <1>2. IsList(x.freels_[c], n, x.prev_, s) /\ IsFiniteSet(DOMAIN n) /\ DOMAIN n \subseteq Nat
    BY Zenon, <1>1 DEF Linked, IsLists
  <1>3. s \in Seq(Nat) /\ Len(s) \in Nat /\ s \in [1..Len(s) -> Nat]
    BY Zenon, <1>2, LenFacts DEF IsList
  <1>4. PICK m : m = Most(x)
    BY Zenon
  <1>5. m \in Nat /\ Len(s) < m
    <2>1. Cardinality(DOMAIN n) \in Nat
      BY Zenon, <1>2, FS_CardinalityType
    <2>2. IsFiniteSet(1..Len(s)) /\ Cardinality(1..Len(s)) = Len(s)
      BY Zenon, <1>3, CountTo
    <2>3. s \in [1..Len(s) -> DOMAIN n]
      BY Zenon, <1>2, <1>3 DEF IsList
    <2>4. ~ \E i, j \in 1..Len(s) : i # j /\ s[i] = s[j]
      BY Zenon, <1>2 DEF IsList
    <2>5. ~ (Cardinality(DOMAIN n) < Cardinality(1..Len(s)))
      BY ONLY Zenon, <1>2, <2>2, <2>3, <2>4, FS_PigeonHole
    <2> QED
      BY <1>3, <1>4, <2>1, <2>2, <2>5 DEF Most
  <1>6. PICK M : M = [i \in 1..m |-> IF i <= Len(s) THEN s[i] ELSE NULL]
    BY Zenon
  <1>7. \A i \in 1..m : M[i] = IF i <= Len(s) THEN s[i] ELSE NULL
    BY Zenon, <1>6
  <1>8. NULL \notin DOMAIN n
    BY <1>2 DEF NULL
  <1>9. Meets(x, c, m, M)
    <2>1. ASSUME NEW i \in 1..m
          PROVE  M[i] = IF i = 1 THEN x.freels_[c]
                        ELSE IF M[i - 1] \in DOMAIN n THEN n[M[i - 1]] ELSE NULL
      <3>1. CASE i = 1
        <4>1. M[1] = IF Len(s) = 0 THEN NULL ELSE s[1]
          <5>1. 1 \in 1..m /\ (1 <= Len(s) <=> Len(s) # 0)
            BY <1>3, <1>5
          <5> QED
            BY Zenon, <1>7, <5>1
        <4>2. x.freels_[c] = IF Len(s) = 0 THEN NULL ELSE s[1]
          BY Zenon, <1>2 DEF IsList
        <4> QED
          BY Zenon, <3>1, <4>1, <4>2
      <3>2. CASE i # 1 /\ i - 1 <= Len(s)
        <4>1. i - 1 \in 1..m /\ i - 1 \in 1..Len(s) /\ (i - 1) + 1 = i
          BY <1>3, <1>5, <3>2
        <4>2. M[i - 1] = s[i - 1] /\ s[i - 1] \in DOMAIN n
          BY Zenon, <1>2, <1>7, <3>2, <4>1 DEF IsList
        <4>3. n[s[i - 1]] = IF i - 1 = Len(s) THEN NULL ELSE s[i]
          BY Zenon, <1>2, <4>1 DEF IsList
        <4>4. (i - 1 = Len(s)) <=> ~(i <= Len(s))
          BY <1>3, <1>5, <3>2
        <4> QED
          BY Zenon, <1>7, <3>2, <4>2, <4>3, <4>4
      <3>3. CASE i # 1 /\ ~(i - 1 <= Len(s))
        <4>1. i - 1 \in 1..m /\ ~(i <= Len(s))
          BY <1>3, <1>5, <3>3
        <4> QED
          BY Zenon, <1>7, <1>8, <3>3, <4>1
      <3> QED
        BY Zenon, <3>1, <3>2, <3>3
    <2>2. M = [i \in 1..m |-> M[i]]
      BY Zenon, <1>6
    <2> QED
      BY Zenon, <2>1, <2>2 DEF Meets
  <1>10. PICK G : Meets(x, c, m, G) /\ G = Met(x, c)
    BY Zenon, <1>4, <1>9 DEF Met
  <1>11. \A i \in 1..m : G[i] = M[i]
    <2> DEFINE T == {i \in Nat : (i + 1 \in 1..m) => (G[i + 1] = M[i + 1])}
    <2>1. /\ \A i \in 1..m : G[i] = IF i = 1 THEN x.freels_[c]
                 ELSE IF G[i - 1] \in DOMAIN n THEN n[G[i - 1]] ELSE NULL
          /\ \A i \in 1..m : M[i] = IF i = 1 THEN x.freels_[c]
                 ELSE IF M[i - 1] \in DOMAIN n THEN n[M[i - 1]] ELSE NULL
      BY Zenon, <1>9, <1>10 DEF Meets
    <2>2. 0 \in T
      <3>1. 0 + 1 = 1 /\ 0 \in Nat
        OBVIOUS
      <3> QED
        BY Zenon, <2>1, <3>1
    <2>3. ASSUME NEW i \in T PROVE i + 1 \in T
      <3>0. i + 1 \in Nat
        OBVIOUS
      <3> SUFFICES ASSUME (i + 1) + 1 \in 1..m PROVE G[(i + 1) + 1] = M[(i + 1) + 1]
        BY Zenon, <3>0
      <3>1. i + 1 \in 1..m /\ (i + 1) + 1 # 1 /\ ((i + 1) + 1) - 1 = i + 1
        BY <1>5
      <3>2. G[i + 1] = M[i + 1]
        BY Zenon, <3>1
      <3>3. PICK k \in 1..m : k = (i + 1) + 1
        BY Zenon
      <3>4. k # 1 /\ k - 1 = i + 1
        BY ONLY Zenon, <3>1, <3>3
      <3>5. /\ G[k] = IF G[k - 1] \in DOMAIN n THEN n[G[k - 1]] ELSE NULL
            /\ M[k] = IF M[k - 1] \in DOMAIN n THEN n[M[k - 1]] ELSE NULL
        BY ONLY Zenon, <2>1, <3>4
      <3>6. G[k] = M[k]
        BY ONLY Zenon, <3>2, <3>4, <3>5
      <3> QED
        BY ONLY Zenon, <3>3, <3>6
    <2>4. T \in SUBSET Nat
      BY Zenon
    <2>5. T = Nat
      <3> HIDE DEF T
      <3> QED
        BY ONLY Zenon, <2>2, <2>3, <2>4, NatSet
    <2>6. \A i \in 1..m : i - 1 \in Nat /\ (i - 1) + 1 = i
      BY <1>5
    <2> QED
      BY Zenon, <2>5, <2>6
  <1>12. {j \in 1..m : G[j] # NULL} = 1..Len(s)
    <2>1. \A j \in 1..Len(s) : j \in 1..m /\ j <= Len(s) /\ s[j] # NULL
      BY <1>3, <1>5 DEF NULL
    <2>2. \A j \in 1..m : j <= Len(s) => j \in 1..Len(s)
      BY <1>3, <1>5
    <2> QED
      BY Zenon, <1>7, <1>11, <2>1, <2>2
  <1>13. Cardinality({j \in 1..m : G[j] # NULL}) = Len(s)
    BY Zenon, <1>3, <1>12, CountTo
  <1>14. Walk(x, c) = [i \in 1..Len(s) |-> G[i]]
    BY Zenon, <1>4, <1>10, <1>13, WalkIsMet
  <1>15. \A i \in 1..Len(s) : G[i] = s[i]
    <2>1. \A j \in 1..Len(s) : j \in 1..m /\ j <= Len(s)
      BY <1>3, <1>5
    <2> QED
      BY Zenon, <1>7, <1>11, <2>1
  <1> QED
    BY Zenon, <1>1, <1>3, <1>14, <1>15

(* Lists() finds the lists, whatever they are. *)
LEMMA ListsAre ==
  ASSUME NEW x, NEW L, Linked(x, L)
  PROVE  Lists(x) = L
  <1>1. DOMAIN x.freels_ = Class /\ L = [c \in Class |-> L[c]]
    BY Zenon DEF Linked, IsLists
  <1> QED
    BY Zenon, <1>1, WalkIs DEF Lists

-----------------------------------------------------------------------------
(* One list *)

(* The links n and p and the links m and q, as seen from a list s: the     *)
(* same; without the block at i, so that the one before it and the one     *)
(* behind meet; and with the block a before the one at i.                  *)
SameLinks(n, p, m, q, s) ==
    \A i \in 1..Len(s) : /\ s[i] \in DOMAIN m /\ s[i] \in DOMAIN q
                         /\ m[s[i]] = n[s[i]] /\ q[s[i]] = p[s[i]]

Before(s, i) == IF i = 1 THEN NULL ELSE s[i - 1]
Behind(s, i) == IF i = Len(s) THEN NULL ELSE s[i + 1]

LinksOut(n, p, m, q, s, i) ==
    \A j \in 1..Len(s) : (j # i) =>
      /\ s[j] \in DOMAIN m /\ s[j] \in DOMAIN q
      /\ m[s[j]] = IF j = i - 1 THEN Behind(s, i) ELSE n[s[j]]
      /\ q[s[j]] = IF j = i + 1 THEN Before(s, i) ELSE p[s[j]]

LinksIn(n, p, m, q, s, i, a) ==
    /\ a \in DOMAIN m /\ a \in DOMAIN q
    /\ m[a] = IF i = Len(s) + 1 THEN NULL ELSE s[i]
    /\ q[a] = IF i = 1 THEN NULL ELSE s[i - 1]
    /\ \A j \in 1..Len(s) :
         /\ s[j] \in DOMAIN m /\ s[j] \in DOMAIN q
         /\ m[s[j]] = IF j = i - 1 THEN a ELSE n[s[j]]
         /\ q[s[j]] = IF j = i THEN a ELSE p[s[j]]

(* A list whose links stay is the same list. *)
LEMMA ListFrame ==
  ASSUME NEW h, NEW n, NEW p, NEW s, IsList(h, n, p, s),
         NEW m, NEW q, SameLinks(n, p, m, q, s)
  PROVE  IsList(h, m, q, s)
  BY Zenon DEF IsList, SameLinks

(* The block at i is taken out: the one before it and the one behind meet. *)
LEMMA ListRemove ==
  ASSUME NEW h, NEW n, NEW p, NEW s, IsList(h, n, p, s), NEW i \in 1..Len(s),
         NEW m, NEW q, LinksOut(n, p, m, q, s, i)
  PROVE  IsList(IF i = 1 THEN Behind(s, i) ELSE h, m, q, RemoveAt(s, i))
  <1>c. PICK before, behind : before = Before(s, i) /\ behind = Behind(s, i)
    BY Zenon
  <1>1. PICK N : N = Len(s)
    BY Zenon
  <1>2. PICK r : r = RemoveAt(s, i)
    BY Zenon
  <1>3. /\ s \in Seq(Nat) /\ N \in Nat /\ i \in 1..N
        /\ h = IF N = 0 THEN NULL ELSE s[1]
        /\ \A j \in 1..N : n[s[j]] = IF j = N THEN NULL ELSE s[j + 1]
        /\ \A j \in 1..N : p[s[j]] = IF j = 1 THEN NULL ELSE s[j - 1]
        /\ \A j, k \in 1..N : (s[j] = s[k]) => (j = k)
    BY Zenon, <1>1, LenFacts DEF IsList
  <1>a. N \in Nat /\ i \in 1..N
    BY Zenon, <1>3
  <1>b. \A j, k \in 1..N : (s[j] = s[k]) => (j = k)
    BY Zenon, <1>3
  <1>4. /\ r \in Seq(Nat) /\ Len(r) = N - 1
        /\ \A j \in 1..(N - 1) : r[j] = IF j < i THEN s[j] ELSE s[j + 1]
    <2>1. s \in Seq(Nat)
      BY Zenon, <1>3
    <2>2. IsRemoved(s, i, r)
      BY Zenon, <1>2, <2>1, Removed
    <2> QED
      BY ONLY Zenon, <1>1, <2>2 DEF IsRemoved
  <1>5. /\ before = IF i = 1 THEN NULL ELSE s[i - 1]
        /\ behind = IF i = N THEN NULL ELSE s[i + 1]
        /\ \A j \in 1..N : (j # i) =>
             /\ s[j] \in DOMAIN m /\ s[j] \in DOMAIN q
             /\ m[s[j]] = IF j = i - 1 THEN behind ELSE n[s[j]]
             /\ q[s[j]] = IF j = i + 1 THEN before ELSE p[s[j]]
    BY Zenon, <1>1, <1>c DEF LinksOut, Before, Behind
  <1>6. (IF i = 1 THEN behind ELSE h) = IF N - 1 = 0 THEN NULL ELSE r[1]
    <2>1. CASE i = 1
      <3>1. (N - 1 = 0 <=> i = N) /\ (N - 1 # 0 => 1 \in 1..(N - 1)) /\ ~(1 < i) /\ i + 1 = 1 + 1
        BY <1>a, <2>1
      <3> QED
        BY Zenon, <1>4, <1>5, <2>1, <3>1
    <2>2. CASE i # 1
      <3>1. N - 1 # 0 /\ N # 0 /\ 1 \in 1..(N - 1) /\ 1 < i
        BY <1>a, <2>2
      <3> QED
        BY Zenon, <1>3, <1>4, <2>2, <3>1
    <2> QED
      BY Zenon, <2>1, <2>2
  <1>7. ASSUME NEW j \in 1..(N - 1)
        PROVE  /\ r[j] \in DOMAIN m /\ r[j] \in DOMAIN q
               /\ m[r[j]] = IF j = N - 1 THEN NULL ELSE r[j + 1]
               /\ q[r[j]] = IF j = 1 THEN NULL ELSE r[j - 1]
    <2>1. CASE j < i
      <3>1. /\ j \in 1..N /\ j # i /\ j # i + 1 /\ j # N
            /\ j # N - 1 => (j + 1 \in 1..(N - 1))
            /\ j # 1 => (j - 1 \in 1..(N - 1) /\ j - 1 < i)
        BY <1>a, <2>1
      <3>2. r[j] = s[j] /\ s[j] \in DOMAIN m /\ s[j] \in DOMAIN q
        BY Zenon, <1>4, <1>5, <2>1, <3>1
      <3>3. q[s[j]] = IF j = 1 THEN NULL ELSE r[j - 1]
        <4>1. q[s[j]] = IF j = 1 THEN NULL ELSE s[j - 1]
          BY Zenon, <1>3, <1>5, <3>1
        <4>2. j # 1 => r[j - 1] = s[j - 1]
          BY Zenon, <1>4, <3>1
        <4> QED
          BY Zenon, <4>1, <4>2
      <3>4. m[s[j]] = IF j = N - 1 THEN NULL ELSE r[j + 1]
        <4>1. CASE j = i - 1
          <5>1. m[s[j]] = IF i = N THEN NULL ELSE s[i + 1]
            BY Zenon, <1>5, <3>1, <4>1
          <5>2. (i = N <=> j = N - 1) /\ j + 1 = i /\ ~(i < i)
            BY <1>a, <4>1
          <5>3. j # N - 1 => r[j + 1] = s[i + 1]
            BY Zenon, <1>4, <3>1, <5>2
          <5> QED
            BY Zenon, <5>1, <5>2, <5>3
        <4>2. CASE j # i - 1
          <5>1. m[s[j]] = s[j + 1]
            BY Zenon, <1>3, <1>5, <3>1, <4>2
          <5>2. j # N - 1 /\ j + 1 \in 1..(N - 1) /\ j + 1 < i
            BY <1>a, <2>1, <4>2
          <5> QED
            BY Zenon, <1>4, <5>1, <5>2
        <4> QED
          BY Zenon, <4>1, <4>2
      <3> QED
        BY Zenon, <3>2, <3>3, <3>4
    <2>2. CASE ~(j < i)
      <3>1. PICK k : k = j + 1
        BY Zenon
      <3>2. /\ k \in 1..N /\ k # i /\ k # i - 1 /\ k # 1
            /\ (k = N <=> j = N - 1) /\ (k = i + 1 <=> j = i) /\ k - 1 = j
            /\ (j # N - 1) => (j + 1 \in 1..(N - 1) /\ ~(j + 1 < i) /\ (j + 1) + 1 = k + 1)
        BY <1>a, <2>2, <3>1
      <3>3. r[j] = s[k] /\ s[k] \in DOMAIN m /\ s[k] \in DOMAIN q
        BY Zenon, <1>4, <1>5, <2>2, <3>1, <3>2
      <3>4. m[s[k]] = IF j = N - 1 THEN NULL ELSE r[j + 1]
        <4>1. m[s[k]] = IF k = N THEN NULL ELSE s[k + 1]
          BY Zenon, <1>3, <1>5, <3>2
        <4>2. (j # N - 1) => r[j + 1] = s[k + 1]
          BY Zenon, <1>4, <3>2
        <4> QED
          BY Zenon, <3>2, <4>1, <4>2
      <3>5. q[s[k]] = IF j = 1 THEN NULL ELSE r[j - 1]
        <4>1. CASE j = i
          <5>1. q[s[k]] = IF i = 1 THEN NULL ELSE s[i - 1]
            BY Zenon, <1>5, <3>2, <4>1
          <5>2. i # 1 => (i - 1 \in 1..(N - 1) /\ i - 1 < i)
            BY ONLY <1>a
          <5>3. i # 1 => r[i - 1] = s[i - 1]
            BY Zenon, <1>4, <5>2
          <5> QED
            BY Zenon, <4>1, <5>1, <5>3
        <4>2. CASE j # i
          <5>1. q[s[k]] = s[j]
            BY Zenon, <1>3, <1>5, <3>2, <4>2
          <5>2. j # 1 /\ j - 1 \in 1..(N - 1) /\ ~(j - 1 < i) /\ (j - 1) + 1 = j
            BY ONLY <1>a, j \in 1..(N - 1), <2>2, <4>2
          <5> QED
            BY Zenon, <1>4, <5>1, <5>2
        <4> QED
          BY Zenon, <4>1, <4>2
      <3> QED
        BY Zenon, <3>3, <3>4, <3>5
    <2> QED
      BY Zenon, <2>1, <2>2
  <1>8. ASSUME NEW j \in 1..(N - 1), NEW k \in 1..(N - 1), r[j] = r[k] PROVE j = k
    <2>1. PICK u \in 1..N : r[j] = s[u] /\ u = IF j < i THEN j ELSE j + 1
      <3>1. j \in 1..N /\ j + 1 \in 1..N
        BY <1>a
      <3> QED
        BY Zenon, <1>4, <3>1
    <2>2. PICK v \in 1..N : r[k] = s[v] /\ v = IF k < i THEN k ELSE k + 1
      <3>1. k \in 1..N /\ k + 1 \in 1..N
        BY <1>a
      <3> QED
        BY Zenon, <1>4, <3>1
    <2>3. s[u] = s[v]
      BY ONLY Zenon, <1>8, <2>1, <2>2
    <2>4. u = v
      BY ONLY Zenon, <1>b, <2>3
    <2> QED
      BY <1>a, <2>1, <2>2, <2>4
  <1>9. IsList(IF i = 1 THEN behind ELSE h, m, q, r)
    BY ONLY Zenon, <1>4, <1>6, <1>7, <1>8 DEF IsList
  <1> QED
    BY ONLY Zenon, <1>2, <1>9, <1>c

(* A block is put in at i. *)
LEMMA ListInsert ==
  ASSUME NEW h, NEW n, NEW p, NEW s, IsList(h, n, p, s), NEW i \in 1..(Len(s) + 1),
         NEW a \in Nat, \A j \in 1..Len(s) : s[j] # a,
         NEW m, NEW q, LinksIn(n, p, m, q, s, i, a)
  PROVE  IsList(IF i = 1 THEN a ELSE h, m, q, InsertAt(s, i, a))
  <1>1. PICK N : N = Len(s)
    BY Zenon
  <1>2. PICK r : r = InsertAt(s, i, a)
    BY Zenon
  <1>3. /\ s \in Seq(Nat) /\ N \in Nat /\ i \in 1..(N + 1)
        /\ h = IF N = 0 THEN NULL ELSE s[1]
        /\ \A j \in 1..N : n[s[j]] = IF j = N THEN NULL ELSE s[j + 1]
        /\ \A j \in 1..N : p[s[j]] = IF j = 1 THEN NULL ELSE s[j - 1]
    BY Zenon, <1>1, LenFacts DEF IsList
  <1>a. N \in Nat /\ i \in 1..(N + 1)
    BY Zenon, <1>3
  <1>b. \A j, k \in 1..N : (s[j] = s[k]) => (j = k)
    BY Zenon, <1>1 DEF IsList
  <1>4. /\ r \in Seq(Nat) /\ Len(r) = N + 1
        /\ \A j \in 1..(N + 1) :
             r[j] = IF j < i THEN s[j] ELSE IF j = i THEN a ELSE s[j - 1]
    <2>1. s \in Seq(Nat)
      BY Zenon, <1>3
    <2>2. IsInserted(s, i, a, r)
      BY Zenon, <1>2, <2>1, Inserted
    <2> QED
      BY ONLY Zenon, <1>1, <2>2 DEF IsInserted
  <1>5. /\ a \in DOMAIN m /\ a \in DOMAIN q
        /\ m[a] = IF i = N + 1 THEN NULL ELSE s[i]
        /\ q[a] = IF i = 1 THEN NULL ELSE s[i - 1]
        /\ \A j \in 1..N :
             /\ s[j] \in DOMAIN m /\ s[j] \in DOMAIN q
             /\ m[s[j]] = IF j = i - 1 THEN a ELSE n[s[j]]
             /\ q[s[j]] = IF j = i THEN a ELSE p[s[j]]
    BY Zenon, <1>1 DEF LinksIn
  <1>6. (IF i = 1 THEN a ELSE h) = IF N + 1 = 0 THEN NULL ELSE r[1]
    <2>0. N + 1 # 0 /\ 1 \in 1..(N + 1)
      BY <1>a
    <2>1. CASE i = 1
      <3>1. ~(1 < i)
        BY <2>1
      <3> QED
        BY Zenon, <1>4, <2>0, <2>1, <3>1
    <2>2. CASE i # 1
      <3>1. N # 0 /\ 1 < i
        BY <1>a, <2>2
      <3> QED
        BY Zenon, <1>3, <1>4, <2>0, <2>2, <3>1
    <2> QED
      BY Zenon, <2>1, <2>2
  <1>7. ASSUME NEW j \in 1..(N + 1)
        PROVE  /\ r[j] \in DOMAIN m /\ r[j] \in DOMAIN q
               /\ m[r[j]] = IF j = N + 1 THEN NULL ELSE r[j + 1]
               /\ q[r[j]] = IF j = 1 THEN NULL ELSE r[j - 1]
    <2>1. CASE j < i
      <3>1. /\ j \in 1..N /\ j # i /\ j # N + 1 /\ j + 1 \in 1..(N + 1)
            /\ j # 1 => (j - 1 \in 1..(N + 1) /\ j - 1 < i)
        BY <1>a, <2>1
      <3>2. r[j] = s[j] /\ s[j] \in DOMAIN m /\ s[j] \in DOMAIN q
        BY Zenon, <1>4, <1>5, <2>1, <3>1
      <3>3. q[s[j]] = IF j = 1 THEN NULL ELSE r[j - 1]
        <4>1. q[s[j]] = IF j = 1 THEN NULL ELSE s[j - 1]
          BY Zenon, <1>3, <1>5, <3>1
        <4>2. j # 1 => r[j - 1] = s[j - 1]
          BY Zenon, <1>4, <3>1
        <4> QED
          BY Zenon, <4>1, <4>2
      <3>4. m[s[j]] = r[j + 1]
        <4>1. CASE j = i - 1
          <5>1. j + 1 = i /\ ~(i < i)
            BY <1>a, <4>1
          <5>2. r[j + 1] = a
            BY Zenon, <1>4, <3>1, <5>1
          <5> QED
            BY Zenon, <1>5, <3>1, <4>1, <5>2
        <4>2. CASE j # i - 1
          <5>1. j + 1 < i /\ j # N
            BY <1>a, <2>1, <4>2
          <5>2. m[s[j]] = s[j + 1]
            BY Zenon, <1>3, <1>5, <3>1, <4>2, <5>1
          <5> QED
            BY Zenon, <1>4, <3>1, <5>1, <5>2
        <4> QED
          BY Zenon, <4>1, <4>2
      <3> QED
        BY Zenon, <3>1, <3>2, <3>3, <3>4
    <2>2. CASE j = i
      <3>1. /\ ~(j < i)
            /\ j # N + 1 => (j + 1 \in 1..(N + 1) /\ ~(j + 1 < i) /\ j + 1 # i /\ (j + 1) - 1 = i)
            /\ j # 1 => (j - 1 \in 1..(N + 1) /\ j - 1 < i)
        BY <1>a, <2>2
      <3>2. r[j] = a
        BY Zenon, <1>4, <2>2, <3>1
      <3>3. j # N + 1 => r[j + 1] = s[i]
        BY Zenon, <1>4, <3>1
      <3>4. j # 1 => r[j - 1] = s[j - 1]
        BY Zenon, <1>4, <3>1
      <3> QED
        BY Zenon, <1>5, <2>2, <3>2, <3>3, <3>4
    <2>3. CASE ~(j < i) /\ j # i
      <3>1. PICK k : k = j - 1
        BY Zenon
      <3>2. /\ k \in 1..N /\ k # i - 1 /\ j # 1 /\ (k = N <=> j = N + 1)
            /\ (j # N + 1) => (j + 1 \in 1..(N + 1) /\ ~(j + 1 < i) /\ j + 1 # i
                                 /\ (j + 1) - 1 = k + 1)
            /\ j - 1 \in 1..(N + 1) /\ ~(j - 1 < i)
        BY <1>a, <2>3, <3>1
      <3>3. r[j] = s[k] /\ s[k] \in DOMAIN m /\ s[k] \in DOMAIN q
        BY Zenon, <1>4, <1>5, <2>3, <3>1, <3>2
      <3>4. m[s[k]] = IF j = N + 1 THEN NULL ELSE r[j + 1]
        <4>1. m[s[k]] = IF k = N THEN NULL ELSE s[k + 1]
          BY Zenon, <1>3, <1>5, <3>2
        <4>2. (j # N + 1) => r[j + 1] = s[k + 1]
          BY Zenon, <1>4, <3>2
        <4> QED
          BY Zenon, <3>2, <4>1, <4>2
      <3>5. q[s[k]] = r[j - 1]
        <4>1. CASE k = i
          <5>1. q[s[k]] = a
            BY Zenon, <1>5, <3>2, <4>1
          <5>2. j - 1 = i
            BY Zenon, <3>1, <4>1
          <5> QED
            BY Zenon, <1>4, <3>2, <5>1, <5>2
        <4>2. CASE k # i
          <5>1. k # 1
            BY <1>a, <2>3, <3>1, <4>2
          <5>2. q[s[k]] = s[k - 1]
            BY Zenon, <1>3, <1>5, <3>2, <4>2, <5>1
          <5>3. r[k] = s[k - 1]
            BY Zenon, <1>4, <3>1, <3>2, <4>2
          <5> QED
            BY Zenon, <3>1, <5>2, <5>3
        <4> QED
          BY Zenon, <4>1, <4>2
      <3> QED
        BY Zenon, <3>2, <3>3, <3>4, <3>5
    <2> QED
      BY Zenon, <2>1, <2>2, <2>3
  <1>8. ASSUME NEW j \in 1..(N + 1), NEW k \in 1..(N + 1), r[j] = r[k] PROVE j = k
    <2>0. \A u \in 1..N : s[u] # a
      BY Zenon, <1>1
    <2>1. ASSUME NEW v \in 1..(N + 1), v # i
          PROVE  \E u \in 1..N : r[v] = s[u] /\ u = IF v < i THEN v ELSE v - 1
      <3>1. (v < i => v \in 1..N) /\ (~(v < i) => v - 1 \in 1..N)
        BY <1>a, <2>1
      <3> QED
        BY Zenon, <1>4, <2>1, <3>1
    <2>2. r[i] = a
      <3>1. ~(i < i) /\ i \in 1..(N + 1)
        BY <1>a
      <3> QED
        BY Zenon, <1>4, <3>1
    <2>3. CASE j = i \/ k = i
      BY Zenon, <1>8, <2>0, <2>1, <2>2, <2>3
    <2>4. CASE j # i /\ k # i
      <3>1. PICK u \in 1..N : r[j] = s[u] /\ u = IF j < i THEN j ELSE j - 1
        BY Zenon, <2>1, <2>4
      <3>2. PICK v \in 1..N : r[k] = s[v] /\ v = IF k < i THEN k ELSE k - 1
        BY Zenon, <2>1, <2>4
      <3>3. s[u] = s[v]
        BY ONLY Zenon, <1>8, <3>1, <3>2
      <3>4. u = v
        BY ONLY Zenon, <1>b, <3>3
      <3> QED
        BY <1>a, <2>4, <3>1, <3>2, <3>4
    <2> QED
      BY Zenon, <2>3, <2>4
  <1>9. IsList(IF i = 1 THEN a ELSE h, m, q, r)
    BY ONLY Zenon, <1>4, <1>6, <1>7, <1>8 DEF IsList
  <1> QED
    BY ONLY Zenon, <1>2, <1>9

-----------------------------------------------------------------------------
(* All lists *)

IsPut(f, x, v, g) ==
    /\ DOMAIN g = DOMAIN f \cup {x}
    /\ g[x] = v
    /\ \A y \in DOMAIN f : (y # x) => (g[y] = f[y])
IsWithout(f, x, g) ==
    /\ DOMAIN g = DOMAIN f \ {x}
    /\ \A y \in DOMAIN f : (y # x) => (g[y] = f[y])

(* Put is what IsPut says. *)
LEMMA PutIs == ASSUME NEW f, NEW x, NEW v PROVE IsPut(f, x, v, Put(f, x, v))
  BY Zenon DEF Put, IsPut

(* Without is what IsWithout says. *)
LEMMA WithoutIs == ASSUME NEW f, NEW x PROVE IsWithout(f, x, Without(f, x))
  BY Zenon DEF Without, IsWithout

(* One list changes and the links of the others stay. *)
LEMMA OneChanges ==
  ASSUME NEW f, NEW n, NEW p, NEW L, IsLists(f, n, p, L), NEW c \in Class,
         NEW h, NEW m, NEW q, NEW s, IsList(h, m, q, s), h \in Int,
         IsFiniteSet(DOMAIN m), DOMAIN m \subseteq Nat,
         \A d \in Class : (d # c) => SameLinks(n, p, m, q, L[d]) /\ Apart(s, L[d])
  PROVE  IsLists([f EXCEPT ![c] = h], m, q, [L EXCEPT ![c] = s])
  <1>1. PICK g : g = [f EXCEPT ![c] = h]
    BY Zenon
  <1>2. PICK K : K = [L EXCEPT ![c] = s]
    BY Zenon
  <1>3. f \in [Class -> Int] /\ L \in [Class -> Seq(Nat)] /\ s \in Seq(Nat)
    BY Zenon DEF IsLists, IsList
  <1>4. g \in [Class -> Int] /\ g[c] = h /\ \A d \in Class : (d # c) => g[d] = f[d]
    BY Zenon, <1>1, <1>3
  <1>5. /\ K \in [Class -> Seq(Nat)] /\ K[c] = s
        /\ \A d \in Class : (d # c) => K[d] = L[d]
    BY Zenon, <1>2, <1>3
  <1>6. ASSUME NEW d \in Class PROVE IsList(g[d], m, q, K[d])
    <2>1. CASE d = c
      BY Zenon, <1>4, <1>5, <2>1
    <2>2. CASE d # c
      <3>1. IsList(f[d], n, p, L[d])
        BY Zenon DEF IsLists
      <3>2. IsList(f[d], m, q, L[d])
        BY Zenon, <2>2, <3>1, ListFrame
      <3> QED
        BY Zenon, <1>4, <1>5, <2>2, <3>2
    <2> QED
      BY Zenon, <2>1, <2>2
  <1>7. ASSUME NEW d \in Class, NEW e \in Class, d # e PROVE Apart(K[d], K[e])
    <2>1. CASE d # c /\ e # c
      <3>1. Apart(L[d], L[e])
        BY Zenon, <1>7 DEF IsLists
      <3> QED
        BY Zenon, <1>5, <2>1, <3>1
    <2>2. CASE d = c
      BY Zenon, <1>5, <1>7, <2>2
    <2>3. CASE e = c
      <3>1. Apart(s, L[d])
        BY Zenon, <1>7, <2>3
      <3>2. Apart(L[d], s)
        BY Zenon, <3>1 DEF Apart
      <3> QED
        BY Zenon, <1>5, <1>7, <2>3, <3>2
    <2> QED
      BY Zenon, <2>1, <2>2, <2>3
  <1>8. IsLists(g, m, q, K)
    BY Zenon, <1>4, <1>5, <1>6, <1>7 DEF IsLists
  <1> QED
    BY Zenon, <1>1, <1>2, <1>8

(* The three fields of linked lists. *)
LEMMA LinkedFields ==
  ASSUME NEW f, NEW n, NEW p, NEW L, IsLists(f, n, p, L)
  PROVE  Linked([freels_ |-> f, next_ |-> n, prev_ |-> p], L)
  BY Zenon DEF Linked

(* rmFromFreeLs takes the block at i out of the list of c. *)
LEMMA RemoveLinked ==
  ASSUME NEW x, NEW L, Linked(x, L), NEW c \in Class, NEW i \in 1..Len(L[c])
  PROVE  Linked(rmFromFreeLsLinks(x, c, L[c][i]), rmFromFreeLs(L, c, i))
  <1>1. PICK f, n, p : f = x.freels_ /\ n = x.next_ /\ p = x.prev_
    BY Zenon
  <1>2. PICK s : s = L[c]
    BY Zenon
  <1>3. IsLists(f, n, p, L) /\ f \in [Class -> Int] /\ IsFiniteSet(DOMAIN n)
    BY Zenon, <1>1 DEF Linked, IsLists
  <1>4. IsList(f[c], n, p, s) /\ i \in 1..Len(s)
    BY Zenon, <1>2, <1>3 DEF IsLists
  <1>5. s \in Seq(Nat) /\ Len(s) \in Nat /\ \A j \in 1..Len(s) : s[j] \in Nat
    BY Zenon, <1>4, LenFacts, ElementIn DEF IsList
  <1>6. PICK a : a = s[i]
    BY Zenon
  <1>7. PICK behind : behind = IF i = Len(s) THEN NULL ELSE s[i + 1]
    BY Zenon
  <1>8. PICK before : before = IF i = 1 THEN NULL ELSE s[i - 1]
    BY Zenon
  <1>9. n[a] = behind /\ p[a] = before /\ a \in Nat
    BY Zenon, <1>4, <1>5, <1>6, <1>7, <1>8 DEF IsList
  <1>10. (IF a = f[c] THEN NULL ELSE p[a]) = before
    <2>1. CASE i = 1
      <3>1. Len(s) # 0
        BY <1>4, <1>5
      <3> QED
        BY Zenon, <1>4, <1>6, <1>8, <2>1, <3>1 DEF IsList
    <2>2. CASE i # 1
      <3>1. Len(s) # 0 /\ 1 \in 1..Len(s)
        BY <1>4, <1>5
      <3>2. f[c] = s[1] /\ s[1] # s[i]
        BY Zenon, <1>4, <2>2, <3>1 DEF IsList
      <3> QED
        BY Zenon, <1>6, <1>9, <3>2
    <2> QED
      BY Zenon, <2>1, <2>2
  <1>11. /\ before = NULL => i = 1
         /\ before # NULL => \E k \in 1..Len(s) : before = s[k] /\ k = i - 1
    <2>1. i # 1 => (i - 1 \in 1..Len(s))
      BY <1>4, <1>5
    <2>2. i # 1 => s[i - 1] # NULL
      BY <1>5, <2>1 DEF NULL
    <2> QED
      BY Zenon, <1>8, <2>1, <2>2
  <1>12. behind # NULL => \E k \in 1..Len(s) : behind = s[k] /\ k = i + 1
    <2>1. i # Len(s) => (i + 1 \in 1..Len(s))
      BY <1>4, <1>5
    <2> QED
      BY Zenon, <1>7, <2>1
  <1>13. PICK m : m = Without(IF before = NULL THEN n ELSE Put(n, before, behind), a)
    BY Zenon
  <1>14. PICK q : q = Without(IF behind = NULL THEN p ELSE Put(p, behind, before), a)
    BY Zenon
  <1>15. /\ DOMAIN m = DOMAIN n \ {a}
         /\ \A y \in DOMAIN n : (y # a /\ y # NULL) =>
              m[y] = IF y = before THEN behind ELSE n[y]
    <2>1. ASSUME before # NULL PROVE before \in DOMAIN n
      <3>1. PICK k \in 1..Len(s) : before = s[k]
        BY Zenon, <1>11, <2>1
      <3>2. s[k] \in DOMAIN n
        BY Zenon, <1>4 DEF IsList
      <3> QED
        BY Zenon, <3>1, <3>2
    <2>2. CASE before = NULL
      <3>1. IsWithout(n, a, m)
        BY Zenon, <1>13, <2>2, WithoutIs
      <3> QED
        BY Zenon, <2>2, <3>1 DEF IsWithout
    <2>3. CASE before # NULL
      <3>1. PICK z : z = Put(n, before, behind)
        BY Zenon
      <3>2. IsPut(n, before, behind, z)
        BY Zenon, <3>1, PutIs
      <3>3. IsWithout(z, a, m)
        BY Zenon, <1>13, <2>3, <3>1, WithoutIs
      <3>4. DOMAIN z = DOMAIN n
        BY Zenon, <2>1, <2>3, <3>2 DEF IsPut
      <3>5. \A y \in DOMAIN n : z[y] = IF y = before THEN behind ELSE n[y]
        BY Zenon, <3>2 DEF IsPut
      <3> QED
        BY Zenon, <3>3, <3>4, <3>5 DEF IsWithout
    <2> QED
      BY Zenon, <2>2, <2>3
  <1>16. /\ DOMAIN q = DOMAIN p \ {a}
         /\ \A y \in DOMAIN p : (y # a /\ y # NULL) =>
              q[y] = IF y = behind THEN before ELSE p[y]
    <2>1. ASSUME behind # NULL PROVE behind \in DOMAIN p
      <3>1. PICK k \in 1..Len(s) : behind = s[k]
        BY Zenon, <1>12, <2>1
      <3>2. s[k] \in DOMAIN p
        BY Zenon, <1>4 DEF IsList
      <3> QED
        BY Zenon, <3>1, <3>2
    <2>2. CASE behind = NULL
      <3>1. IsWithout(p, a, q)
        BY Zenon, <1>14, <2>2, WithoutIs
      <3> QED
        BY Zenon, <2>2, <3>1 DEF IsWithout
    <2>3. CASE behind # NULL
      <3>1. PICK z : z = Put(p, behind, before)
        BY Zenon
      <3>2. IsPut(p, behind, before, z)
        BY Zenon, <3>1, PutIs
      <3>3. IsWithout(z, a, q)
        BY Zenon, <1>14, <2>3, <3>1, WithoutIs
      <3>4. DOMAIN z = DOMAIN p
        BY Zenon, <2>1, <2>3, <3>2 DEF IsPut
      <3>5. \A y \in DOMAIN p : z[y] = IF y = behind THEN before ELSE p[y]
        BY Zenon, <3>2 DEF IsPut
      <3> QED
        BY Zenon, <3>3, <3>4, <3>5 DEF IsWithout
    <2> QED
      BY Zenon, <2>2, <2>3
  <1>17. PICK h : h = IF i = 1 THEN behind ELSE f[c]
    BY Zenon
  <1>18. \A y \in Nat : y # NULL
    BY DEF NULL
  <1>19. IsList(h, m, q, RemoveAt(s, i))
    <2>1. ASSUME NEW j \in 1..Len(s), j # i
          PROVE  /\ s[j] \in DOMAIN m /\ s[j] \in DOMAIN q
                 /\ m[s[j]] = IF j = i - 1 THEN behind ELSE n[s[j]]
                 /\ q[s[j]] = IF j = i + 1 THEN before ELSE p[s[j]]
      <3>1. s[j] # a /\ s[j] # NULL /\ s[j] \in DOMAIN n /\ s[j] \in DOMAIN p
        BY Zenon, <1>4, <1>5, <1>6, <1>18, <2>1 DEF IsList
      <3>2. s[j] = before <=> j = i - 1
        <4>1. j = i - 1 => i # 1
          BY <1>4, <1>5
        <4> QED
          BY Zenon, <1>4, <1>8, <1>11, <3>1, <4>1 DEF IsList
      <3>3. s[j] = behind <=> j = i + 1
        <4>1. j = i + 1 => i # Len(s)
          BY <1>4, <1>5
        <4> QED
          BY Zenon, <1>4, <1>7, <1>12, <3>1, <4>1 DEF IsList
      <3> QED
        BY Zenon, <1>15, <1>16, <3>1, <3>2, <3>3
    <2>2. behind = Behind(s, i) /\ before = Before(s, i)
      BY Zenon, <1>7, <1>8 DEF Behind, Before
    <2>3. LinksOut(n, p, m, q, s, i)
      BY Zenon, <2>1, <2>2 DEF LinksOut
    <2> QED
      BY Zenon, <1>4, <1>17, <2>2, <2>3, ListRemove
  <1>20. IsFiniteSet(DOMAIN m) /\ DOMAIN m \subseteq Nat
    <2>1. DOMAIN m \subseteq DOMAIN n /\ DOMAIN n \subseteq Nat
      BY Zenon, <1>3, <1>15 DEF IsLists
    <2> QED
      BY Zenon, <1>3, <2>1, FS_Subset
  <1>21. h \in Int
    <2>1. behind \in Int
      BY <1>5, <1>12 DEF NULL
    <2> QED
      BY Zenon, <1>3, <1>17, <2>1
  <1>22. ASSUME NEW d \in Class, d # c
         PROVE  SameLinks(n, p, m, q, L[d]) /\ Apart(RemoveAt(s, i), L[d])
    <2>1. PICK l : l = L[d]
      BY Zenon
    <2>2. Apart(s, l) /\ IsList(f[d], n, p, l)
      BY Zenon, <1>2, <1>3, <1>22, <2>1 DEF IsLists
    <2>3. ASSUME NEW j \in 1..Len(l)
          PROVE  /\ l[j] \in DOMAIN m /\ l[j] \in DOMAIN q
                 /\ m[l[j]] = n[l[j]] /\ q[l[j]] = p[l[j]]
      <3>1. l[j] \in Nat /\ l[j] \in DOMAIN n /\ l[j] \in DOMAIN p
        BY Zenon, <2>2, ElementIn DEF IsList
      <3>2. PICK b : b = l[j]
        BY Zenon
      <3>3. \A k \in 1..Len(s) : b # s[k]
        BY Zenon, <2>2, <3>2 DEF Apart
      <3>4. b # a /\ b # NULL
        BY Zenon, <1>4, <1>6, <1>18, <3>1, <3>2, <3>3
      <3>5. b # before /\ b # behind
        BY Zenon, <1>11, <1>12, <3>3, <3>4
      <3> QED
        BY Zenon, <1>15, <1>16, <3>1, <3>2, <3>4, <3>5
    <2>4. Apart(RemoveAt(s, i), l)
      <3>1. PICK r : r = RemoveAt(s, i)
        BY Zenon
      <3>2. IsRemoved(s, i, r)
        BY Zenon, <1>4, <1>5, <3>1, Removed
      <3>3. ASSUME NEW k \in 1..Len(r) PROVE \E u \in 1..Len(s) : r[k] = s[u]
        <4>1. k \in 1..(Len(s) - 1) /\ r[k] = IF k < i THEN s[k] ELSE s[k + 1]
          BY Zenon, <3>2 DEF IsRemoved
        <4>2. k \in 1..Len(s) /\ k + 1 \in 1..Len(s)
          BY <1>5, <4>1
        <4> QED
          BY Zenon, <4>1, <4>2
      <3>4. Apart(r, l)
        BY Zenon, <2>2, <3>3 DEF Apart
      <3> QED
        BY Zenon, <3>1, <3>4
    <2> QED
      BY Zenon, <2>1, <2>3, <2>4 DEF SameLinks
  <1>23. IsLists([f EXCEPT ![c] = h], m, q, [L EXCEPT ![c] = RemoveAt(s, i)])
    BY Zenon, <1>3, <1>19, <1>20, <1>21, <1>22, OneChanges
  <1>24. (IF before = NULL THEN [f EXCEPT ![c] = behind] ELSE f) = [f EXCEPT ![c] = h]
    <2>1. CASE before = NULL
      BY Zenon, <1>11, <1>17, <2>1
    <2>2. CASE before # NULL
      <3>1. i # 1
        BY Zenon, <1>8, <2>2
      <3> QED
        BY Zenon, <1>3, <1>17, <2>2, <3>1
    <2> QED
      BY Zenon, <2>1, <2>2
  <1>25. rmFromFreeLsLinks(x, c, a) = [freels_ |-> [f EXCEPT ![c] = h], next_ |-> m, prev_ |-> q]
    BY Zenon, <1>1, <1>9, <1>10, <1>13, <1>14, <1>24 DEF rmFromFreeLsLinks
  <1>26. Linked(rmFromFreeLsLinks(x, c, a), [L EXCEPT ![c] = RemoveAt(s, i)])
    BY Zenon, <1>23, <1>25, LinkedFields
  <1> QED
    BY Zenon, <1>2, <1>6, <1>26 DEF rmFromFreeLs

(* The links m are n with the block a, which leads to `to', and from which *)
(* `from' leads.                                                           *)
Chained(n, m, a, to, from) ==
    /\ DOMAIN m = DOMAIN n \cup {a}
    /\ m[a] = to
    /\ \A y \in DOMAIN n : (y # a /\ y # NULL) => m[y] = IF y = from THEN a ELSE n[y]

(* Links in which a comes first. *)
LEMMA ChainFirst ==
  ASSUME NEW n, NEW a, NEW to
  PROVE  Chained(n, Put(n, a, to), a, to, NULL)
  <1>1. PICK m : m = Put(n, a, to)
    BY Zenon
  <1>2. IsPut(n, a, to, m)
    BY Zenon, <1>1, PutIs
  <1>3. Chained(n, m, a, to, NULL)
    BY Zenon, <1>2 DEF IsPut, Chained
  <1> QED
    BY Zenon, <1>1, <1>3

(* Links in which a comes behind another block. *)
LEMMA ChainBehind ==
  ASSUME NEW n, NEW a, NEW to, NEW from \in DOMAIN n, from # a
  PROVE  Chained(n, Put(Put(n, from, a), a, to), a, to, from)
  <1>1. PICK z : z = Put(n, from, a)
    BY Zenon
  <1>2. PICK m : m = Put(z, a, to)
    BY Zenon
  <1>3. IsPut(n, from, a, z) /\ IsPut(z, a, to, m)
    BY Zenon, <1>1, <1>2, PutIs
  <1>4. DOMAIN z = DOMAIN n
    BY Zenon, <1>3 DEF IsPut
  <1>5. \A y \in DOMAIN n : z[y] = IF y = from THEN a ELSE n[y]
    BY Zenon, <1>3 DEF IsPut
  <1>6. DOMAIN m = DOMAIN n \cup {a} /\ m[a] = to
    BY Zenon, <1>3, <1>4 DEF IsPut
  <1>7. \A y \in DOMAIN n : (y # a) => m[y] = z[y]
    BY Zenon, <1>3, <1>4 DEF IsPut
  <1>8. Chained(n, m, a, to, from)
    BY Zenon, <1>5, <1>6, <1>7 DEF Chained
  <1> QED
    BY Zenon, <1>1, <1>2, <1>8

At(s, i) == IF i = Len(s) + 1 THEN NULL ELSE s[i]

(* A block that is in no list is put at i into the list of c. *)
LEMMA ListsInsert ==
  ASSUME NEW f, NEW n, NEW p, NEW L, IsLists(f, n, p, L), NEW c \in Class,
         NEW i \in 1..(Len(L[c]) + 1), NEW a \in Nat,
         \A d \in Class : \A j \in 1..Len(L[d]) : L[d][j] # a,
         NEW m, Chained(n, m, a, At(L[c], i), Before(L[c], i)),
         NEW q, Chained(p, q, a, Before(L[c], i), At(L[c], i))
  PROVE  IsLists([f EXCEPT ![c] = IF i = 1 THEN a ELSE f[c]], m, q,
                 [L EXCEPT ![c] = InsertAt(L[c], i, a)])
  <1>1. PICK s : s = L[c]
    BY Zenon
  <1>2. IsList(f[c], n, p, s) /\ f[c] \in Int
    BY Zenon, <1>1 DEF IsLists
  <1>3. s \in Seq(Nat) /\ Len(s) \in Nat /\ \A j \in 1..Len(s) : s[j] \in Nat
    BY Zenon, <1>2, LenFacts, ElementIn DEF IsList
  <1>4. i \in 1..(Len(s) + 1) /\ \A j \in 1..Len(s) : s[j] # a
    BY Zenon, <1>1
  <1>5. \A y \in Nat : y # NULL
    BY DEF NULL
  <1>6. PICK before, at : before = Before(s, i) /\ at = At(s, i)
    BY Zenon
  <1>7. Chained(n, m, a, at, before) /\ Chained(p, q, a, before, at)
    BY Zenon, <1>1, <1>6
  <1>8. before = NULL \/ \E k \in 1..Len(s) : before = s[k] /\ k = i - 1
    <2>1. i # 1 => (i - 1 \in 1..Len(s))
      BY <1>3, <1>4
    <2> QED
      BY Zenon, <1>6, <2>1 DEF Before
  <1>9. at = NULL \/ \E k \in 1..Len(s) : at = s[k] /\ k = i
    <2>1. i # Len(s) + 1 => (i \in 1..Len(s))
      BY <1>3, <1>4
    <2> QED
      BY Zenon, <1>6, <2>1 DEF At
  <1>10. \A j, k \in 1..Len(s) : (s[j] = s[k]) => (j = k)
    BY Zenon, <1>2 DEF IsList
  <1>11. LinksIn(n, p, m, q, s, i, a)
    <2>1. ASSUME NEW j \in 1..Len(s)
          PROVE  /\ s[j] \in DOMAIN m /\ s[j] \in DOMAIN q
                 /\ m[s[j]] = IF j = i - 1 THEN a ELSE n[s[j]]
                 /\ q[s[j]] = IF j = i THEN a ELSE p[s[j]]
      <3>1. s[j] # a /\ s[j] # NULL /\ s[j] \in DOMAIN n /\ s[j] \in DOMAIN p
        BY Zenon, <1>2, <1>3, <1>4, <1>5 DEF IsList
      <3>2. s[j] = before <=> j = i - 1
        <4>1. j = i - 1 => i # 1
          BY <1>3, <1>4
        <4>2. j = i - 1 => s[j] = before
          BY Zenon, <1>6, <4>1 DEF Before
        <4> QED
          BY Zenon, <1>8, <1>10, <3>1, <4>2
      <3>3. s[j] = at <=> j = i
        <4>1. j = i => i # Len(s) + 1
          BY <1>3, <1>4
        <4>2. j = i => s[j] = at
          BY Zenon, <1>6, <4>1 DEF At
        <4> QED
          BY Zenon, <1>9, <1>10, <3>1, <4>2
      <3> QED
        BY Zenon, <1>7, <3>1, <3>2, <3>3 DEF Chained
    <2>2. a \in DOMAIN m /\ a \in DOMAIN q /\ m[a] = at /\ q[a] = before
      BY Zenon, <1>7 DEF Chained
    <2> QED
      BY Zenon, <1>6, <2>1, <2>2 DEF LinksIn, At, Before
  <1>12. PICK h : h = IF i = 1 THEN a ELSE f[c]
    BY Zenon
  <1>13. IsList(h, m, q, InsertAt(s, i, a))
    BY Zenon, <1>2, <1>4, <1>11, <1>12, ListInsert
  <1>14. h \in Int
    BY <1>2, <1>12
  <1>15. IsFiniteSet(DOMAIN m) /\ DOMAIN m \subseteq Nat
    <2>1. IsFiniteSet(DOMAIN n) /\ DOMAIN n \subseteq Nat
      BY Zenon DEF IsLists
    <2>2. DOMAIN m = DOMAIN n \cup {a}
      BY Zenon, <1>7 DEF Chained
    <2>3. IsFiniteSet(DOMAIN n \cup {a})
      BY Zenon, <2>1, FS_AddElement
    <2> QED
      BY Zenon, <2>1, <2>2, <2>3
  <1>16. ASSUME NEW d \in Class, d # c
         PROVE  SameLinks(n, p, m, q, L[d]) /\ Apart(InsertAt(s, i, a), L[d])
    <2>1. PICK l : l = L[d]
      BY Zenon
    <2>2. Apart(s, l) /\ IsList(f[d], n, p, l) /\ \A j \in 1..Len(l) : l[j] # a
      BY Zenon, <1>1, <1>16, <2>1 DEF IsLists
    <2>3. ASSUME NEW j \in 1..Len(l)
          PROVE  /\ l[j] \in DOMAIN m /\ l[j] \in DOMAIN q
                 /\ m[l[j]] = n[l[j]] /\ q[l[j]] = p[l[j]]
      <3>1. l[j] \in Nat /\ l[j] \in DOMAIN n /\ l[j] \in DOMAIN p
        BY Zenon, <2>2, ElementIn DEF IsList
      <3>2. PICK b : b = l[j]
        BY Zenon
      <3>3. \A k \in 1..Len(s) : b # s[k]
        BY Zenon, <2>2, <3>2 DEF Apart
      <3>4. b # a /\ b # NULL
        BY Zenon, <1>5, <2>2, <3>1, <3>2
      <3>5. b # before /\ b # at
        BY Zenon, <1>8, <1>9, <3>3, <3>4
      <3> QED
        BY Zenon, <1>7, <3>1, <3>2, <3>4, <3>5 DEF Chained
    <2>4. Apart(InsertAt(s, i, a), l)
      <3>1. PICK r : r = InsertAt(s, i, a)
        BY Zenon
      <3>2. IsInserted(s, i, a, r)
        BY Zenon, <1>3, <1>4, <3>1, Inserted
      <3>3. ASSUME NEW k \in 1..Len(r) PROVE r[k] = a \/ \E u \in 1..Len(s) : r[k] = s[u]
        <4>1. /\ k \in 1..(Len(s) + 1)
              /\ r[k] = IF k < i THEN s[k] ELSE IF k = i THEN a ELSE s[k - 1]
          BY Zenon, <3>2 DEF IsInserted
        <4>2. (k < i => k \in 1..Len(s)) /\ (~(k < i) /\ k # i => k - 1 \in 1..Len(s))
          BY <1>3, <1>4, <4>1
        <4> QED
          BY Zenon, <4>1, <4>2
      <3>4. ASSUME NEW k \in 1..Len(r), NEW j \in 1..Len(l), r[k] = l[j] PROVE FALSE
        <4>1. r[k] # a
          BY Zenon, <2>2, <3>4
        <4>2. PICK u \in 1..Len(s) : r[k] = s[u]
          BY Zenon, <3>3, <4>1
        <4> QED
          BY Zenon, <2>2, <3>4, <4>2 DEF Apart
      <3>5. Apart(r, l)
        BY Zenon, <3>4 DEF Apart
      <3> QED
        BY Zenon, <3>1, <3>5
    <2> QED
      BY Zenon, <2>1, <2>3, <2>4 DEF SameLinks
  <1>17. IsLists([f EXCEPT ![c] = h], m, q, [L EXCEPT ![c] = InsertAt(s, i, a)])
    BY Zenon, <1>13, <1>14, <1>15, <1>16, OneChanges
  <1> QED
    BY Zenon, <1>1, <1>12, <1>17

(* The first of some positions, as SelectInSeq gives it. *)
First(I) == IF I # {} THEN Min(I) ELSE 0
Fit(s, sz, v) == {i \in 1..Len(s) : sz[s[i]] >= v}

(* SelectInSeq gives one of the positions, or 0 if there is none. *)
LEMMA FirstIn ==
  ASSUME NEW N \in Nat, NEW I \in SUBSET (1..N)
  PROVE  /\ First(I) \in 0..N
         /\ First(I) # 0 => First(I) \in I
         /\ (First(I) = 0) <=> (I = {})
  <1>1. CASE I = {}
    <2>1. First(I) = 0
      BY Zenon, <1>1 DEF First
    <2> QED
      BY <1>1, <2>1
  <1>2. CASE I # {}
    <2>1. I \in SUBSET Nat
      OBVIOUS
    <2>2. First(I) \in I
      BY Zenon, <1>2, <2>1, MinIn DEF First
    <2>3. PICK i : i = First(I)
      BY Zenon
    <2>4. i \in 1..N
      BY Zenon, <2>2, <2>3
    <2>5. i \in 0..N /\ i # 0
      BY <2>4
    <2> QED
      BY Zenon, <1>2, <2>2, <2>3, <2>5
  <1> QED
    BY Zenon, <1>1, <1>2

(* The loop of insertFreeBlock stops at the first block that fits. *)
LEMMA IterIs ==
  ASSUME NEW s, NEW sz, NEW v
  PROVE  Iter(s, sz, v) = IF First(Fit(s, sz, v)) = 0 THEN NULL ELSE s[First(Fit(s, sz, v))]
  BY DEF Iter, SelectInSeq, First, Fit

(* The position that the sequences have for it. *)
LEMMA PositionIs ==
  ASSUME NEW s, NEW sz, NEW a, NEW last
  PROVE  InsertPosition(s, sz, a, last) =
           IF ~last THEN 1
           ELSE IF First(Fit(s, sz, sz[a])) = 0 THEN Len(s) + 1 ELSE First(Fit(s, sz, sz[a]))
  BY DEF InsertPosition, SelectInSeq, First, Fit

(* preiter is the block before iter. *)
LEMMA PreIterIs ==
  ASSUME NEW s \in Seq(Nat), \A i, j \in 1..Len(s) : (s[i] = s[j]) => (i = j)
  PROVE  /\ PreIter(s, NULL) = Before(s, Len(s) + 1)
         /\ \A k \in 1..Len(s) : PreIter(s, s[k]) = Before(s, k)
  <1>1. PreIter(s, NULL) = Before(s, Len(s) + 1)
    BY Zenon DEF PreIter, Before
  <1>2. ASSUME NEW k \in 1..Len(s) PROVE PreIter(s, s[k]) = Before(s, k)
    <2>1. s[k] # NULL
      <3>1. s[k] \in Nat
        BY Zenon, ElementIn
      <3> QED
        BY <3>1 DEF NULL
    <2>2. PreIter(s, s[k]) = Before(s, First({i \in 1..Len(s) : s[i] = s[k]}))
      BY <2>1 DEF PreIter, SelectInSeq, First, Before
    <2>3. {i \in 1..Len(s) : s[i] = s[k]} = {k}
      BY Zenon
    <2>4. First({k}) = k
      <3>1. {k} \in SUBSET Nat
        BY LenFacts
      <3> QED
        BY Zenon, <3>1, MinIn DEF First
    <2> QED
      BY Zenon, <2>2, <2>3, <2>4
  <1> QED
    BY Zenon, <1>1, <1>2

(* Which of the three cases of insertFreeBlock inserts at which position. *)
LEMMA InsertCases ==
  ASSUME NEW x, NEW L, Linked(x, L), NEW sz, NEW a,
         NEW c \in Class, c = ClassOf(sz[a], Unit, LastClass),
         NEW s, s = L[c], NEW k, k = InsertPosition(s, sz, a, c = LastClass)
  PROVE  /\ k \in 1..(Len(s) + 1)
         /\ insertFreeBlockLinks(x, sz, a, Unit, LastClass) =
              IF k = 1 THEN InsertFront(x, c, a)
              ELSE IF k = Len(s) + 1 THEN InsertEnd(x, Before(s, k), a)
              ELSE InsertBetween(x, Before(s, k), a, s[k])
  <1>1. Walk(x, c) = s
    BY Zenon, WalkIs
  <1>2. IsList(x.freels_[c], x.next_, x.prev_, s)
    BY Zenon DEF Linked, IsLists
  <1>3. /\ s \in Seq(Nat) /\ Len(s) \in Nat /\ \A j \in 1..Len(s) : s[j] \in Nat
        /\ x.freels_[c] = IF Len(s) = 0 THEN NULL ELSE s[1]
    BY Zenon, <1>2, LenFacts, ElementIn DEF IsList
  <1>4. /\ PreIter(s, NULL) = Before(s, Len(s) + 1)
        /\ \A j \in 1..Len(s) : PreIter(s, s[j]) = Before(s, j)
    BY Zenon, <1>2, PreIterIs DEF IsList
  <1>5. PICK at : at = First(Fit(s, sz, sz[a]))
    BY Zenon
  <1>6. at \in 0..Len(s)
    <2>1. Fit(s, sz, sz[a]) \in SUBSET (1..Len(s))
      BY Zenon DEF Fit
    <2> QED
      BY Zenon, <1>3, <1>5, <2>1, FirstIn
  <1>7. k = IF c # LastClass THEN 1 ELSE IF at = 0 THEN Len(s) + 1 ELSE at
    BY Zenon, <1>5, PositionIs
  <1>8. k \in 1..(Len(s) + 1)
    BY <1>3, <1>6, <1>7
  <1>9. Iter(s, sz, sz[a]) = IF at = 0 THEN NULL ELSE s[at]
    BY Zenon, <1>5, IterIs
  <1>10. PICK iter, pre : iter = Iter(s, sz, sz[a]) /\ pre = PreIter(s, iter)
    BY Zenon
  <1>11. insertFreeBlockLinks(x, sz, a, Unit, LastClass) =
           IF c = LastClass /\ x.freels_[c] # NULL
             THEN CASE iter = NULL -> InsertEnd(x, pre, a)
                    [] iter # NULL /\ pre = NULL -> InsertFront(x, c, a)
                    [] OTHER -> InsertBetween(x, pre, a, iter)
             ELSE InsertFront(x, c, a)
    BY Zenon, <1>1, <1>10 DEF insertFreeBlockLinks
  <1>12. CASE c # LastClass
    BY Zenon, <1>7, <1>8, <1>11, <1>12
  <1>13. CASE c = LastClass /\ Len(s) = 0
    <2>1. x.freels_[c] = NULL
      BY Zenon, <1>3, <1>13
    <2>2. k = 1
      BY <1>8, <1>13
    <2> QED
      BY Zenon, <1>8, <1>11, <2>1, <2>2
  <1>14. CASE c = LastClass /\ Len(s) # 0
    <2>1. x.freels_[c] # NULL
      <3>1. s[1] \in Nat
        BY <1>3, <1>14
      <3> QED
        BY <1>3, <1>14, <3>1 DEF NULL
    <2>2. CASE at = 0
      <3>1. k = Len(s) + 1 /\ k # 1
        BY <1>3, <1>7, <1>14, <2>2
      <3>2. iter = NULL /\ pre = Before(s, k)
        BY Zenon, <1>4, <1>9, <1>10, <2>2, <3>1
      <3>3. insertFreeBlockLinks(x, sz, a, Unit, LastClass) = InsertEnd(x, pre, a)
        BY Zenon, <1>11, <1>14, <2>1, <3>2
      <3> QED
        BY Zenon, <1>8, <3>1, <3>2, <3>3
    <2>3. CASE at # 0
      <3>1. at \in 1..Len(s) /\ k = at /\ k # Len(s) + 1
        BY <1>3, <1>6, <1>7, <1>14, <2>3
      <3>2. iter = s[k] /\ pre = Before(s, k)
        BY Zenon, <1>4, <1>9, <1>10, <2>3, <3>1
      <3>3. iter # NULL
        BY <1>3, <3>1, <3>2 DEF NULL
      <3>4. pre = NULL <=> k = 1
        <4>1. k # 1 => (k - 1 \in 1..Len(s))
          BY <1>3, <3>1
        <4>2. k # 1 => s[k - 1] # NULL
          BY <1>3, <4>1 DEF NULL
        <4> QED
          BY Zenon, <3>2, <4>2 DEF Before
      <3>5. insertFreeBlockLinks(x, sz, a, Unit, LastClass) =
              IF k = 1 THEN InsertFront(x, c, a) ELSE InsertBetween(x, pre, a, iter)
        BY Zenon, <1>11, <1>14, <2>1, <3>3, <3>4
      <3> QED
        BY Zenon, <1>8, <3>1, <3>2, <3>5
    <2> QED
      BY Zenon, <2>2, <2>3
  <1> QED
    BY Zenon, <1>12, <1>13, <1>14

(* insertFreeBlock puts the block where the sequences of FreeLists have it. *)
LEMMA InsertLinked ==
  ASSUME NEW x, NEW L, Linked(x, L), NEW sz, NEW a \in Nat,
         ClassOf(sz[a], Unit, LastClass) \in Class,
         \A d \in Class : \A j \in 1..Len(L[d]) : L[d][j] # a
  PROVE  Linked(insertFreeBlockLinks(x, sz, a, Unit, LastClass),
                insertFreeBlock(L, sz, a, Unit, LastClass))
  <1>1. PICK c \in Class : c = ClassOf(sz[a], Unit, LastClass)
    BY Zenon
  <1>2. PICK s : s = L[c]
    BY Zenon
  <1>3. PICK i : i = InsertPosition(s, sz, a, c = LastClass)
    BY Zenon
  <1>4. PICK y : y = insertFreeBlockLinks(x, sz, a, Unit, LastClass)
    BY Zenon
  <1>5. /\ i \in 1..(Len(s) + 1)
        /\ y = IF i = 1 THEN InsertFront(x, c, a)
               ELSE IF i = Len(s) + 1 THEN InsertEnd(x, Before(s, i), a)
               ELSE InsertBetween(x, Before(s, i), a, s[i])
    <2>1. /\ InsertPosition(s, sz, a, c = LastClass) \in 1..(Len(s) + 1)
          /\ insertFreeBlockLinks(x, sz, a, Unit, LastClass) =
               IF i = 1 THEN InsertFront(x, c, a)
               ELSE IF i = Len(s) + 1 THEN InsertEnd(x, Before(s, i), a)
               ELSE InsertBetween(x, Before(s, i), a, s[i])
      BY SMT, <1>1, <1>2, <1>3, InsertCases
    <2> QED
      BY Zenon, <1>3, <1>4, <2>1
  <1>6. insertFreeBlock(L, sz, a, Unit, LastClass) = [L EXCEPT ![c] = InsertAt(s, i, a)]
    BY Zenon, <1>1, <1>2, <1>3 DEF insertFreeBlock
  <1>7. PICK f, n, p : f = x.freels_ /\ n = x.next_ /\ p = x.prev_
    BY Zenon
  <1>8. IsLists(f, n, p, L) /\ f \in [Class -> Int] /\ x = [freels_ |-> f, next_ |-> n, prev_ |-> p]
    BY Zenon, <1>7 DEF Linked, IsLists
  <1>9. IsList(f[c], n, p, s)
    BY Zenon, <1>2, <1>8 DEF IsLists
  <1>10. s \in Seq(Nat) /\ Len(s) \in Nat /\ \A j \in 1..Len(s) : s[j] \in Nat
    BY Zenon, <1>9, LenFacts, ElementIn DEF IsList
  <1>11. \A j \in 1..Len(s) : s[j] # a /\ s[j] \in DOMAIN n /\ s[j] \in DOMAIN p
    BY Zenon, <1>2, <1>9 DEF IsList
  <1>12. f[c] = IF Len(s) = 0 THEN NULL ELSE s[1]
    BY Zenon, <1>9 DEF IsList
  <1>13. ASSUME NEW m, NEW q, Chained(n, m, a, At(s, i), Before(s, i)),
                              Chained(p, q, a, Before(s, i), At(s, i))
         PROVE  IsLists([f EXCEPT ![c] = IF i = 1 THEN a ELSE f[c]], m, q,
                        [L EXCEPT ![c] = InsertAt(s, i, a)])
    <2>1. i \in 1..(Len(L[c]) + 1)
      BY Zenon, <1>2, <1>5
    <2>2. Chained(n, m, a, At(L[c], i), Before(L[c], i)) /\ Chained(p, q, a, Before(L[c], i), At(L[c], i))
      BY Zenon, <1>2, <1>13
    <2>3. IsLists([f EXCEPT ![c] = IF i = 1 THEN a ELSE f[c]], m, q,
                  [L EXCEPT ![c] = InsertAt(L[c], i, a)])
      BY Zenon, <1>8, <2>1, <2>2, ListsInsert
    <2> QED
      BY Zenon, <1>2, <2>3
  <1>19. ASSUME NEW g, NEW m, NEW q, y = [freels_ |-> g, next_ |-> m, prev_ |-> q],
                IsLists(g, m, q, [L EXCEPT ![c] = InsertAt(s, i, a)])
         PROVE  Linked(insertFreeBlockLinks(x, sz, a, Unit, LastClass),
                       insertFreeBlock(L, sz, a, Unit, LastClass))
    <2>1. Linked(y, [L EXCEPT ![c] = InsertAt(s, i, a)])
      BY Zenon, <1>19, LinkedFields
    <2> QED
      BY Zenon, <1>4, <1>6, <2>1
  <1>14. (i # 1) => [f EXCEPT ![c] = IF i = 1 THEN a ELSE f[c]] = f
    BY Zenon, <1>8
  <1>15. (i # 1) => /\ Before(s, i) \in DOMAIN n /\ Before(s, i) # a
    <2>1. (i # 1) => i - 1 \in 1..Len(s)
      BY <1>5, <1>10
    <2> QED
      BY Zenon, <1>11, <2>1 DEF Before
  <1>16. CASE i = 1
    <2>1. At(s, i) = f[c] /\ Before(s, i) = NULL
      <3>1. Len(s) = 0 <=> i = Len(s) + 1
        BY <1>10, <1>16
      <3> QED
        BY Zenon, <1>12, <1>16, <3>1 DEF At, Before
    <2>2. PICK m : m = Put(n, a, f[c])
      BY Zenon
    <2>3. PICK q : q = Put(IF f[c] = NULL THEN p ELSE Put(p, f[c], a), a, NULL)
      BY Zenon
    <2>4. Chained(n, m, a, f[c], NULL)
      BY Zenon, <2>2, ChainFirst
    <2>5. Chained(p, q, a, NULL, f[c])
      <3>1. CASE f[c] = NULL
        BY Zenon, <2>3, <3>1, ChainFirst
      <3>2. CASE f[c] # NULL
        <4>1. Len(s) # 0 /\ f[c] = s[1]
          BY Zenon, <1>12, <3>2
        <4>2. 1 \in 1..Len(s)
          BY <1>10, <4>1
        <4>3. f[c] \in DOMAIN p /\ f[c] # a
          BY Zenon, <1>11, <4>1, <4>2
        <4> QED
          BY Zenon, <2>3, <3>2, <4>3, ChainBehind
      <3> QED
        BY Zenon, <3>1, <3>2
    <2>6. y = [freels_ |-> [f EXCEPT ![c] = a], next_ |-> m, prev_ |-> q]
      BY Zenon, <1>5, <1>7, <1>16, <2>2, <2>3 DEF InsertFront
    <2>7. IsLists([f EXCEPT ![c] = a], m, q, [L EXCEPT ![c] = InsertAt(s, i, a)])
      BY Zenon, <1>13, <1>16, <2>1, <2>4, <2>5
    <2> QED
      BY Zenon, <1>19, <2>6, <2>7
  <1>17. CASE i # 1 /\ i = Len(s) + 1
    <2>0. PICK before : before = Before(s, i)
      BY Zenon
    <2>1. At(s, i) = NULL
      BY Zenon, <1>17 DEF At
    <2>2. PICK m : m = Put(Put(n, before, a), a, NULL)
      BY Zenon
    <2>3. PICK q : q = Put(p, a, before)
      BY Zenon
    <2>4. Chained(n, m, a, NULL, before)
      BY Zenon, <1>15, <1>17, <2>0, <2>2, ChainBehind
    <2>5. Chained(p, q, a, before, NULL)
      BY Zenon, <2>3, ChainFirst
    <2>6. y = [freels_ |-> f, next_ |-> m, prev_ |-> q]
      <3>1. y = InsertEnd([freels_ |-> f, next_ |-> n, prev_ |-> p], before, a)
        BY Zenon, <1>5, <1>8, <1>17, <2>0
      <3> QED
        BY Zenon, <2>2, <2>3, <3>1 DEF InsertEnd
    <2>7. IsLists(f, m, q, [L EXCEPT ![c] = InsertAt(s, i, a)])
      BY Zenon, <1>13, <1>14, <1>17, <2>0, <2>1, <2>4, <2>5
    <2> QED
      BY Zenon, <1>19, <2>6, <2>7
  <1>18. CASE i # 1 /\ i # Len(s) + 1
    <2>0. PICK before : before = Before(s, i)
      BY Zenon
    <2>1. At(s, i) = s[i] /\ i \in 1..Len(s)
      <3>1. i \in 1..Len(s)
        BY <1>5, <1>10, <1>18
      <3> QED
        BY Zenon, <1>18, <3>1 DEF At
    <2>2. PICK m : m = Put(Put(n, before, a), a, s[i])
      BY Zenon
    <2>3. PICK q : q = Put(Put(p, s[i], a), a, before)
      BY Zenon
    <2>4. Chained(n, m, a, s[i], before)
      BY Zenon, <1>15, <1>18, <2>0, <2>2, ChainBehind
    <2>5. Chained(p, q, a, before, s[i])
      BY Zenon, <1>11, <2>1, <2>3, ChainBehind
    <2>6. y = [freels_ |-> f, next_ |-> m, prev_ |-> q]
      <3>1. y = InsertBetween([freels_ |-> f, next_ |-> n, prev_ |-> p], before, a, s[i])
        BY Zenon, <1>5, <1>8, <1>18, <2>0
      <3> QED
        BY Zenon, <2>2, <2>3, <3>1 DEF InsertBetween
    <2>7. IsLists(f, m, q, [L EXCEPT ![c] = InsertAt(s, i, a)])
      BY Zenon, <1>13, <1>14, <1>18, <2>0, <2>1, <2>4, <2>5
    <2> QED
      BY Zenon, <1>19, <2>6, <2>7
  <1> QED
    BY Zenon, <1>16, <1>17, <1>18

-----------------------------------------------------------------------------
(* What the lists hold *)

In(a, L) == \E c \in Class : \E j \in 1..Len(L[c]) : L[c][j] = a
Members(L) == {a \in Nat : In(a, L)}

(* The classes are numbers. *)
LEMMA ClassFacts == LastClass \in Nat /\ \A c \in Class : c \in Nat
  BY NumClassesAssumption DEF LastClass, Class

(* Every size has a class. *)
LEMMA ClassOfIn ==
  ASSUME NEW n \in Nat
  PROVE  ClassOf(n, Unit, LastClass) \in Class
  <1>1. LastClass \in Nat
    BY Zenon, ClassFacts
  <1>2. n \div Unit \in Nat
    BY DEF Unit
  <1> QED
    BY <1>1, <1>2 DEF ClassOf, Class

(* The lists are sequences of numbers. *)
LEMMA ListType ==
  ASSUME NEW x, NEW L, Linked(x, L), NEW c \in Class
  PROVE  L[c] \in Seq(Nat) /\ Len(L[c]) \in Nat /\ \A j \in 1..Len(L[c]) : L[c][j] \in Nat
  <1>1. L[c] \in Seq(Nat)
    BY Zenon DEF Linked, IsLists
  <1> QED
    BY Zenon, <1>1, LenFacts, ElementIn

(* No block is at two positions. *)
Once(L) ==
    \A c, d \in Class : \A i \in 1..Len(L[c]), j \in 1..Len(L[d]) :
      (L[c][i] = L[d][j]) => (c = d /\ i = j)

(* Linked lists hold a block once. *)
LEMMA LinkedOnce ==
  ASSUME NEW x, NEW L, Linked(x, L)
  PROVE  Once(L)
  <1>1. IsLists(x.freels_, x.next_, x.prev_, L)
    BY Zenon DEF Linked
  <1>2. ASSUME NEW c \in Class, NEW d \in Class,
               NEW i \in 1..Len(L[c]), NEW j \in 1..Len(L[d]), L[c][i] = L[d][j]
        PROVE  c = d /\ i = j
    <2>1. c = d
      <3>1. (c # d) => Apart(L[c], L[d])
        BY Zenon, <1>1 DEF IsLists
      <3> QED
        BY Zenon, <1>2, <3>1 DEF Apart
    <2>2. IsList(x.freels_[c], x.next_, x.prev_, L[c])
      BY Zenon, <1>1 DEF IsLists
    <2> QED
      BY Zenon, <1>2, <2>1, <2>2 DEF IsList
  <1> QED
    BY Zenon, <1>2 DEF Once

(* Without the block at i the lists hold that block no more. *)
LEMMA MembersRemove ==
  ASSUME NEW x, NEW L, Linked(x, L), NEW c \in Class, NEW i \in 1..Len(L[c])
  PROVE  /\ L[c][i] \in Members(L)
         /\ Members(rmFromFreeLs(L, c, i)) \subseteq Members(L)
         /\ L[c][i] \notin Members(rmFromFreeLs(L, c, i))
  <1>1. PICK s, K : s = L[c] /\ K = rmFromFreeLs(L, c, i)
    BY Zenon
  <1>2. /\ s \in Seq(Nat) /\ Len(s) \in Nat /\ i \in 1..Len(s) /\ L \in [Class -> Seq(Nat)]
        /\ \A j \in 1..Len(s) : s[j] \in Nat
    BY Zenon, <1>1, ListType DEF Linked, IsLists
  <1>3. PICK r : r = RemoveAt(s, i)
    BY Zenon
  <1>4. IsRemoved(s, i, r)
    BY Zenon, <1>2, <1>3, Removed
  <1>5. K[c] = r /\ \A d \in Class : (d # c) => K[d] = L[d]
    BY Zenon, <1>1, <1>2, <1>3 DEF rmFromFreeLs
  <1>6. ASSUME NEW k \in 1..Len(r) PROVE \E u \in 1..Len(s) : u # i /\ r[k] = s[u]
    <2>1. k \in 1..(Len(s) - 1) /\ r[k] = IF k < i THEN s[k] ELSE s[k + 1]
      BY Zenon, <1>4, <1>6 DEF IsRemoved
    <2>2. /\ k < i => k \in 1..Len(s) /\ k # i
          /\ ~(k < i) => k + 1 \in 1..Len(s) /\ k + 1 # i
      BY <1>2, <2>1
    <2> QED
      BY Zenon, <2>1, <2>2
  <1>7. ASSUME NEW a \in Members(K) PROVE a \in Members(L) /\ a # s[i]
    <2>0. PICK d \in Class : \E j \in 1..Len(K[d]) : K[d][j] = a
      BY Zenon DEF Members, In
    <2>1. PICK j \in 1..Len(K[d]) : K[d][j] = a
      BY Zenon, <2>0
    <2>2. PICK v \in 1..Len(L[d]) : L[d][v] = a /\ (d = c => v # i)
      <3>1. CASE d = c
        <4>1. PICK u \in 1..Len(s) : u # i /\ r[j] = s[u]
          BY Zenon, <1>5, <1>6, <2>1, <3>1
        <4> QED
          BY Zenon, <1>1, <1>5, <2>1, <3>1, <4>1
      <3>2. CASE d # c
        BY Zenon, <1>5, <2>1, <3>2
      <3> QED
        BY Zenon, <3>1, <3>2
    <2>3. a \in Members(L)
      BY Zenon, <2>2 DEF Members, In
    <2>4. ASSUME a = s[i] PROVE FALSE
      <3>1. L[d][v] = L[c][i]
        BY Zenon, <1>1, <2>2, <2>4
      <3>2. \A k \in 1..Len(L[c]) : (L[d][v] = L[c][k]) => (d = c /\ v = k)
        <4>1. Once(L)
          BY Zenon, LinkedOnce
        <4> QED
          BY Zenon, <4>1 DEF Once
      <3>3. d = c /\ v = i
        BY ONLY Zenon, <3>1, <3>2, i \in 1..Len(L[c])
      <3> QED
        BY Zenon, <2>2, <3>3
    <2> QED
      BY Zenon, <2>3, <2>4
  <1>8. s[i] \in Members(L)
    BY Zenon, <1>1, <1>2 DEF Members, In
  <1> QED
    BY Zenon, <1>1, <1>7, <1>8

(* With the block a they hold no other new block. *)
LEMMA MembersInsert ==
  ASSUME NEW x, NEW L, Linked(x, L), NEW sz, NEW a \in Nat,
         ClassOf(sz[a], Unit, LastClass) \in Class
  PROVE  Members(insertFreeBlock(L, sz, a, Unit, LastClass)) \subseteq Members(L) \cup {a}
  <1>1. PICK c \in Class : c = ClassOf(sz[a], Unit, LastClass)
    BY Zenon
  <1>2. PICK s : s = L[c]
    BY Zenon
  <1>3. PICK i : i = InsertPosition(s, sz, a, c = LastClass)
    BY Zenon
  <1>4. i \in 1..(Len(s) + 1)
    <2>1. InsertPosition(s, sz, a, c = LastClass) \in 1..(Len(s) + 1)
      BY SMT, <1>1, <1>2, InsertCases
    <2> QED
      BY Zenon, <1>3, <2>1
  <1>5. PICK r : r = InsertAt(s, i, a)
    BY Zenon
  <1>6. PICK K : K = insertFreeBlock(L, sz, a, Unit, LastClass)
    BY Zenon
  <1>7. K = [L EXCEPT ![c] = r]
    BY Zenon, <1>1, <1>2, <1>3, <1>5, <1>6 DEF insertFreeBlock
  <1>8. /\ s \in Seq(Nat) /\ Len(s) \in Nat /\ L \in [Class -> Seq(Nat)]
        /\ \A j \in 1..Len(s) : s[j] \in Nat
    BY Zenon, <1>2, ListType DEF Linked, IsLists
  <1>9. IsInserted(s, i, a, r)
    BY Zenon, <1>4, <1>5, <1>8, Inserted
  <1>10. K[c] = r /\ \A d \in Class : (d # c) => K[d] = L[d]
    BY Zenon, <1>7, <1>8
  <1>11. ASSUME NEW k \in 1..Len(r) PROVE r[k] = a \/ \E u \in 1..Len(s) : r[k] = s[u]
    <2>1. /\ k \in 1..(Len(s) + 1)
          /\ r[k] = IF k < i THEN s[k] ELSE IF k = i THEN a ELSE s[k - 1]
      BY Zenon, <1>9 DEF IsInserted
    <2>2. (k < i => k \in 1..Len(s)) /\ (~(k < i) /\ k # i => k - 1 \in 1..Len(s))
      BY <1>4, <1>8, <2>1
    <2> QED
      BY Zenon, <2>1, <2>2
  <1>12. ASSUME NEW b \in Members(K) PROVE b \in Members(L) \cup {a}
    <2>0. PICK d \in Class : \E j \in 1..Len(K[d]) : K[d][j] = b
      BY Zenon DEF Members, In
    <2>1. PICK j \in 1..Len(K[d]) : K[d][j] = b
      BY Zenon, <2>0
    <2>2. b = a \/ \E v \in 1..Len(L[d]) : L[d][v] = b
      <3>1. CASE d = c
        <4>1. r[j] = a \/ \E u \in 1..Len(s) : r[j] = s[u]
          BY Zenon, <1>10, <1>11, <2>1, <3>1
        <4> QED
          BY Zenon, <1>2, <1>10, <2>1, <3>1, <4>1
      <3>2. CASE d # c
        BY Zenon, <1>10, <2>1, <3>2
      <3> QED
        BY Zenon, <3>1, <3>2
    <2>3. b \in Nat
      BY Zenon DEF Members
    <2> QED
      BY Zenon, <2>2, <2>3 DEF Members, In
  <1> QED
    BY Zenon, <1>6, <1>12

(* The block that allocateObject chooses is one of its lists. *)
LEMMA ChoiceIn ==
  ASSUME NEW x, NEW L, Linked(x, L), NEW sz, NEW n \in Nat,
         NEW ch, ch = Choice(L, sz, n, Unit, LastClass), ch.at # 0
  PROVE  ch.pos \in Class /\ ch.at \in 1..Len(L[ch.pos])
  <1>1. ASSUME NEW c \in Class, NEW v PROVE FitPosition(L[c], sz, v, c = LastClass) \in 0..Len(L[c])
    <2>1. PICK s : s = L[c]
      BY Zenon
    <2>2. s \in Seq(Nat) /\ Len(s) \in Nat
      BY Zenon, <2>1, ListType
    <2>3. FitPosition(s, sz, v, c = LastClass) =
            IF c = LastClass THEN First(Fit(s, sz, v)) ELSE IF s = <<>> THEN 0 ELSE 1
      BY DEF FitPosition, SelectInSeq, First, Fit
    <2>4. First(Fit(s, sz, v)) \in 0..Len(s)
      <3>1. Fit(s, sz, v) \in SUBSET (1..Len(s))
        BY Zenon DEF Fit
      <3> QED
        BY Zenon, <2>2, <3>1, FirstIn
    <2>5. (s # <<>>) => 1 \in 0..Len(s)
      BY <2>2, EmptyFacts
    <2>6. 0 \in 0..Len(s)
      BY <2>2
    <2>7. FitPosition(s, sz, v, c = LastClass) \in 0..Len(s)
      BY Zenon, <2>3, <2>4, <2>5, <2>6
    <2> QED
      BY Zenon, <2>1, <2>7
  <1>2. PICK index : index = ClassOf(n, Unit, LastClass)
    BY Zenon
  <1>3. index \in Class
    BY Zenon, <1>2, ClassOfIn
  <1>4. PICK larger : larger = {k \in (index + 1)..LastClass : L[k] # <<>>}
    BY Zenon
  <1>5. CASE L[index] # <<>>
    <2>1. ch = [pos |-> index, searched |-> FALSE, at |-> FitPosition(L[index], sz, n, index = LastClass)]
      BY Zenon, <1>2, <1>5 DEF Choice
    <2>2. ch.pos = index /\ ch.at \in 0..Len(L[index])
      <3>1. PICK at : at = FitPosition(L[index], sz, n, index = LastClass)
        BY Zenon
      <3>2. ch = [pos |-> index, searched |-> FALSE, at |-> at]
        BY Zenon, <2>1, <3>1
      <3>3. ch.pos = index /\ ch.at = at
        BY <3>2
      <3> QED
        BY SMT, <1>1, <1>3, <3>1, <3>3
    <2>3. Len(L[index]) \in Nat
      BY Zenon, <1>3, ListType
    <2>4. ch.at \in 1..Len(L[index])
      BY <2>2, <2>3
    <2> QED
      BY Zenon, <1>3, <2>2, <2>4
  <1>6. CASE ~(L[index] # <<>>) /\ larger = {}
    <2>1. ch = [pos |-> index, searched |-> TRUE, at |-> 0]
      BY Zenon, <1>2, <1>4, <1>6 DEF Choice
    <2> QED
      BY <2>1
  <1>7. CASE ~(L[index] # <<>>) /\ larger # {}
    <2>1. PICK k : k = Min(larger)
      BY Zenon
    <2>2. ch = [pos |-> k, searched |-> TRUE, at |-> FitPosition(L[k], sz, k * Unit, k = LastClass)]
      BY Zenon, <1>2, <1>4, <1>7, <2>1 DEF Choice
    <2>3. k \in larger
      <3>1. larger \in SUBSET Nat
        BY <1>3, <1>4, ClassFacts
      <3> QED
        BY Zenon, <1>7, <2>1, <3>1, MinIn
    <2>4. k \in Class
      BY <1>3, <1>4, <2>3, ClassFacts DEF Class
    <2>5. ch.pos = k /\ ch.at \in 0..Len(L[k])
      <3>1. PICK at : at = FitPosition(L[k], sz, k * Unit, k = LastClass)
        BY Zenon
      <3>2. ch = [pos |-> k, searched |-> TRUE, at |-> at]
        BY Zenon, <2>2, <3>1
      <3>3. ch.pos = k /\ ch.at = at
        BY <3>2
      <3> QED
        BY SMT, <1>1, <2>4, <3>1, <3>3
    <2>6. Len(L[k]) \in Nat
      BY Zenon, <2>4, ListType
    <2>7. ch.at \in 1..Len(L[k])
      BY <2>5, <2>6
    <2> QED
      BY Zenon, <2>4, <2>5, <2>7
  <1> QED
    BY Zenon, <1>5, <1>6, <1>7

-----------------------------------------------------------------------------
(* Who holds a block: F are the free ones, V those of user code, m and o   *)
(* those of the calls.                                                     *)

Spot == Nat \cup {NULL}

Own(F, V, m, o) ==
    /\ F \subseteq Nat /\ V \subseteq Nat
    /\ m \in [Thread -> Spot] /\ o \in [Thread -> Spot]
    /\ \A a \in F : a \notin V
    /\ \A t \in Thread : \A a \in F \cup V : m[t] # a /\ o[t] # a
    /\ \A t, u \in Thread :
         /\ (m[t] = m[u] /\ m[t] # NULL) => (t = u)
         /\ (o[t] = o[u] /\ o[t] # NULL) => (t = u)
         /\ (m[t] = o[u]) => (m[t] = NULL)

Blk(F, V, m, o) ==
    {a \in Nat : a \in F \/ a \in V \/ \E t \in Thread : m[t] = a \/ o[t] = a}

(* The call of t may hold a: no list, no user and no other call does. *)
Clear(a, t, F, V, m, o) ==
    a = NULL \/ /\ a \in Nat /\ a \notin F /\ a \notin V
                /\ \A u \in Thread : (u # t) => (m[u] # a /\ o[u] # a)

(* The other calls hold nothing of these. *)
Others(t, F, V, m, o) ==
    \A u \in Thread : (u # t) => \A a \in F \cup V : m[u] # a /\ o[u] # a

(* No block is at NULL. *)
LEMMA NullNotNat == NULL \notin Nat
  BY DEF NULL

(* A block changes hands, through the call of t. *)
LEMMA OwnMove ==
  ASSUME NEW F, NEW V, NEW m, NEW o, Own(F, V, m, o), NEW t \in Thread,
         NEW G, NEW W, G \subseteq Nat, W \subseteq Nat, \A a \in G : a \notin W,
         Others(t, G, W, m, o),
         NEW x, NEW y, Clear(x, t, G, W, m, o), Clear(y, t, G, W, m, o), (x = y) => (x = NULL)
  PROVE  Own(G, W, [m EXCEPT ![t] = x], [o EXCEPT ![t] = y])
  <1>1. PICK k, q : k = [m EXCEPT ![t] = x] /\ q = [o EXCEPT ![t] = y]
    BY Zenon
  <1>2. m \in [Thread -> Spot] /\ o \in [Thread -> Spot] /\ x \in Spot /\ y \in Spot
    BY Zenon DEF Own, Clear, Spot
  <1>3. /\ k \in [Thread -> Spot] /\ k[t] = x /\ \A u \in Thread : (u # t) => k[u] = m[u]
        /\ q \in [Thread -> Spot] /\ q[t] = y /\ \A u \in Thread : (u # t) => q[u] = o[u]
    BY Zenon, <1>1, <1>2
  <1>4. ASSUME NEW u \in Thread, NEW a \in G \cup W PROVE k[u] # a /\ q[u] # a
    <2>1. CASE u # t
      BY Zenon, <1>3, <2>1 DEF Others
    <2>2. CASE u = t
      <3>1. a \in Nat
        BY Zenon
      <3>2. x # a /\ y # a
        BY Zenon, <3>1, NullNotNat DEF Clear
      <3> QED
        BY Zenon, <1>3, <2>2, <3>2
    <2> QED
      BY Zenon, <2>1, <2>2
  <1>5. \A u \in Thread : (u # t) =>
          /\ (x = NULL \/ (x # k[u] /\ x # q[u]))
          /\ (y = NULL \/ (y # k[u] /\ y # q[u]))
    BY Zenon, <1>3 DEF Clear
  <1>6. ASSUME NEW u \in Thread, NEW v \in Thread
        PROVE  /\ (k[u] = k[v] /\ k[u] # NULL) => (u = v)
               /\ (q[u] = q[v] /\ q[u] # NULL) => (u = v)
               /\ (k[u] = q[v]) => (k[u] = NULL)
    <2>1. CASE u = t /\ v = t
      BY Zenon, <1>3, <2>1
    <2>2. CASE u = t /\ v # t
      <3>1. k[u] = x /\ q[u] = y
        BY Zenon, <1>3, <2>2
      <3>2. /\ (x = NULL \/ (x # k[v] /\ x # q[v])) /\ (y = NULL \/ (y # k[v] /\ y # q[v]))
        BY Zenon, <1>5, <2>2
      <3> QED
        BY Zenon, <3>1, <3>2
    <2>3. CASE u # t /\ v = t
      <3>1. k[v] = x /\ q[v] = y
        BY Zenon, <1>3, <2>3
      <3>2. /\ (x = NULL \/ (x # k[u] /\ x # q[u])) /\ (y = NULL \/ (y # k[u] /\ y # q[u]))
        BY Zenon, <1>5, <2>3
      <3> QED
        BY Zenon, <3>1, <3>2
    <2>4. CASE u # t /\ v # t
      <3>1. k[u] = m[u] /\ k[v] = m[v] /\ q[u] = o[u] /\ q[v] = o[v]
        BY Zenon, <1>3, <2>4
      <3>2. /\ (m[u] = m[v] /\ m[u] # NULL) => (u = v)
            /\ (o[u] = o[v] /\ o[u] # NULL) => (u = v)
            /\ (m[u] = o[v]) => (m[u] = NULL)
        BY Zenon DEF Own
      <3> QED
        BY Zenon, <3>1, <3>2
    <2> QED
      BY Zenon, <2>1, <2>2, <2>3, <2>4
  <1>7. Own(G, W, k, q)
    BY Zenon, <1>3, <1>4, <1>6 DEF Own
  <1> QED
    BY Zenon, <1>1, <1>7

-----------------------------------------------------------------------------
(* Where the blocks lie *)

(* The blocks B of sizes w lie below hp and do not overlap. *)
Spaced(B, w, hp) ==
    /\ B \subseteq Nat /\ hp \in Nat
    /\ \A a \in B : /\ w[a] \in Nat /\ w[a] >= MinTotal /\ a + w[a] <= hp
                    /\ \A b \in B : (a < b) => (a + w[a] <= b)

(* w are the sizes: of a block on its way out of allocateObject its        *)
(* totalSize, of another the one in its header.                            *)
Weighs(B, w, p, m, tt, hd) ==
    \A a \in B :
      /\ \A t \in Thread : (p[t] = "tag" /\ m[t] = a) => (w[a] = tt[t])
      /\ (\A t \in Thread : ~(p[t] = "tag" /\ m[t] = a)) => (a \in DOMAIN hd /\ w[a] = hd[a].size)

Laid(B, p, m, tt, hd, hp) == \E w : Weighs(B, w, p, m, tt, hd) /\ Spaced(B, w, hp)

(* Some of the blocks do not overlap if all do not. *)
LEMMA SpacedSub ==
  ASSUME NEW B, NEW w, NEW hp, Spaced(B, w, hp), NEW C, C \subseteq B
  PROVE  Spaced(C, w, hp)
  BY Zenon DEF Spaced

(* A block from the OS lies behind all others. *)
LEMMA SpacedNew ==
  ASSUME NEW B, NEW w, NEW hp, Spaced(B, w, hp), NEW n \in Nat, n >= MinTotal,
         NEW v, v[hp] = n, \A a \in B : v[a] = w[a]
  PROVE  Spaced(B \cup {hp}, v, hp + n) /\ hp \notin B
  <1>1. B \subseteq Nat /\ hp \in Nat
    BY Zenon DEF Spaced
  <1>2. ASSUME NEW a \in B
        PROVE  /\ a \in Nat /\ v[a] \in Nat /\ v[a] >= MinTotal /\ a + v[a] <= hp
               /\ \A b \in B : (a < b) => (a + v[a] <= b)
    BY Zenon, <1>2 DEF Spaced
  <1>3. \A a \in B : a < hp /\ a + v[a] <= hp + n
    BY <1>1, <1>2 DEF MinTotal, NodeSize, HeaderSize
  <1>4. hp \notin B
    BY <1>1, <1>3
  <1>5. hp + n \in Nat /\ hp + v[hp] <= hp + n /\ \A b \in B : ~(hp < b)
    BY <1>1, <1>3
  <1>6. ~(hp < hp)
    BY <1>1
  <1>7. ASSUME NEW a \in B \cup {hp}
        PROVE  /\ v[a] \in Nat /\ v[a] >= MinTotal /\ a + v[a] <= hp + n
               /\ \A b \in B \cup {hp} : (a < b) => (a + v[a] <= b)
    <2>1. CASE a \in B
      BY Zenon, <1>2, <1>3, <2>1
    <2>2. CASE a = hp
      BY Zenon, <1>5, <1>6, <2>2
    <2> QED
      BY Zenon, <2>1, <2>2
  <1>8. B \cup {hp} \subseteq Nat
    BY Zenon, <1>1
  <1> QED
    BY Zenon, <1>4, <1>5, <1>7, <1>8 DEF Spaced

(* The two parts of a block lie where the block was. *)
LEMMA SpacedSplit ==
  ASSUME NEW B, NEW w, NEW hp, Spaced(B, w, hp), NEW a \in B, NEW n \in Nat,
         n >= MinTotal, w[a] - n >= MinTotal,
         NEW v, v[a] = n, v[a + n] = w[a] - n, \A b \in B : (b # a) => v[b] = w[b]
  PROVE  Spaced(B \cup {a + n}, v, hp) /\ a + n \notin B /\ a + n \in Nat
  <1>1. B \subseteq Nat /\ hp \in Nat /\ w[a] \in Nat /\ a \in Nat /\ a + w[a] <= hp
    BY Zenon DEF Spaced
  <1>2. MinTotal = 48
    BY DEF MinTotal, NodeSize, HeaderSize
  <1>3. PICK r : r = a + n
    BY Zenon
  <1>4. ASSUME NEW b \in B
        PROVE  /\ b \in Nat /\ w[b] \in Nat /\ w[b] >= MinTotal /\ b + w[b] <= hp
               /\ \A c \in B : (b < c) => (b + w[b] <= c)
    BY Zenon, <1>4 DEF Spaced
  <1>5. ASSUME NEW b \in B, b # a
        PROVE  /\ b # r
               /\ (b < r) => (b + w[b] <= r)
               /\ (r < b) => (r + v[r] <= b)
    <2>1. /\ b \in Nat /\ w[b] \in Nat /\ w[b] >= 48
          /\ (b < a) => (b + w[b] <= a)
          /\ (a < b) => (a + w[a] <= b)
      BY Zenon, <1>2, <1>4, <1>5
    <2>2. v[r] = w[a] - n /\ n >= 48 /\ w[a] - n >= 48
      BY Zenon, <1>2, <1>3
    <2> QED
      BY <1>1, <1>3, <1>5, <2>1, <2>2
  <1>6. r \in Nat /\ r # a /\ a < r /\ ~(r < a) /\ ~(r < r)
    BY <1>1, <1>2, <1>3
  <1>7. v[r] \in Nat /\ v[r] >= MinTotal /\ r + v[r] <= hp /\ a + v[a] <= hp /\ a + v[a] <= r
    <2>1. v[r] = w[a] - n /\ v[a] = n /\ n >= 48 /\ w[a] - n >= 48
      BY Zenon, <1>2, <1>3
    <2> QED
      BY <1>1, <1>2, <1>3, <2>1
  <1>8. \A c \in B : (a < c) => (a + v[a] <= c)
    <2>1. ASSUME NEW c \in B, a < c PROVE a + v[a] <= c
      <3>1. a + w[a] <= c /\ c \in Nat
        BY Zenon, <1>4, <2>1
      <3>2. v[a] = n /\ n >= 48 /\ w[a] - n >= 48
        BY Zenon, <1>2
      <3> QED
        BY <1>1, <3>1, <3>2
    <2> QED
      BY Zenon, <2>1
  <1>9. ASSUME NEW b \in B \cup {r}
        PROVE  /\ v[b] \in Nat /\ v[b] >= MinTotal /\ b + v[b] <= hp
               /\ \A c \in B \cup {r} : (b < c) => (b + v[b] <= c)
    <2>1. CASE b = r
      <3>1. ASSUME NEW c \in B, r < c PROVE r + v[r] <= c
        BY Zenon, <1>5, <1>6, <3>1
      <3> QED
        BY Zenon, <1>6, <1>7, <2>1, <3>1
    <2>2. CASE b = a
      BY Zenon, <1>7, <1>8, <2>2
    <2>3. CASE b \in B /\ b # a
      <3>1. v[b] = w[b]
        BY Zenon, <2>3
      <3> QED
        BY Zenon, <1>4, <1>5, <2>3, <3>1
    <2> QED
      BY Zenon, <2>1, <2>2, <2>3
  <1>10. B \cup {r} \subseteq Nat /\ r \notin B
    BY Zenon, <1>1, <1>5, <1>6
  <1>11. Spaced(B \cup {r}, v, hp)
    BY Zenon, <1>1, <1>9, <1>10 DEF Spaced
  <1> QED
    BY Zenon, <1>3, <1>6, <1>10, <1>11

HeapOK(F, V, m, o, p, tt, hd, hp) ==
    /\ Own(F, V, m, o)
    /\ Laid(Blk(F, V, m, o), p, m, tt, hd, hp)

OnlyAt(t, f, g) == \A u \in Thread : (u # t) => g[u] = f[u]
Tagging(t, a, p, m) == p[t] = "tag" /\ m[t] = a

(* The call of t gives up what it holds, and takes x and y; the lists are  *)
(* then G and the blocks of user code W.                                   *)
Room(t, G, W, m, o, x, y) ==
    /\ G \subseteq Nat /\ W \subseteq Nat /\ \A a \in G : a \notin W
    /\ Others(t, G, W, m, o)
    /\ Clear(x, t, G, W, m, o) /\ Clear(y, t, G, W, m, o) /\ ((x = y) => (x = NULL))
Within(G, W, x, y, B) ==
    /\ G \subseteq B /\ W \subseteq B
    /\ x = NULL \/ x \in B
    /\ y = NULL \/ y \in B

(* No block gets another size by what t does. *)
SameSizes(t, p, m, tt, hd, x, pp, tp, hp) ==
    /\ OnlyAt(t, p, pp) /\ OnlyAt(t, tt, tp)
    /\ (pp[t] = "tag") => /\ x \in DOMAIN hd /\ tp[t] = hd[x].size
                          /\ \A u \in Thread : ~Tagging(u, x, p, m)
    /\ (p[t] = "tag") => /\ pp[t] # "tag"
                         /\ m[t] \in DOMAIN hp /\ hp[m[t]].size = tt[t]
    /\ \A b \in DOMAIN hd : ~Tagging(t, b, p, m) => b \in DOMAIN hp /\ hp[b].size = hd[b].size

(* What t sets, and what it leaves alone. *)
LEMMA ExceptAt ==
  ASSUME NEW m, m \in [Thread -> Spot], NEW t \in Thread, NEW x, NEW k, k = [m EXCEPT ![t] = x]
  PROVE  k[t] = x /\ OnlyAt(t, m, k)
  BY Zenon DEF OnlyAt

(* What t holds it may go on holding. *)
LEMMA ClearKept ==
  ASSUME NEW F, NEW V, NEW m, NEW o, Own(F, V, m, o), NEW t \in Thread, NEW G, NEW W
  PROVE  /\ (o[t] \notin G /\ o[t] \notin W) => Clear(o[t], t, G, W, m, o)
         /\ (m[t] \notin G /\ m[t] \notin W) => Clear(m[t], t, G, W, m, o)
  <1>1. (o[t] = NULL \/ o[t] \in Nat) /\ (m[t] = NULL \/ m[t] \in Nat)
    BY Zenon DEF Own, Spot
  <1>2. ASSUME NEW u \in Thread, u # t, o[t] # NULL PROVE m[u] # o[t] /\ o[u] # o[t]
    BY Zenon, <1>2 DEF Own
  <1>3. ASSUME NEW u \in Thread, u # t, m[t] # NULL PROVE m[u] # m[t] /\ o[u] # m[t]
    BY Zenon, <1>3 DEF Own
  <1>4. (o[t] \notin G /\ o[t] \notin W) => Clear(o[t], t, G, W, m, o)
    BY Zenon, <1>1, <1>2 DEF Clear
  <1>5. (m[t] \notin G /\ m[t] \notin W) => Clear(m[t], t, G, W, m, o)
    BY Zenon, <1>1, <1>3 DEF Clear
  <1> QED
    BY Zenon, <1>4, <1>5

(* A step in which t takes known blocks makes no new one. *)
LEMMA BlkWithin ==
  ASSUME NEW F, NEW V, NEW m, NEW o, Own(F, V, m, o), NEW t \in Thread,
         NEW G, NEW W, NEW x, NEW y, Within(G, W, x, y, Blk(F, V, m, o))
  PROVE  Blk(G, W, [m EXCEPT ![t] = x], [o EXCEPT ![t] = y]) \subseteq Blk(F, V, m, o)
  <1>1. PICK k, q : k = [m EXCEPT ![t] = x] /\ q = [o EXCEPT ![t] = y]
    BY Zenon
  <1>2. k[t] = x /\ OnlyAt(t, m, k) /\ q[t] = y /\ OnlyAt(t, o, q)
    BY Zenon, <1>1, ExceptAt DEF Own
  <1>3. PICK B : B = Blk(F, V, m, o)
    BY Zenon
  <1>4. G \subseteq B /\ W \subseteq B /\ (x # NULL => x \in B) /\ (y # NULL => y \in B)
    BY Zenon, <1>3 DEF Within
  <1>5. ASSUME NEW b \in Blk(G, W, k, q) PROVE b \in B
    <2>1. b \in Nat /\ (b \in G \/ b \in W \/ \E u \in Thread : k[u] = b \/ q[u] = b)
      BY Zenon DEF Blk
    <2>2. b # NULL
      BY Zenon, <2>1, NullNotNat
    <2>3. ASSUME NEW u \in Thread, k[u] = b \/ q[u] = b PROVE b \in B
      <3>1. CASE u = t
        <4>1. CASE k[u] = b
          <5>1. b = x
            BY Zenon, <1>2, <3>1, <4>1
          <5> QED
            BY ONLY Zenon, <1>4, <2>2, <5>1
        <4>2. CASE q[u] = b
          <5>1. b = y
            BY Zenon, <1>2, <3>1, <4>2
          <5> QED
            BY ONLY Zenon, <1>4, <2>2, <5>1
        <4> QED
          BY Zenon, <2>3, <4>1, <4>2
      <3>2. CASE u # t
        <4>1. m[u] = b \/ o[u] = b
          BY Zenon, <1>2, <2>3, <3>2 DEF OnlyAt
        <4> QED
          BY Zenon, <1>3, <2>1, <4>1 DEF Blk
      <3> QED
        BY Zenon, <3>1, <3>2
    <2> QED
      BY Zenon, <1>4, <2>1, <2>3
  <1> QED
    BY Zenon, <1>1, <1>3, <1>5

(* The sizes are still the sizes after a step of t. *)
LEMMA WeighsStep ==
  ASSUME NEW B, NEW w, NEW p, NEW m, NEW tt, NEW hd, Weighs(B, w, p, m, tt, hd),
         NEW C, C \subseteq B, NEW t \in Thread, NEW x, NEW k, k[t] = x, OnlyAt(t, m, k),
         NEW pp, NEW tp, NEW hp, SameSizes(t, p, m, tt, hd, x, pp, tp, hp)
  PROVE  Weighs(C, w, pp, k, tp, hp)
  <1>1. ASSUME NEW a \in C
        PROVE  /\ \A u \in Thread : (pp[u] = "tag" /\ k[u] = a) => (w[a] = tp[u])
               /\ (\A u \in Thread : ~(pp[u] = "tag" /\ k[u] = a)) =>
                     (a \in DOMAIN hp /\ w[a] = hp[a].size)
    <2>1. a \in B
      BY Zenon
    <2>2. /\ \A u \in Thread : (p[u] = "tag" /\ m[u] = a) => (w[a] = tt[u])
          /\ (\A u \in Thread : ~(p[u] = "tag" /\ m[u] = a)) =>
                (a \in DOMAIN hd /\ w[a] = hd[a].size)
      BY Zenon, <2>1 DEF Weighs
    <2>3. ASSUME NEW u \in Thread, u # t
          PROVE  pp[u] = p[u] /\ k[u] = m[u] /\ tp[u] = tt[u]
      BY Zenon, <2>3 DEF SameSizes, OnlyAt
    <2>4. ASSUME NEW u \in Thread, pp[u] = "tag", k[u] = a PROVE w[a] = tp[u]
      <3>1. CASE u # t
        BY Zenon, <2>2, <2>3, <2>4, <3>1
      <3>2. CASE u = t
        <4>1. a = x /\ pp[t] = "tag"
          BY Zenon, <2>4, <3>2
        <4>2. a \in DOMAIN hd /\ tp[t] = hd[a].size /\ \A v \in Thread : ~Tagging(v, a, p, m)
          BY Zenon, <4>1 DEF SameSizes
        <4>3. w[a] = hd[a].size
          BY Zenon, <2>2, <4>2 DEF Tagging
        <4> QED
          BY Zenon, <3>2, <4>2, <4>3
      <3> QED
        BY Zenon, <3>1, <3>2
    <2>5. ASSUME \A u \in Thread : ~(pp[u] = "tag" /\ k[u] = a)
          PROVE  a \in DOMAIN hp /\ w[a] = hp[a].size
      <3>1. CASE Tagging(t, a, p, m)
        <4>1. p[t] = "tag" /\ m[t] = a
          BY Zenon, <3>1 DEF Tagging
        <4>2. m[t] \in DOMAIN hp /\ hp[m[t]].size = tt[t]
          BY Zenon, <4>1 DEF SameSizes
        <4>3. w[a] = tt[t]
          BY Zenon, <2>2, <4>1
        <4> QED
          BY Zenon, <4>1, <4>2, <4>3
      <3>2. CASE ~Tagging(t, a, p, m)
        <4>1. \A u \in Thread : ~(p[u] = "tag" /\ m[u] = a)
          BY Zenon, <2>3, <2>5, <3>2 DEF Tagging
        <4>2. a \in DOMAIN hd /\ w[a] = hd[a].size
          BY Zenon, <2>2, <4>1
        <4>3. a \in DOMAIN hp /\ hp[a].size = hd[a].size
          BY Zenon, <3>2, <4>2 DEF SameSizes
        <4> QED
          BY Zenon, <4>2, <4>3
      <3> QED
        BY Zenon, <3>1, <3>2
    <2> QED
      BY Zenon, <2>4, <2>5
  <1> QED
    BY Zenon, <1>1 DEF Weighs

(* A block changes hands and none its size. *)
LEMMA HeapMove ==
  ASSUME NEW F, NEW V, NEW m, NEW o, NEW p, NEW tt, NEW hd, NEW size,
         HeapOK(F, V, m, o, p, tt, hd, size), NEW t \in Thread,
         NEW G, NEW W, NEW x, NEW y, Room(t, G, W, m, o, x, y),
         Within(G, W, x, y, Blk(F, V, m, o)),
         NEW pp, NEW tp, NEW hp, SameSizes(t, p, m, tt, hd, x, pp, tp, hp)
  PROVE  HeapOK(G, W, [m EXCEPT ![t] = x], [o EXCEPT ![t] = y], pp, tp, hp, size)
  <1>1. Own(F, V, m, o)
    BY Zenon DEF HeapOK
  <1>2. PICK k, q : k = [m EXCEPT ![t] = x] /\ q = [o EXCEPT ![t] = y]
    BY Zenon
  <1>3. Own(G, W, k, q)
    <2>1. /\ G \subseteq Nat /\ W \subseteq Nat /\ \A a \in G : a \notin W
          /\ Others(t, G, W, m, o) /\ Clear(x, t, G, W, m, o) /\ Clear(y, t, G, W, m, o)
          /\ (x = y) => (x = NULL)
      BY Zenon DEF Room
    <2> QED
      BY Zenon, <1>1, <1>2, <2>1, OwnMove
  <1>4. PICK B, C : B = Blk(F, V, m, o) /\ C = Blk(G, W, k, q)
    BY Zenon
  <1>5. C \subseteq B
    BY Zenon, <1>1, <1>2, <1>4, BlkWithin
  <1>6. PICK w : Weighs(B, w, p, m, tt, hd) /\ Spaced(B, w, size)
    BY Zenon, <1>4 DEF HeapOK, Laid
  <1>7. k[t] = x /\ OnlyAt(t, m, k)
    BY Zenon, <1>1, <1>2, ExceptAt DEF Own
  <1>8. Weighs(C, w, pp, k, tp, hp)
    BY Zenon, <1>5, <1>6, <1>7, WeighsStep
  <1>9. Spaced(C, w, size)
    BY Zenon, <1>5, <1>6, SpacedSub
  <1>10. HeapOK(G, W, k, q, pp, tp, hp, size)
    BY Zenon, <1>3, <1>4, <1>8, <1>9 DEF HeapOK, Laid
  <1> QED
    BY Zenon, <1>2, <1>10

(* The size of a block that no call is about to tag is in its header. *)
LEMMA HeadKnown ==
  ASSUME NEW F, NEW V, NEW m, NEW o, NEW p, NEW tt, NEW hd, NEW size,
         HeapOK(F, V, m, o, p, tt, hd, size), NEW a \in Blk(F, V, m, o),
         \A u \in Thread : ~Tagging(u, a, p, m)
  PROVE  a \in DOMAIN hd /\ hd[a].size \in Nat /\ hd[a].size >= MinTotal
  <1>1. PICK w : Weighs(Blk(F, V, m, o), w, p, m, tt, hd) /\ Spaced(Blk(F, V, m, o), w, size)
    BY Zenon DEF HeapOK, Laid
  <1>2. a \in DOMAIN hd /\ w[a] = hd[a].size
    BY Zenon, <1>1 DEF Weighs, Tagging
  <1>3. w[a] \in Nat /\ w[a] >= MinTotal
    BY Zenon, <1>1 DEF Spaced
  <1> QED
    BY Zenon, <1>2, <1>3

(* getMemoryFromOS: the new block is at the old break. *)
LEMMA HeapNew ==
  ASSUME NEW F, NEW V, NEW m, NEW o, NEW p, NEW tt, NEW hd, NEW size,
         HeapOK(F, V, m, o, p, tt, hd, size), NEW t \in Thread, p[t] # "tag",
         NEW n \in Nat, n >= MinTotal,
         NEW pp, NEW tp, OnlyAt(t, p, pp), OnlyAt(t, tt, tp), pp[t] = "tag", tp[t] = n
  PROVE  HeapOK(F, V, [m EXCEPT ![t] = size], o, pp, tp, hd, size + n)
  <1>1. Own(F, V, m, o)
    BY Zenon DEF HeapOK
  <1>2. PICK k : k = [m EXCEPT ![t] = size]
    BY Zenon
  <1>3. PICK B : B = Blk(F, V, m, o)
    BY Zenon
  <1>4. PICK w : Weighs(B, w, p, m, tt, hd) /\ Spaced(B, w, size)
    BY Zenon, <1>3 DEF HeapOK, Laid
  <1>5. PICK v : v = [b \in B \cup {size} |-> IF b = size THEN n ELSE w[b]]
    BY Zenon
  <1>6. size \notin B /\ size \in Nat
    <2>1. \A a \in B : a # size
      <3>1. ASSUME NEW a \in B PROVE a # size
        <4>1. a \in Nat /\ size \in Nat /\ w[a] \in Nat /\ w[a] >= MinTotal /\ a + w[a] <= size
          BY Zenon, <1>4 DEF Spaced
        <4> QED
          BY <4>1 DEF MinTotal, NodeSize, HeaderSize
      <3> QED
        BY Zenon, <3>1
    <2> QED
      BY Zenon, <1>4, <2>1 DEF Spaced
  <1>7. v[size] = n /\ \A a \in B : v[a] = w[a]
    BY Zenon, <1>5, <1>6
  <1>8. Spaced(B \cup {size}, v, size + n)
    BY Zenon, <1>4, <1>7, SpacedNew
  <1>9. o = [o EXCEPT ![t] = o[t]] /\ m \in [Thread -> Spot]
    BY Zenon, <1>1 DEF Own
  <1>10. size \notin F /\ size \notin V /\ \A u \in Thread : m[u] # size /\ o[u] # size
    BY Zenon, <1>3, <1>6 DEF Blk
  <1>11. Own(F, V, k, o)
    <2>1. Clear(size, t, F, V, m, o)
      BY Zenon, <1>6, <1>10 DEF Clear
    <2>2. Clear(o[t], t, F, V, m, o)
      <3>1. o[t] \notin F /\ o[t] \notin V
        BY Zenon, <1>1 DEF Own
      <3> QED
        BY Zenon, <1>1, <3>1, ClearKept
    <2>3. /\ F \subseteq Nat /\ V \subseteq Nat /\ \A a \in F : a \notin V
          /\ Others(t, F, V, m, o)
      BY Zenon, <1>1 DEF Own, Others
    <2>4. (size = o[t]) => (size = NULL)
      BY Zenon, <1>10
    <2>5. Own(F, V, [m EXCEPT ![t] = size], [o EXCEPT ![t] = o[t]])
      BY Zenon, <1>1, <2>1, <2>2, <2>3, <2>4, OwnMove
    <2> QED
      BY Zenon, <1>2, <1>9, <2>5
  <1>12. PICK C : C = Blk(F, V, k, o)
    BY Zenon
  <1>13. k[t] = size /\ OnlyAt(t, m, k)
    BY Zenon, <1>2, <1>9, ExceptAt
  <1>14. C \subseteq B \cup {size}
    <2>1. ASSUME NEW b \in C PROVE b \in B \cup {size}
      <3>1. b \in Nat /\ (b \in F \/ b \in V \/ \E u \in Thread : k[u] = b \/ o[u] = b)
        BY Zenon, <1>12 DEF Blk
      <3>2. ASSUME NEW u \in Thread, k[u] = b PROVE b = size \/ m[u] = b
        BY Zenon, <1>13, <3>2 DEF OnlyAt
      <3> QED
        BY Zenon, <1>3, <3>1, <3>2 DEF Blk
    <2> QED
      BY Zenon, <2>1
  <1>15. Weighs(C, v, pp, k, tp, hd)
    <2>1. ASSUME NEW a \in C
          PROVE  /\ \A u \in Thread : (pp[u] = "tag" /\ k[u] = a) => (v[a] = tp[u])
                 /\ (\A u \in Thread : ~(pp[u] = "tag" /\ k[u] = a)) =>
                       (a \in DOMAIN hd /\ v[a] = hd[a].size)
      <3>1. ASSUME NEW u \in Thread, u # t
            PROVE  pp[u] = p[u] /\ k[u] = m[u] /\ tp[u] = tt[u]
        BY Zenon, <1>13, <3>1 DEF OnlyAt
      <3>2. CASE a = size
        <4>1. ASSUME NEW u \in Thread, k[u] = a PROVE u = t
          BY Zenon, <1>10, <3>1, <3>2, <4>1
        <4> QED
          BY Zenon, <1>7, <1>13, <3>2, <4>1
      <3>3. CASE a # size
        <4>1. a \in B /\ v[a] = w[a]
          BY Zenon, <1>7, <1>14, <3>3
        <4>2. /\ \A u \in Thread : (p[u] = "tag" /\ m[u] = a) => (w[a] = tt[u])
              /\ (\A u \in Thread : ~(p[u] = "tag" /\ m[u] = a)) =>
                    (a \in DOMAIN hd /\ w[a] = hd[a].size)
          BY Zenon, <1>4, <4>1 DEF Weighs
        <4>3. ASSUME NEW u \in Thread, pp[u] = "tag", k[u] = a PROVE v[a] = tp[u]
          <5>1. u # t
            BY Zenon, <1>13, <3>3, <4>3
          <5> QED
            BY Zenon, <3>1, <4>1, <4>2, <4>3, <5>1
        <4>4. ASSUME \A u \in Thread : ~(pp[u] = "tag" /\ k[u] = a)
              PROVE  a \in DOMAIN hd /\ v[a] = hd[a].size
          <5>1. \A u \in Thread : ~(p[u] = "tag" /\ m[u] = a)
            BY Zenon, <3>1, <4>4
          <5> QED
            BY Zenon, <4>1, <4>2, <5>1
        <4> QED
          BY Zenon, <3>3, <4>3, <4>4
      <3> QED
        BY Zenon, <3>2, <3>3
    <2> QED
      BY Zenon, <2>1 DEF Weighs
  <1>16. Spaced(C, v, size + n)
    BY Zenon, <1>8, <1>14, SpacedSub
  <1>17. HeapOK(F, V, k, o, pp, tp, hd, size + n)
    BY Zenon, <1>11, <1>12, <1>15, <1>16 DEF HeapOK, Laid
  <1> QED
    BY Zenon, <1>2, <1>17

(* The tail that is cut off is no block yet. *)
LEMMA TailNew ==
  ASSUME NEW F, NEW V, NEW m, NEW o, NEW p, NEW tt, NEW hd, NEW size,
         HeapOK(F, V, m, o, p, tt, hd, size), NEW a \in F,
         NEW n \in Nat, n >= MinTotal, hd[a].size >= n + MinTotal
  PROVE  a + n \in Nat /\ a + n \notin Blk(F, V, m, o)
  <1>1. Own(F, V, m, o)
    BY Zenon DEF HeapOK
  <1>2. PICK B : B = Blk(F, V, m, o)
    BY Zenon
  <1>3. PICK w : Weighs(B, w, p, m, tt, hd) /\ Spaced(B, w, size)
    BY Zenon, <1>2 DEF HeapOK, Laid
  <1>4. a \in B /\ \A u \in Thread : m[u] # a
    BY Zenon, <1>1, <1>2 DEF Own, Blk
  <1>5. w[a] = hd[a].size
    BY Zenon, <1>3, <1>4 DEF Weighs
  <1>6. w[a] \in Nat /\ a \in Nat
    BY Zenon, <1>3, <1>4 DEF Spaced
  <1>7. ASSUME NEW b \in B PROVE b # a + n
    <2>1. b \in Nat /\ ((a < b) => (a + w[a] <= b))
      BY Zenon, <1>3, <1>4 DEF Spaced
    <2>2. w[a] >= n + MinTotal
      BY Zenon, <1>5
    <2> QED
      BY <1>6, <2>1, <2>2 DEF MinTotal, NodeSize, HeaderSize
  <1>8. a + n \in Nat
    BY <1>6
  <1> QED
    BY Zenon, <1>2, <1>7, <1>8

(* The header at a says n, and the other headers are as they were. *)
HeadAt(hd, hp, a, n) ==
    /\ a \in DOMAIN hp /\ hp[a].size = n
    /\ \A b \in DOMAIN hd : (b # a) => b \in DOMAIN hp /\ hp[b] = hd[b]
TakesTag(t, p, tt, pp, tp, n) ==
    /\ p[t] # "tag" /\ pp[t] = "tag" /\ tp[t] = n
    /\ OnlyAt(t, p, pp) /\ OnlyAt(t, tt, tp)
Cut(F, G, a, r) == \A b \in G : b = r \/ (b \in F /\ b # a)

(* The block a is cut: t gets its first n bytes, and the rest is free. *)
LEMMA HeapSplit ==
  ASSUME NEW F, NEW V, NEW m, NEW o, NEW p, NEW tt, NEW hd, NEW size,
         HeapOK(F, V, m, o, p, tt, hd, size), NEW t \in Thread,
         NEW a \in F, NEW n \in Nat, n >= MinTotal, hd[a].size >= n + MinTotal,
         NEW G, Cut(F, G, a, a + n), NEW pp, NEW tp, TakesTag(t, p, tt, pp, tp, n),
         NEW hp, HeadAt(hd, hp, a + n, hd[a].size - n)
  PROVE  HeapOK(G, V, [m EXCEPT ![t] = a], o, pp, tp, hp, size)
  <1>a. PICK r : r = a + n
    BY Zenon
  <1>b. \A b \in G : b = r \/ (b \in F /\ b # a)
    BY Zenon, <1>a DEF Cut
  <1>c. p[t] # "tag" /\ pp[t] = "tag" /\ tp[t] = n /\ OnlyAt(t, p, pp) /\ OnlyAt(t, tt, tp)
    BY Zenon DEF TakesTag
  <1>d. /\ r \in DOMAIN hp /\ hp[r].size = hd[a].size - n
        /\ \A b \in DOMAIN hd : (b # r) => b \in DOMAIN hp /\ hp[b] = hd[b]
    BY Zenon, <1>a DEF HeadAt
  <1>1. Own(F, V, m, o) /\ m \in [Thread -> Spot] /\ o \in [Thread -> Spot] /\ a \in Nat
    BY Zenon DEF HeapOK, Own
  <1>2. PICK k : k = [m EXCEPT ![t] = a]
    BY Zenon
  <1>3. PICK B : B = Blk(F, V, m, o)
    BY Zenon
  <1>4. PICK w : Weighs(B, w, p, m, tt, hd) /\ Spaced(B, w, size)
    BY Zenon, <1>3 DEF HeapOK, Laid
  <1>5. r \in Nat /\ r \notin B
    BY Zenon, <1>a, <1>3, TailNew
  <1>6. a \in B /\ a \notin V /\ \A u \in Thread : m[u] # a /\ o[u] # a
    BY Zenon, <1>1, <1>3 DEF Own, Blk
  <1>7. r \notin F /\ r \notin V /\ r # a /\ \A u \in Thread : m[u] # r /\ o[u] # r
    BY Zenon, <1>3, <1>5, <1>6 DEF Blk
  <1>8. w[a] = hd[a].size /\ w[a] \in Nat
    BY Zenon, <1>4, <1>6 DEF Weighs, Spaced
  <1>9. PICK v : v = [b \in B \cup {r} |-> IF b = a THEN n ELSE IF b = r THEN w[a] - n ELSE w[b]]
    BY Zenon
  <1>10. v[a] = n /\ v[r] = w[a] - n /\ \A b \in B : (b # a) => v[b] = w[b]
    BY Zenon, <1>5, <1>6, <1>7, <1>9
  <1>11. w[a] - n >= MinTotal
    <2>1. w[a] >= n + MinTotal
      BY Zenon, <1>8
    <2> QED
      BY <1>8, <2>1 DEF MinTotal, NodeSize, HeaderSize
  <1>12. Spaced(B \cup {r}, v, size)
    <2>1. v[a + n] = w[a] - n
      BY Zenon, <1>a, <1>10
    <2>2. Spaced(B \cup {a + n}, v, size)
      BY Zenon, <1>4, <1>6, <1>10, <1>11, <2>1, SpacedSplit
    <2> QED
      BY Zenon, <1>a, <2>2
  <1>13. o = [o EXCEPT ![t] = o[t]]
    BY Zenon, <1>1
  <1>14. Own(G, V, k, o)
    <2>1. G \subseteq Nat /\ V \subseteq Nat /\ (\A b \in G : b \notin V) /\ a \notin G
      BY Zenon, <1>b, <1>1, <1>5, <1>7 DEF Own
    <2>2. Clear(a, t, G, V, m, o)
      BY Zenon, <1>1, <1>6, <2>1 DEF Clear
    <2>3. \A u \in Thread : \A b \in G \cup V : m[u] # b /\ o[u] # b
      <3>1. ASSUME NEW u \in Thread, NEW b \in G \cup V PROVE m[u] # b /\ o[u] # b
        <4>1. CASE b = r
          BY Zenon, <1>7, <4>1
        <4>2. CASE b \in F \cup V
          BY Zenon, <1>1, <4>2 DEF Own
        <4> QED
          BY Zenon, <1>b, <4>1, <4>2
      <3> QED
        BY Zenon, <3>1
    <2>4. Others(t, G, V, m, o) /\ o[t] \notin G /\ o[t] \notin V
      BY Zenon, <2>3 DEF Others
    <2>5. Clear(o[t], t, G, V, m, o)
      BY Zenon, <1>1, <2>4, ClearKept
    <2>6. (a = o[t]) => (a = NULL)
      BY Zenon, <1>6
    <2>7. Own(G, V, [m EXCEPT ![t] = a], [o EXCEPT ![t] = o[t]])
      BY Zenon, <1>1, <2>1, <2>2, <2>4, <2>5, <2>6, OwnMove
    <2> QED
      BY Zenon, <1>2, <1>13, <2>7
  <1>15. PICK C : C = Blk(G, V, k, o)
    BY Zenon
  <1>16. k[t] = a /\ OnlyAt(t, m, k)
    BY Zenon, <1>1, <1>2, ExceptAt
  <1>17. C \subseteq B \cup {r}
    <2>1. ASSUME NEW b \in C PROVE b \in B \cup {r}
      <3>1. b \in Nat /\ (b \in G \/ b \in V \/ \E u \in Thread : k[u] = b \/ o[u] = b)
        BY Zenon, <1>15 DEF Blk
      <3>2. ASSUME NEW u \in Thread, k[u] = b PROVE b \in B
        <4>1. CASE u = t
          BY Zenon, <1>6, <1>16, <3>2, <4>1
        <4>2. CASE u # t
          <5>1. m[u] = b
            BY Zenon, <1>16, <3>2, <4>2 DEF OnlyAt
          <5> QED
            BY Zenon, <1>3, <3>1, <5>1 DEF Blk
        <4> QED
          BY Zenon, <4>1, <4>2
      <3>3. ASSUME b \in F \/ b \in V \/ \E u \in Thread : o[u] = b PROVE b \in B
        BY Zenon, <1>3, <3>1, <3>3 DEF Blk
      <3> QED
        BY Zenon, <1>b, <3>1, <3>2, <3>3
    <2> QED
      BY Zenon, <2>1
  <1>18. Weighs(C, v, pp, k, tp, hp)
    <2>1. ASSUME NEW b \in C
          PROVE  /\ \A u \in Thread : (pp[u] = "tag" /\ k[u] = b) => (v[b] = tp[u])
                 /\ (\A u \in Thread : ~(pp[u] = "tag" /\ k[u] = b)) =>
                       (b \in DOMAIN hp /\ v[b] = hp[b].size)
      <3>1. ASSUME NEW u \in Thread, u # t
            PROVE  pp[u] = p[u] /\ k[u] = m[u] /\ tp[u] = tt[u]
        BY Zenon, <1>c, <1>16, <3>1 DEF OnlyAt
      <3>2. CASE b = a
        <4>1. ASSUME NEW u \in Thread, k[u] = b PROVE u = t
          BY Zenon, <1>6, <3>1, <3>2, <4>1
        <4> QED
          BY Zenon, <1>c, <1>10, <1>16, <3>2, <4>1
      <3>3. CASE b = r
        <4>1. ASSUME NEW u \in Thread PROVE k[u] # b
          BY Zenon, <1>7, <1>16, <3>1, <3>3
        <4>2. v[b] = hp[b].size
          BY Zenon, <1>d, <1>8, <1>10, <3>3
        <4> QED
          BY Zenon, <1>d, <3>3, <4>1, <4>2
      <3>4. CASE b # a /\ b # r
        <4>1. b \in B /\ v[b] = w[b]
          BY Zenon, <1>10, <1>17, <3>4
        <4>2. /\ \A u \in Thread : (p[u] = "tag" /\ m[u] = b) => (w[b] = tt[u])
              /\ (\A u \in Thread : ~(p[u] = "tag" /\ m[u] = b)) =>
                    (b \in DOMAIN hd /\ w[b] = hd[b].size)
          BY Zenon, <1>4, <4>1 DEF Weighs
        <4>3. ASSUME NEW u \in Thread, pp[u] = "tag", k[u] = b PROVE v[b] = tp[u]
          <5>1. u # t
            BY Zenon, <1>16, <3>4, <4>3
          <5> QED
            BY Zenon, <3>1, <4>1, <4>2, <4>3, <5>1
        <4>4. ASSUME \A u \in Thread : ~(pp[u] = "tag" /\ k[u] = b)
              PROVE  b \in DOMAIN hp /\ v[b] = hp[b].size
          <5>1. \A u \in Thread : ~(p[u] = "tag" /\ m[u] = b)
            BY Zenon, <1>c, <3>1, <4>4
          <5>2. b \in DOMAIN hd /\ v[b] = hd[b].size
            BY Zenon, <4>1, <4>2, <5>1
          <5> QED
            BY Zenon, <1>d, <3>4, <5>2
        <4> QED
          BY Zenon, <4>3, <4>4
      <3> QED
        BY Zenon, <3>2, <3>3, <3>4
    <2> QED
      BY Zenon, <2>1 DEF Weighs
  <1>19. Spaced(C, v, size)
    BY Zenon, <1>12, <1>17, SpacedSub
  <1>20. HeapOK(G, V, k, o, pp, tp, hp, size)
    BY Zenon, <1>14, <1>15, <1>18, <1>19 DEF HeapOK, Laid
  <1> QED
    BY Zenon, <1>2, <1>20

-----------------------------------------------------------------------------
(* The inductive invariant *)

Label == {"idle", "init", "lock", "tag", "free"}

(* A call that tags or frees has a block, one that waits for the lock asks *)
(* for enough to be freed later.                                           *)
Calls(p, tt, m) ==
    /\ p \in [Thread -> Label] /\ tt \in [Thread -> Nat]
    /\ \A t \in Thread : /\ p[t] \in {"tag", "free"} => m[t] # NULL
                         /\ p[t] \in {"init", "lock"} => tt[t] >= MinTotal

Headed(hd) == \A a \in DOMAIN hd : hd[a] \in [size : Nat, flags : {"free", "allocated"}]

FreeNow == Members(Lists(ls))

AllocInv ==
    /\ Calls(pc, total, mem)
    /\ Headed(head)
    /\ Linked(ls, Lists(ls))
    /\ HeapOK(FreeNow, DOMAIN live, mem, old, pc, total, head, _heapSize)

(* An EXCEPT at t changes t only. *)
LEMMA AtOnly ==
  ASSUME NEW S, NEW f, f \in [Thread -> S], NEW t \in Thread, NEW v, NEW g, g = [f EXCEPT ![t] = v]
  PROVE  g[t] = v /\ OnlyAt(t, f, g)
  BY Zenon DEF OnlyAt

(* The calls after a step of t. *)
LEMMA CallsStep ==
  ASSUME NEW p, NEW tt, NEW m, Calls(p, tt, m), m \in [Thread -> Spot], NEW t \in Thread,
         NEW P \in Label, NEW n \in Nat, NEW x,
         P \in {"tag", "free"} => x # NULL, P \in {"init", "lock"} => n >= MinTotal
  PROVE  Calls([p EXCEPT ![t] = P], [tt EXCEPT ![t] = n], [m EXCEPT ![t] = x])
  <1>1. PICK pp, tp, k : /\ pp = [p EXCEPT ![t] = P] /\ tp = [tt EXCEPT ![t] = n]
                         /\ k = [m EXCEPT ![t] = x]
    BY Zenon
  <1>2. p \in [Thread -> Label] /\ tt \in [Thread -> Nat]
    BY Zenon DEF Calls
  <1>3. pp \in [Thread -> Label] /\ tp \in [Thread -> Nat]
    BY Zenon, <1>1, <1>2
  <1>4. /\ pp[t] = P /\ \A u \in Thread : (u # t) => pp[u] = p[u]
        /\ tp[t] = n /\ \A u \in Thread : (u # t) => tp[u] = tt[u]
        /\ k[t] = x /\ \A u \in Thread : (u # t) => k[u] = m[u]
    BY Zenon, <1>1, <1>2
  <1>5. ASSUME NEW u \in Thread
        PROVE  /\ pp[u] \in {"tag", "free"} => k[u] # NULL
               /\ pp[u] \in {"init", "lock"} => tp[u] >= MinTotal
    <2>1. CASE u = t
      BY Zenon, <1>4, <2>1
    <2>2. CASE u # t
      <3>1. pp[u] = p[u] /\ tp[u] = tt[u] /\ k[u] = m[u]
        BY Zenon, <1>4, <2>2
      <3>2. /\ p[u] \in {"tag", "free"} => m[u] # NULL
            /\ p[u] \in {"init", "lock"} => tt[u] >= MinTotal
        BY Zenon DEF Calls
      <3> QED
        BY Zenon, <3>1, <3>2
    <2> QED
      BY Zenon, <2>1, <2>2
  <1>6. Calls(pp, tp, k)
    BY Zenon, <1>3, <1>5 DEF Calls
  <1> QED
    BY Zenon, <1>1, <1>6

(* totalSize is a number that can be freed later. *)
LEMMA TotalSizeIs ==
  ASSUME NEW n \in Nat
  PROVE  TotalSize(n, Unit) \in Nat /\ TotalSize(n, Unit) >= MinTotal
  <1>1. PICK r : r = ((n + 2 * HeaderSize + Unit - 1) \div Unit) * Unit
    BY Zenon
  <1>2. r \in Nat
    BY <1>1 DEF HeaderSize, Unit
  <1>3. TotalSize(n, Unit) = IF r < MinTotal THEN MinTotal ELSE r
    BY Zenon, <1>1 DEF TotalSize
  <1> QED
    BY <1>2, <1>3 DEF MinTotal, NodeSize, HeaderSize

(* The facts of the invariant that every action needs. *)
LEMMA InvFacts ==
  ASSUME AllocInv
  PROVE  /\ pc \in [Thread -> Label] /\ total \in [Thread -> Nat]
         /\ mem \in [Thread -> Spot] /\ old \in [Thread -> Spot]
         /\ Own(FreeNow, DOMAIN live, mem, old)
         /\ FreeNow \subseteq Nat /\ DOMAIN live \subseteq Nat
         /\ FreeNow \subseteq Blk(FreeNow, DOMAIN live, mem, old)
         /\ DOMAIN live \subseteq Blk(FreeNow, DOMAIN live, mem, old)
         /\ \A t \in Thread :
              /\ mem[t] = NULL \/ mem[t] \in Blk(FreeNow, DOMAIN live, mem, old)
              /\ old[t] = NULL \/ old[t] \in Blk(FreeNow, DOMAIN live, mem, old)
              /\ mem[t] \notin FreeNow /\ old[t] \notin FreeNow
              /\ mem[t] \notin DOMAIN live /\ old[t] \notin DOMAIN live
         /\ \A a \in FreeNow : a \notin DOMAIN live
  <1>1. pc \in [Thread -> Label] /\ total \in [Thread -> Nat]
    BY Zenon DEF AllocInv, Calls
  <1>2. Own(FreeNow, DOMAIN live, mem, old)
    BY Zenon DEF AllocInv, HeapOK
  <1>3. /\ mem \in [Thread -> Spot] /\ old \in [Thread -> Spot]
        /\ FreeNow \subseteq Nat /\ DOMAIN live \subseteq Nat
        /\ \A a \in FreeNow : a \notin DOMAIN live
    BY Zenon, <1>2 DEF Own
  <1>4. /\ FreeNow \subseteq Blk(FreeNow, DOMAIN live, mem, old)
        /\ DOMAIN live \subseteq Blk(FreeNow, DOMAIN live, mem, old)
    BY Zenon, <1>3 DEF Blk
  <1>5. ASSUME NEW t \in Thread
        PROVE  /\ mem[t] = NULL \/ mem[t] \in Blk(FreeNow, DOMAIN live, mem, old)
               /\ old[t] = NULL \/ old[t] \in Blk(FreeNow, DOMAIN live, mem, old)
    <2>1. (mem[t] = NULL \/ mem[t] \in Nat) /\ (old[t] = NULL \/ old[t] \in Nat)
      BY Zenon, <1>3 DEF Spot
    <2> QED
      BY Zenon, <2>1 DEF Blk
  <1>6. \A t \in Thread : /\ mem[t] \notin FreeNow /\ old[t] \notin FreeNow
                          /\ mem[t] \notin DOMAIN live /\ old[t] \notin DOMAIN live
    BY Zenon, <1>2 DEF Own
  <1> QED
    BY Zenon, <1>1, <1>2, <1>3, <1>4, <1>5, <1>6

(* A process that has yet to call malloc. *)
LEMMA InitInv == Init => AllocInv
  <1> SUFFICES ASSUME Init PROVE AllocInv
    OBVIOUS
  <1>1. /\ ls = NoLists(LastClass) /\ head = <<>> /\ _heapSize = 0 /\ live = <<>>
        /\ pc = [t \in Thread |-> "idle"] /\ total = [t \in Thread |-> 0]
        /\ mem = [t \in Thread |-> NULL] /\ old = [t \in Thread |-> NULL]
    BY Zenon DEF Init
  <1>2. DOMAIN head = {} /\ DOMAIN live = {}
    BY <1>1
  <1>3. Calls(pc, total, mem)
    <2>1. pc \in [Thread -> Label] /\ total \in [Thread -> Nat]
      BY <1>1 DEF Label
    <2> QED
      BY Zenon, <1>1, <2>1 DEF Calls
  <1>4. Headed(head)
    BY Zenon, <1>2 DEF Headed
  <1>5. PICK L : L = [c \in Class |-> <<>>]
    BY Zenon
  <1>6. Linked(ls, L)
    <2>1. PICK f : f = [c \in Class |-> NULL]
      BY Zenon
    <2>2. PICK e : e = <<>>
      BY Zenon
    <2>3. ls = [freels_ |-> f, next_ |-> e, prev_ |-> e]
      BY Zenon, <1>1, <2>1, <2>2 DEF NoLists, Class
    <2>4. DOMAIN e = {} /\ e \in Seq(Nat) /\ Len(e) = 0
      BY <2>2
    <2>5. IsList(NULL, e, e, e)
      <3>1. \A i \in 1..Len(e) : FALSE
        BY <2>4
      <3> QED
        BY Zenon, <2>4, <3>1 DEF IsList
    <2>6. IsFiniteSet(DOMAIN e)
      BY Zenon, <2>4, FS_EmptySet
    <2>7. f \in [Class -> Int] /\ L \in [Class -> Seq(Nat)]
      BY <1>5, <2>1 DEF NULL
    <2>8. \A c \in Class : f[c] = NULL /\ L[c] = e
      BY Zenon, <1>5, <2>1, <2>2
    <2>9. Apart(e, e)
      <3>1. \A i \in 1..Len(e) : FALSE
        BY <2>4
      <3> QED
        BY Zenon, <3>1 DEF Apart
    <2>10. \A c \in Class : IsList(f[c], e, e, L[c])
      BY Zenon, <2>5, <2>8
    <2>11. \A c, d \in Class : Apart(L[c], L[d])
      BY Zenon, <2>8, <2>9
    <2>12. IsLists(f, e, e, L)
      BY Zenon, <2>4, <2>6, <2>7, <2>10, <2>11 DEF IsLists
    <2> QED
      BY Zenon, <2>3, <2>12, LinkedFields
  <1>7. Lists(ls) = L
    BY Zenon, <1>6, ListsAre
  <1>8. FreeNow = {}
    <2>1. ASSUME NEW a, In(a, L) PROVE FALSE
      <3>1. PICK c \in Class : \E j \in 1..Len(L[c]) : L[c][j] = a
        BY Zenon, <2>1 DEF In
      <3>2. L[c] = <<>>
        BY Zenon, <1>5
      <3> QED
        BY <3>1, <3>2
    <2> QED
      BY Zenon, <1>7, <2>1 DEF FreeNow, Members
  <1>9. Own({}, {}, mem, old)
    <2>1. mem \in [Thread -> Spot] /\ old \in [Thread -> Spot]
      BY Zenon, <1>1 DEF Spot
    <2> QED
      BY Zenon, <1>1, <2>1 DEF Own
  <1>10. Blk({}, {}, mem, old) = {}
    BY Zenon, <1>1, NullNotNat DEF Blk
  <1>11. Laid({}, pc, mem, total, head, _heapSize)
    <2>1. _heapSize \in Nat
      BY <1>1
    <2>2. Spaced({}, head, _heapSize) /\ Weighs({}, head, pc, mem, total, head)
      BY Zenon, <2>1 DEF Spaced, Weighs
    <2> QED
      BY Zenon, <2>2 DEF Laid
  <1>12. HeapOK(FreeNow, DOMAIN live, mem, old, pc, total, head, _heapSize)
    BY Zenon, <1>2, <1>8, <1>9, <1>10, <1>11 DEF HeapOK
  <1> QED
    BY Zenon, <1>3, <1>4, <1>6, <1>7, <1>12 DEF AllocInv

(* The invariant from its four parts. *)
LEMMA Concludes ==
  ASSUME NEW K, Linked(ls', K), Calls(pc', total', mem'), Headed(head'),
         HeapOK(Members(K), DOMAIN live', mem', old', pc', total', head', _heapSize')
  PROVE  AllocInv' /\ Lists(ls') = K
  <1>1. Lists(ls') = K
    BY Zenon, ListsAre
  <1>2. FreeNow' = Members(K)
    BY Zenon, <1>1 DEF FreeNow
  <1> QED
    BY Zenon, <1>1, <1>2 DEF AllocInv

(* Nothing but the calls and who owns the blocks changes. *)
LEMMA QuietSizes ==
  ASSUME NEW t \in Thread, NEW p, NEW m, NEW tt, NEW hd, NEW x, NEW pp, NEW tp,
         OnlyAt(t, p, pp), OnlyAt(t, tt, tp), p[t] # "tag", pp[t] # "tag"
  PROVE  SameSizes(t, p, m, tt, hd, x, pp, tp, hd)
  BY Zenon DEF SameSizes

(* malloc() and realloc() enter allocateObject. *)
LEMMA EnterInv ==
  ASSUME AllocInv, NEW t \in Thread, NEW size \in Request, NEW y, NEW W,
         EnterAllocateObject(t, size, y), DOMAIN live' = W,
         \/ y = NULL /\ W = DOMAIN live
         \/ y \in DOMAIN live /\ W = DOMAIN live \ {y}
  PROVE  AllocInv' /\ Lists(ls') = Lists(ls)
  <1>1. PICK V, F : V = DOMAIN live /\ F = FreeNow
    BY Zenon
  <1>2. /\ pc[t] = "idle" /\ ls' = ls /\ head' = head /\ _heapSize' = _heapSize /\ mem' = mem
        /\ total' = [total EXCEPT ![t] = TotalSize(size, Unit)]
        /\ old' = [old EXCEPT ![t] = y]
        /\ pc' = [pc EXCEPT ![t] = IF _initialized THEN "lock" ELSE "init"]
    BY Zenon DEF EnterAllocateObject, tags
  <1>3. /\ pc \in [Thread -> Label] /\ total \in [Thread -> Nat]
        /\ mem \in [Thread -> Spot] /\ old \in [Thread -> Spot] /\ Own(F, V, mem, old)
        /\ F \subseteq Nat /\ V \subseteq Nat
    BY Zenon, <1>1, InvFacts
  <1>4. /\ F \subseteq Blk(F, V, mem, old) /\ V \subseteq Blk(F, V, mem, old)
        /\ mem[t] = NULL \/ mem[t] \in Blk(F, V, mem, old)
        /\ mem[t] \notin F /\ mem[t] \notin V
        /\ \A a \in F : a \notin V
    BY Zenon, <1>1, InvFacts
  <1>5. mem' = [mem EXCEPT ![t] = mem[t]]
    BY Zenon, <1>2, <1>3
  <1>6. PICK P : P = (IF _initialized THEN "lock" ELSE "init")
    BY Zenon
  <1>7. P \in {"lock", "init"} /\ P \in Label /\ P # "tag" /\ P # "free"
    BY <1>6 DEF Label
  <1>8. PICK n \in Nat : n = TotalSize(size, Unit) /\ n >= MinTotal
    BY Zenon, RequestAssumption, TotalSizeIs
  <1>9. Calls(pc', total', mem')
    <2>1. Calls(pc, total, mem)
      BY Zenon DEF AllocInv
    <2>2. P \notin {"tag", "free"}
      BY Zenon, <1>7
    <2>3. Calls([pc EXCEPT ![t] = P], [total EXCEPT ![t] = n], [mem EXCEPT ![t] = mem[t]])
      BY Zenon, <1>3, <1>7, <1>8, <2>1, <2>2, CallsStep
    <2> QED
      BY Zenon, <1>2, <1>5, <1>6, <1>8, <2>3
  <1>10. SameSizes(t, pc, mem, total, head, mem[t], pc', total', head)
    <2>1. pc'[t] = P /\ OnlyAt(t, pc, pc') /\ OnlyAt(t, total, total')
      BY Zenon, <1>2, <1>3, <1>6, AtOnly
    <2>2. pc[t] # "tag" /\ pc'[t] # "tag"
      BY Zenon, <1>2, <1>7, <2>1
    <2> QED
      BY Zenon, <2>1, <2>2, QuietSizes
  <1>11. W \subseteq V /\ y \notin W /\ (y = NULL \/ y \in V)
    BY Zenon, <1>1, <1>3, NullNotNat
  <1>12. Room(t, F, W, mem, old, mem[t], y)
    <2>1. Others(t, F, W, mem, old) /\ \A a \in F : a \notin W
      BY Zenon, <1>3, <1>11 DEF Own, Others
    <2>2. Clear(mem[t], t, F, W, mem, old)
      BY Zenon, <1>3, <1>4, <1>11, ClearKept
    <2>3. Clear(y, t, F, W, mem, old)
      <3>1. ASSUME y \in V PROVE y \in Nat /\ y \notin F /\ \A u \in Thread : mem[u] # y /\ old[u] # y
        BY Zenon, <1>3, <3>1 DEF Own
      <3> QED
        BY Zenon, <1>11, <3>1 DEF Clear
    <2>4. (mem[t] = y) => (mem[t] = NULL)
      BY Zenon, <1>4, <1>11
    <2> QED
      BY Zenon, <1>3, <1>11, <2>1, <2>2, <2>3, <2>4 DEF Room
  <1>13. Within(F, W, mem[t], y, Blk(F, V, mem, old))
    BY Zenon, <1>4, <1>11 DEF Within
  <1>14. HeapOK(F, V, mem, old, pc, total, head, _heapSize)
    BY Zenon, <1>1 DEF AllocInv
  <1>15. HeapOK(F, W, [mem EXCEPT ![t] = mem[t]], [old EXCEPT ![t] = y], pc', total', head, _heapSize)
    BY Zenon, <1>10, <1>12, <1>13, <1>14, HeapMove
  <1>16. HeapOK(Members(Lists(ls)), DOMAIN live', mem', old', pc', total', head', _heapSize')
    BY Zenon, <1>1, <1>2, <1>5, <1>15 DEF FreeNow
  <1>17. Linked(ls', Lists(ls)) /\ Headed(head')
    BY Zenon, <1>2 DEF AllocInv
  <1> QED
    BY Zenon, <1>9, <1>16, <1>17, Concludes

(* free() takes a block back from user code. *)
LEMMA FreeInv ==
  ASSUME AllocInv, NEW t \in Thread, NEW a \in DOMAIN live, Free(t, a)
  PROVE  AllocInv' /\ Lists(ls') = Lists(ls)
  <1>1. PICK V, F, W : V = DOMAIN live /\ F = FreeNow /\ W = DOMAIN live \ {a}
    BY Zenon
  <1>2. /\ pc[t] = "idle" /\ ls' = ls /\ head' = head /\ _heapSize' = _heapSize /\ old' = old
        /\ live' = [b \in DOMAIN live \ {a} |-> live[b]]
        /\ mem' = [mem EXCEPT ![t] = a]
        /\ total' = [total EXCEPT ![t] = head[a].size]
        /\ pc' = [pc EXCEPT ![t] = "free"]
    BY Zenon DEF Free, lists, tags
  <1>3. /\ pc \in [Thread -> Label] /\ total \in [Thread -> Nat]
        /\ mem \in [Thread -> Spot] /\ old \in [Thread -> Spot] /\ Own(F, V, mem, old)
        /\ F \subseteq Nat /\ V \subseteq Nat
    BY Zenon, <1>1, InvFacts
  <1>4. /\ F \subseteq Blk(F, V, mem, old) /\ V \subseteq Blk(F, V, mem, old)
        /\ old[t] = NULL \/ old[t] \in Blk(F, V, mem, old)
        /\ old[t] \notin F /\ old[t] \notin V
    BY Zenon, <1>1, InvFacts
  <1>5. old' = [old EXCEPT ![t] = old[t]] /\ DOMAIN live' = W
    BY Zenon, <1>1, <1>2, <1>3
  <1>6. a \in V /\ a \in Nat /\ a \notin F /\ a # NULL /\ \A u \in Thread : mem[u] # a /\ old[u] # a
    BY Zenon, <1>1, <1>3, NullNotNat DEF Own
  <1>7. HeapOK(F, V, mem, old, pc, total, head, _heapSize)
    BY Zenon, <1>1 DEF AllocInv
  <1>8. PICK n \in Nat : n = head[a].size
    <2>1. \A u \in Thread : ~Tagging(u, a, pc, mem)
      BY Zenon, <1>6 DEF Tagging
    <2>2. a \in Blk(F, V, mem, old)
      BY Zenon, <1>4, <1>6
    <2> QED
      BY Zenon, <1>7, <2>1, <2>2, HeadKnown
  <1>9. Calls(pc', total', mem')
    <2>1. Calls(pc, total, mem)
      BY Zenon DEF AllocInv
    <2>2. "free" \in Label /\ "free" \notin {"init", "lock"}
      BY DEF Label
    <2>3. Calls([pc EXCEPT ![t] = "free"], [total EXCEPT ![t] = n], [mem EXCEPT ![t] = a])
      BY Zenon, <1>3, <1>6, <2>1, <2>2, CallsStep
    <2> QED
      BY Zenon, <1>2, <1>8, <2>3
  <1>10. SameSizes(t, pc, mem, total, head, a, pc', total', head)
    <2>1. pc'[t] = "free" /\ OnlyAt(t, pc, pc') /\ OnlyAt(t, total, total')
      BY Zenon, <1>2, <1>3, AtOnly
    <2>2. pc[t] # "tag" /\ pc'[t] # "tag"
      BY <1>2, <2>1
    <2> QED
      BY Zenon, <2>1, <2>2, QuietSizes
  <1>11. W \subseteq V /\ a \notin W
    BY Zenon, <1>1
  <1>12. Room(t, F, W, mem, old, a, old[t])
    <2>1. Others(t, F, W, mem, old) /\ \A b \in F : b \notin W
      BY Zenon, <1>3, <1>11 DEF Own, Others
    <2>2. Clear(old[t], t, F, W, mem, old)
      BY Zenon, <1>3, <1>4, <1>11, ClearKept
    <2>3. Clear(a, t, F, W, mem, old)
      BY Zenon, <1>6, <1>11 DEF Clear
    <2>4. (a = old[t]) => (a = NULL)
      BY Zenon, <1>6
    <2> QED
      BY Zenon, <1>3, <1>11, <2>1, <2>2, <2>3, <2>4 DEF Room
  <1>13. Within(F, W, a, old[t], Blk(F, V, mem, old))
    BY Zenon, <1>4, <1>6, <1>11 DEF Within
  <1>15. HeapOK(F, W, [mem EXCEPT ![t] = a], [old EXCEPT ![t] = old[t]], pc', total', head, _heapSize)
    BY Zenon, <1>7, <1>10, <1>12, <1>13, HeapMove
  <1>16. HeapOK(Members(Lists(ls)), DOMAIN live', mem', old', pc', total', head', _heapSize')
    BY Zenon, <1>1, <1>2, <1>5, <1>15 DEF FreeNow
  <1>17. Linked(ls', Lists(ls)) /\ Headed(head')
    BY Zenon, <1>2 DEF AllocInv
  <1> QED
    BY Zenon, <1>9, <1>16, <1>17, Concludes

(* initialize() empties a list. *)
EmptyList(x, i) == [x EXCEPT !.freels_[i] = NULL]
Emptied(L, K) ==
    /\ Members(K) \subseteq Members(L)
    /\ (\A c \in Class : L[c] = <<>>) => (K = L)

(* With one list empty, the lists are still linked. *)
LEMMA EmptyLinked ==
  ASSUME NEW x, NEW L, Linked(x, L), NEW i
  PROVE  \E K : Linked(EmptyList(x, i), K) /\ Emptied(L, K)
  <1>0. PICK y : y = EmptyList(x, i)
    BY Zenon
  <1>1. PICK f, n, p : f = x.freels_ /\ n = x.next_ /\ p = x.prev_
    BY Zenon
  <1>2. IsLists(f, n, p, L) /\ f \in [Class -> Int] /\ x = [freels_ |-> f, next_ |-> n, prev_ |-> p]
    BY Zenon, <1>1 DEF Linked, IsLists
  <1>3. PICK g : g = [f EXCEPT ![i] = NULL]
    BY Zenon
  <1>4. y = [freels_ |-> g, next_ |-> n, prev_ |-> p]
    BY <1>0, <1>2, <1>3 DEF EmptyList
  <1>5. CASE i \notin Class
    <2>1. g = f
      BY Zenon, <1>2, <1>3, <1>5
    <2>2. Linked(y, L)
      BY Zenon, <1>2, <1>4, <2>1
    <2> QED
      BY Zenon, <1>0, <2>2 DEF Emptied
  <1>6. CASE i \in Class
    <2>0. PICK e : e = <<>>
      BY Zenon
    <2>1. e \in Seq(Nat) /\ Len(e) = 0 /\ \A j \in 1..Len(e) : FALSE
      BY <2>0
    <2>2. IsList(NULL, n, p, e) /\ NULL \in Int
      <3>1. NULL \in Int
        BY DEF NULL
      <3> QED
        BY Zenon, <2>1, <3>1 DEF IsList
    <2>3. ASSUME NEW d \in Class PROVE SameLinks(n, p, n, p, L[d]) /\ Apart(e, L[d])
      <3>1. IsList(f[d], n, p, L[d])
        BY Zenon, <1>2 DEF IsLists
      <3> QED
        BY Zenon, <2>1, <3>1 DEF SameLinks, Apart, IsList
    <2>4. IsFiniteSet(DOMAIN n) /\ DOMAIN n \subseteq Nat /\ L \in [Class -> Seq(Nat)]
      BY Zenon, <1>2 DEF IsLists
    <2>5. PICK K : K = [L EXCEPT ![i] = e]
      BY Zenon
    <2>6. IsLists([f EXCEPT ![i] = NULL], n, p, [L EXCEPT ![i] = e])
      BY Zenon, <1>2, <1>6, <2>2, <2>3, <2>4, OneChanges
    <2>7. Linked(y, K)
      <3>1. IsLists(g, n, p, K)
        BY Zenon, <1>3, <2>5, <2>6
      <3> QED
        BY ONLY Zenon, <1>4, <3>1, LinkedFields
    <2>8. K[i] = e /\ \A d \in Class : (d # i) => K[d] = L[d]
      BY Zenon, <1>6, <2>4, <2>5
    <2>9. ASSUME NEW a \in Members(K) PROVE a \in Members(L)
      <3>1. PICK d \in Class : \E j \in 1..Len(K[d]) : K[d][j] = a
        BY Zenon DEF Members, In
      <3>2. d # i
        BY Zenon, <2>1, <2>8, <3>1
      <3> QED
        BY Zenon, <2>8, <3>1, <3>2 DEF Members, In
    <2>10. ASSUME \A c \in Class : L[c] = <<>> PROVE K = L
      BY Zenon, <1>6, <2>0, <2>4, <2>5, <2>10
    <2>11. Emptied(L, K)
      BY Zenon, <2>9, <2>10 DEF Emptied
    <2> QED
      BY Zenon, <1>0, <2>7, <2>11
  <1> QED
    BY Zenon, <1>5, <1>6

(* A turn of the loop of initialize(). *)
LEMMA InitializeInv ==
  ASSUME AllocInv, NEW t \in Thread, Initialize(t)
  PROVE  AllocInv' /\ ((\A c \in Class : Lists(ls)[c] = <<>>) => Lists(ls') = Lists(ls))
  <1>1. PICK V, F : V = DOMAIN live /\ F = FreeNow
    BY Zenon
  <1>2. /\ pc[t] = "init" /\ head' = head /\ _heapSize' = _heapSize
        /\ old' = old /\ mem' = mem /\ live' = live /\ total' = total
        /\ ls' = [ls EXCEPT !.freels_[initpos] = NULL]
        /\ pc' = [pc EXCEPT ![t] = IF initpos = LastClass THEN "lock" ELSE "init"]
    BY Zenon DEF Initialize, tags
  <1>3. /\ pc \in [Thread -> Label] /\ total \in [Thread -> Nat]
        /\ mem \in [Thread -> Spot] /\ old \in [Thread -> Spot] /\ Own(F, V, mem, old)
        /\ F \subseteq Nat /\ V \subseteq Nat
    BY Zenon, <1>1, InvFacts
  <1>4. /\ F \subseteq Blk(F, V, mem, old) /\ V \subseteq Blk(F, V, mem, old)
        /\ old[t] = NULL \/ old[t] \in Blk(F, V, mem, old)
        /\ mem[t] = NULL \/ mem[t] \in Blk(F, V, mem, old)
        /\ old[t] \notin F /\ old[t] \notin V /\ mem[t] \notin F /\ mem[t] \notin V
    BY Zenon, <1>1, InvFacts
  <1>5. /\ old' = [old EXCEPT ![t] = old[t]] /\ mem' = [mem EXCEPT ![t] = mem[t]]
        /\ total' = [total EXCEPT ![t] = total[t]]
    BY Zenon, <1>2, <1>3
  <1>6. PICK K : /\ Linked(ls', K) /\ Members(K) \subseteq Members(Lists(ls))
                 /\ (\A c \in Class : Lists(ls)[c] = <<>>) => (K = Lists(ls))
    <2>1. PICK L : L = Lists(ls)
      BY Zenon
    <2>2. Linked(ls, L)
      BY Zenon, <2>1 DEF AllocInv
    <2>3. ls' = EmptyList(ls, initpos)
      BY Zenon, <1>2 DEF EmptyList
    <2>4. PICK K : Linked(EmptyList(ls, initpos), K) /\ Emptied(L, K)
      BY Zenon, <2>2, EmptyLinked
    <2> QED
      BY Zenon, <2>1, <2>3, <2>4 DEF Emptied
  <1>7. HeapOK(F, V, mem, old, pc, total, head, _heapSize)
    BY Zenon, <1>1 DEF AllocInv
  <1>8. PICK P : P = (IF initpos = LastClass THEN "lock" ELSE "init")
    BY Zenon
  <1>9. P \in {"lock", "init"} /\ P \in Label /\ P # "tag" /\ P # "free"
    BY <1>8 DEF Label
  <1>10. Calls(pc', total', mem')
    <2>1. Calls(pc, total, mem)
      BY Zenon DEF AllocInv
    <2>2. P \notin {"tag", "free"} /\ total[t] \in Nat /\ total[t] >= MinTotal
      BY Zenon, <1>2, <1>3, <1>9, <2>1 DEF Calls
    <2>3. Calls([pc EXCEPT ![t] = P], [total EXCEPT ![t] = total[t]], [mem EXCEPT ![t] = mem[t]])
      BY Zenon, <1>3, <1>9, <2>1, <2>2, CallsStep
    <2> QED
      BY Zenon, <1>2, <1>5, <1>8, <2>3
  <1>11. SameSizes(t, pc, mem, total, head, mem[t], pc', total', head)
    <2>1. pc'[t] = P /\ OnlyAt(t, pc, pc') /\ OnlyAt(t, total, total')
      BY Zenon, <1>2, <1>3, <1>5, <1>8, AtOnly
    <2>2. pc[t] # "tag" /\ pc'[t] # "tag"
      BY Zenon, <1>2, <1>9, <2>1
    <2> QED
      BY Zenon, <2>1, <2>2, QuietSizes
  <1>12. PICK G : G = Members(K)
    BY Zenon
  <1>13. G \subseteq F
    BY Zenon, <1>1, <1>6, <1>12 DEF FreeNow
  <1>14. Room(t, G, V, mem, old, mem[t], old[t])
    <2>1. Others(t, G, V, mem, old) /\ \A b \in G : b \notin V
      BY Zenon, <1>3, <1>13 DEF Own, Others
    <2>2. Clear(old[t], t, G, V, mem, old) /\ Clear(mem[t], t, G, V, mem, old)
      BY Zenon, <1>3, <1>4, <1>13, ClearKept
    <2>3. (mem[t] = old[t]) => (mem[t] = NULL)
      BY Zenon, <1>3 DEF Own
    <2> QED
      BY Zenon, <1>3, <1>13, <2>1, <2>2, <2>3 DEF Room
  <1>15. Within(G, V, mem[t], old[t], Blk(F, V, mem, old))
    BY Zenon, <1>4, <1>13 DEF Within
  <1>16. HeapOK(G, V, [mem EXCEPT ![t] = mem[t]], [old EXCEPT ![t] = old[t]], pc', total', head, _heapSize)
    BY Zenon, <1>7, <1>11, <1>14, <1>15, HeapMove
  <1>17. HeapOK(Members(K), DOMAIN live', mem', old', pc', total', head', _heapSize')
    BY Zenon, <1>1, <1>2, <1>5, <1>12, <1>16
  <1>18. Headed(head')
    BY Zenon, <1>2 DEF AllocInv
  <1>19. AllocInv' /\ Lists(ls') = K
    BY Zenon, <1>6, <1>10, <1>17, <1>18, Concludes
  <1> QED
    BY Zenon, <1>6, <1>19

(* allocateObject finds no block and takes one from the OS. *)
LEMMA GetMemoryInv ==
  ASSUME AllocInv, NEW t \in Thread, getMemoryFromOS(t)
  PROVE  AllocInv' /\ Lists(ls') = Lists(ls)
  <1>1. PICK V, F : V = DOMAIN live /\ F = FreeNow
    BY Zenon
  <1>2. /\ pc[t] = "lock" /\ ls' = ls /\ head' = head /\ _heapSize' = _heapSize + total[t]
        /\ old' = old /\ live' = live
        /\ mem' = [mem EXCEPT ![t] = _heapSize]
        /\ total' = [total EXCEPT ![t] = total[t]]
        /\ pc' = [pc EXCEPT ![t] = "tag"]
    BY Zenon DEF getMemoryFromOS, Take, lists, tags
  <1>3. /\ pc \in [Thread -> Label] /\ total \in [Thread -> Nat] /\ mem \in [Thread -> Spot]
    BY Zenon, InvFacts
  <1>4. HeapOK(F, V, mem, old, pc, total, head, _heapSize)
    BY Zenon, <1>1 DEF AllocInv
  <1>5. total[t] \in Nat /\ total[t] >= MinTotal /\ pc[t] # "tag"
    <2>1. pc[t] # "tag"
      BY <1>2
    <2> QED
      BY Zenon, <1>2, <1>3, <2>1 DEF AllocInv, Calls
  <1>6. _heapSize \in Nat /\ _heapSize # NULL
    BY Zenon, <1>4, NullNotNat DEF HeapOK, Laid, Spaced
  <1>7. Calls(pc', total', mem')
    <2>1. Calls(pc, total, mem)
      BY Zenon DEF AllocInv
    <2>2. "tag" \in Label /\ "tag" \notin {"init", "lock"}
      BY DEF Label
    <2>3. Calls([pc EXCEPT ![t] = "tag"], [total EXCEPT ![t] = total[t]], [mem EXCEPT ![t] = _heapSize])
      BY Zenon, <1>3, <1>5, <1>6, <2>1, <2>2, CallsStep
    <2> QED
      BY Zenon, <1>2, <2>3
  <1>8. /\ pc'[t] = "tag" /\ OnlyAt(t, pc, pc')
        /\ total'[t] = total[t] /\ OnlyAt(t, total, total')
    BY Zenon, <1>2, <1>3, AtOnly
  <1>9. HeapOK(F, V, [mem EXCEPT ![t] = _heapSize], old, pc', total', head, _heapSize + total[t])
    BY Zenon, <1>4, <1>5, <1>8, HeapNew
  <1>10. HeapOK(Members(Lists(ls)), DOMAIN live', mem', old', pc', total', head', _heapSize')
    BY Zenon, <1>1, <1>2, <1>9 DEF FreeNow
  <1>11. Linked(ls', Lists(ls)) /\ Headed(head')
    BY Zenon, <1>2 DEF AllocInv
  <1> QED
    BY Zenon, <1>7, <1>10, <1>11, Concludes

(* The lists without the block that was chosen. *)
Rest(t) == rmFromFreeLs(Lists(ls), ChoiceOf(t).pos, ChoiceOf(t).at)

(* The block that was chosen is free, and is taken out of the lists. *)
LEMMA ChosenFacts ==
  ASSUME AllocInv, NEW t \in Thread, ChoiceOf(t).at # 0
  PROVE  /\ Linked(ListsWithoutChosen(t), Rest(t))
         /\ Members(Rest(t)) \subseteq FreeNow
         /\ Chosen(t) \in FreeNow
         /\ Chosen(t) \notin Members(Rest(t))
  <1>1. PICK L, ch : L = Lists(ls) /\ ch = ChoiceOf(t)
    BY Zenon
  <1>2. Linked(ls, L) /\ total[t] \in Nat
    BY Zenon, <1>1, InvFacts DEF AllocInv
  <1>3. ch = Choice(L, HeadSize, total[t], Unit, LastClass) /\ ch.at # 0
    BY Zenon, <1>1 DEF ChoiceOf
  <1>4. ch.pos \in Class /\ ch.at \in 1..Len(L[ch.pos])
    BY Zenon, <1>2, <1>3, ChoiceIn
  <1>5. PICK c \in Class : c = ch.pos
    BY Zenon, <1>4
  <1>6. PICK i \in 1..Len(L[c]) : i = ch.at
    BY Zenon, <1>4, <1>5
  <1>7. Chosen(t) = L[c][i] /\ Rest(t) = rmFromFreeLs(L, c, i)
    BY Zenon, <1>1, <1>5, <1>6 DEF Chosen, Rest
  <1>8. ListsWithoutChosen(t) = rmFromFreeLsLinks(ls, c, L[c][i])
    BY Zenon, <1>1, <1>5, <1>7 DEF ListsWithoutChosen
  <1>9. Linked(rmFromFreeLsLinks(ls, c, L[c][i]), rmFromFreeLs(L, c, i))
    BY Zenon, <1>2, RemoveLinked
  <1>10. /\ L[c][i] \in Members(L) /\ Members(rmFromFreeLs(L, c, i)) \subseteq Members(L)
         /\ L[c][i] \notin Members(rmFromFreeLs(L, c, i))
    BY Zenon, <1>2, MembersRemove
  <1> QED
    BY Zenon, <1>1, <1>7, <1>8, <1>9, <1>10 DEF FreeNow

(* allocateObject takes a block as it is. *)
LEMMA TakeWholeInv ==
  ASSUME AllocInv, NEW t \in Thread, TakeWhole(t)
  PROVE  AllocInv' /\ Lists(ls') = Rest(t)
  <1>1. PICK V, F, a, K, G :
          V = DOMAIN live /\ F = FreeNow /\ a = Chosen(t) /\ K = Rest(t) /\ G = Members(K)
    BY Zenon
  <1>2. /\ pc[t] = "lock" /\ ChoiceOf(t).at # 0 /\ ls' = ListsWithoutChosen(t)
        /\ head' = head /\ _heapSize' = _heapSize /\ old' = old /\ live' = live
        /\ mem' = [mem EXCEPT ![t] = a]
        /\ total' = [total EXCEPT ![t] = head[a].size]
        /\ pc' = [pc EXCEPT ![t] = "tag"]
    BY Zenon, <1>1 DEF TakeWhole, Take, tags
  <1>3. /\ pc \in [Thread -> Label] /\ total \in [Thread -> Nat]
        /\ mem \in [Thread -> Spot] /\ old \in [Thread -> Spot] /\ Own(F, V, mem, old)
        /\ F \subseteq Nat /\ V \subseteq Nat
    BY Zenon, <1>1, InvFacts
  <1>4. /\ F \subseteq Blk(F, V, mem, old) /\ V \subseteq Blk(F, V, mem, old)
        /\ old[t] = NULL \/ old[t] \in Blk(F, V, mem, old)
        /\ old[t] \notin F /\ old[t] \notin V
    BY Zenon, <1>1, InvFacts
  <1>5. Linked(ls', K) /\ G \subseteq F /\ a \in F /\ a \notin G
    BY Zenon, <1>1, <1>2, ChosenFacts
  <1>6. old' = [old EXCEPT ![t] = old[t]]
    BY Zenon, <1>2, <1>3
  <1>7. a \in Nat /\ a # NULL /\ a \notin V /\ \A u \in Thread : mem[u] # a /\ old[u] # a
    BY Zenon, <1>3, <1>5, NullNotNat DEF Own
  <1>8. HeapOK(F, V, mem, old, pc, total, head, _heapSize)
    BY Zenon, <1>1 DEF AllocInv
  <1>9. /\ a \in DOMAIN head /\ head[a].size \in Nat
        /\ \A u \in Thread : ~Tagging(u, a, pc, mem)
    <2>1. \A u \in Thread : ~Tagging(u, a, pc, mem)
      BY Zenon, <1>7 DEF Tagging
    <2>2. a \in Blk(F, V, mem, old)
      BY Zenon, <1>4, <1>5
    <2> QED
      BY Zenon, <1>8, <2>1, <2>2, HeadKnown
  <1>10. Calls(pc', total', mem')
    <2>1. Calls(pc, total, mem)
      BY Zenon DEF AllocInv
    <2>2. "tag" \in Label /\ "tag" \notin {"init", "lock"}
      BY DEF Label
    <2>3. Calls([pc EXCEPT ![t] = "tag"], [total EXCEPT ![t] = head[a].size], [mem EXCEPT ![t] = a])
      BY Zenon, <1>3, <1>7, <1>9, <2>1, <2>2, CallsStep
    <2> QED
      BY Zenon, <1>2, <2>3
  <1>11. SameSizes(t, pc, mem, total, head, a, pc', total', head)
    <2>1. /\ pc'[t] = "tag" /\ OnlyAt(t, pc, pc')
          /\ total'[t] = head[a].size /\ OnlyAt(t, total, total')
      BY Zenon, <1>2, <1>3, AtOnly
    <2>2. pc[t] # "tag"
      BY <1>2
    <2> QED
      BY Zenon, <1>9, <2>1, <2>2 DEF SameSizes
  <1>12. Room(t, G, V, mem, old, a, old[t])
    <2>1. Others(t, G, V, mem, old) /\ \A b \in G : b \notin V
      BY Zenon, <1>3, <1>5 DEF Own, Others
    <2>2. Clear(old[t], t, G, V, mem, old)
      BY Zenon, <1>3, <1>4, <1>5, ClearKept
    <2>3. Clear(a, t, G, V, mem, old)
      BY Zenon, <1>5, <1>7 DEF Clear
    <2>4. (a = old[t]) => (a = NULL)
      BY Zenon, <1>7
    <2> QED
      BY Zenon, <1>3, <1>5, <2>1, <2>2, <2>3, <2>4 DEF Room
  <1>13. Within(G, V, a, old[t], Blk(F, V, mem, old))
    BY Zenon, <1>4, <1>5 DEF Within
  <1>14. HeapOK(G, V, [mem EXCEPT ![t] = a], [old EXCEPT ![t] = old[t]], pc', total', head, _heapSize)
    BY Zenon, <1>8, <1>11, <1>12, <1>13, HeapMove
  <1>15. HeapOK(Members(K), DOMAIN live', mem', old', pc', total', head', _heapSize')
    BY Zenon, <1>1, <1>2, <1>6, <1>14
  <1>16. Headed(head')
    BY Zenon, <1>2 DEF AllocInv
  <1>17. AllocInv' /\ Lists(ls') = K
    BY Zenon, <1>5, <1>10, <1>15, <1>16, Concludes
  <1> QED
    BY Zenon, <1>1, <1>17

(* The size and the flag of a tag. *)
LEMMA TagIs ==
  ASSUME NEW n \in Nat, NEW flag \in {"free", "allocated"}
  PROVE  Tag(n, flag).size = n /\ Tag(n, flag) \in [size : Nat, flags : {"free", "allocated"}]
  BY DEF Tag

(* Writing a tag leaves the headers of the other blocks alone. *)
LEMMA PutHead ==
  ASSUME NEW hd, Headed(hd), NEW a, NEW n \in Nat, NEW flag \in {"free", "allocated"}
  PROVE  Headed(Put(hd, a, Tag(n, flag))) /\ HeadAt(hd, Put(hd, a, Tag(n, flag)), a, n)
  <1>0. PICK hp : hp = Put(hd, a, Tag(n, flag))
    BY Zenon
  <1>1. PICK tag : tag = Tag(n, flag)
    BY Zenon
  <1>2. tag.size = n /\ tag \in [size : Nat, flags : {"free", "allocated"}]
    BY Zenon, <1>1, TagIs
  <1>3. IsPut(hd, a, tag, hp)
    BY Zenon, <1>0, <1>1, PutIs
  <1>4. /\ DOMAIN hp = DOMAIN hd \cup {a} /\ hp[a] = tag
        /\ \A b \in DOMAIN hd : (b # a) => hp[b] = hd[b]
    BY Zenon, <1>3 DEF IsPut
  <1>5. Headed(hp)
    <2>1. ASSUME NEW b \in DOMAIN hp PROVE hp[b] \in [size : Nat, flags : {"free", "allocated"}]
      <3>1. CASE b = a
        BY ONLY Zenon, <1>2, <1>4, <3>1
      <3>2. CASE b # a
        <4>1. b \in DOMAIN hd /\ hp[b] = hd[b]
          BY Zenon, <1>4, <3>2
        <4>2. hd[b] \in [size : Nat, flags : {"free", "allocated"}]
          BY Zenon, <4>1 DEF Headed
        <4> QED
          BY ONLY Zenon, <4>1, <4>2
      <3> QED
        BY Zenon, <3>1, <3>2
    <2> QED
      BY Zenon, <2>1 DEF Headed
  <1>6. HeadAt(hd, hp, a, n)
    BY Zenon, <1>2, <1>4 DEF HeadAt
  <1> QED
    BY Zenon, <1>0, <1>5, <1>6

Sizes(hd) == [a \in DOMAIN hd |-> hd[a].size]

(* The sizes after a header is written. *)
LEMMA SizesPut ==
  ASSUME NEW hd, NEW r, NEW n \in Nat, NEW flag \in {"free", "allocated"}
  PROVE  Sizes(Put(hd, r, Tag(n, flag))) = Put(Sizes(hd), r, n)
  <1>1. PICK tag : tag = Tag(n, flag)
    BY Zenon
  <1>2. tag.size = n
    BY Zenon, <1>1, TagIs
  <1>3. PICK hp, g, s : /\ hp = Put(hd, r, tag) /\ s = Sizes(hd)
                        /\ g = Put(s, r, n)
    BY Zenon
  <1>4. IsPut(hd, r, tag, hp) /\ IsPut(s, r, n, g)
    BY Zenon, <1>3, PutIs
  <1>5. DOMAIN s = DOMAIN hd /\ \A b \in DOMAIN hd : s[b] = hd[b].size
    BY Zenon, <1>3 DEF Sizes
  <1>6. DOMAIN hp = DOMAIN hd \cup {r} /\ DOMAIN g = DOMAIN hd \cup {r}
    BY Zenon, <1>4, <1>5 DEF IsPut
  <1>7. ASSUME NEW b \in DOMAIN hd \cup {r} PROVE g[b] = hp[b].size
    <2>1. CASE b = r
      <3>1. hp[b] = tag /\ g[b] = n
        BY Zenon, <1>4, <2>1 DEF IsPut
      <3> QED
        BY Zenon, <1>2, <3>1
    <2>2. CASE b # r
      <3>1. hp[b] = hd[b] /\ g[b] = s[b] /\ s[b] = hd[b].size
        BY Zenon, <1>4, <1>5, <2>2 DEF IsPut
      <3> QED
        BY Zenon, <3>1
    <2> QED
      BY Zenon, <2>1, <2>2
  <1>8. g = [b \in DOMAIN g |-> g[b]]
    BY Zenon, <1>3 DEF Put
  <1>9. Sizes(hp) = g
    BY Zenon, <1>6, <1>7, <1>8 DEF Sizes
  <1> QED
    BY Zenon, <1>1, <1>3, <1>9

(* Setting the flag of a header leaves its size. *)
SetFree(hd, a) == [hd EXCEPT ![a].flags = "free"]
SizesKept(hd, hp) ==
    /\ DOMAIN hp = DOMAIN hd /\ Sizes(hp) = Sizes(hd)
    /\ \A b \in DOMAIN hd : hp[b].size = hd[b].size

(* The sizes after a flag is set. *)
LEMMA FlagHead ==
  ASSUME NEW hd, Headed(hd), NEW a \in DOMAIN hd
  PROVE  Headed(SetFree(hd, a)) /\ SizesKept(hd, SetFree(hd, a))
  <1>0. PICK hp : hp = SetFree(hd, a)
    BY Zenon
  <1>1. DOMAIN hp = DOMAIN hd
    BY Zenon, <1>0 DEF SetFree
  <1>2. ASSUME NEW b \in DOMAIN hd
        PROVE  /\ hp[b] \in [size : Nat, flags : {"free", "allocated"}]
               /\ hp[b].size = hd[b].size
    <2>1. hd[b] \in [size : Nat, flags : {"free", "allocated"}]
      BY Zenon DEF Headed
    <2>2. hp[b] = IF b = a THEN [hd[b] EXCEPT !.flags = "free"] ELSE hd[b]
      BY Zenon, <1>0 DEF SetFree
    <2>3. PICK x, y : x = hd[b] /\ y = [x EXCEPT !.flags = "free"]
      BY Zenon
    <2>4. y \in [size : Nat, flags : {"free", "allocated"}] /\ y.size = x.size
      BY <2>1, <2>3
    <2>5. hp[b] = x \/ hp[b] = y
      BY Zenon, <2>2, <2>3
    <2> QED
      BY Zenon, <2>1, <2>3, <2>4, <2>5
  <1>3. Headed(hp)
    BY Zenon, <1>1, <1>2 DEF Headed
  <1>4. Sizes(hp) = Sizes(hd)
    BY Zenon, <1>1, <1>2 DEF Sizes
  <1>5. SizesKept(hd, hp)
    BY Zenon, <1>1, <1>2, <1>4 DEF SizesKept
  <1> QED
    BY Zenon, <1>0, <1>3, <1>5

(* A block that is in no list is inserted. *)
LEMMA InsertNew ==
  ASSUME NEW x, NEW L, Linked(x, L), NEW sz, NEW a \in Nat, sz[a] \in Nat, a \notin Members(L)
  PROVE  /\ Linked(insertFreeBlockLinks(x, sz, a, Unit, LastClass),
                   insertFreeBlock(L, sz, a, Unit, LastClass))
         /\ Members(insertFreeBlock(L, sz, a, Unit, LastClass)) \subseteq Members(L) \cup {a}
  <1>1. ClassOf(sz[a], Unit, LastClass) \in Class
    BY Zenon, ClassOfIn
  <1>2. \A d \in Class : \A j \in 1..Len(L[d]) : L[d][j] # a
    BY Zenon DEF Members, In
  <1>3. Linked(insertFreeBlockLinks(x, sz, a, Unit, LastClass),
               insertFreeBlock(L, sz, a, Unit, LastClass))
    BY Zenon, <1>1, <1>2, InsertLinked
  <1>4. Members(insertFreeBlock(L, sz, a, Unit, LastClass)) \subseteq Members(L) \cup {a}
    BY Zenon, <1>1, MembersInsert
  <1> QED
    BY Zenon, <1>3, <1>4

Inserts(K, L, sz, a) == K = insertFreeBlock(L, sz, a, Unit, LastClass)

(* allocateObject cuts a block and inserts the rest. *)
LEMMA TakeSplitInv ==
  ASSUME AllocInv, NEW t \in Thread, TakeSplit(t)
  PROVE  AllocInv' /\ \E a \in DOMAIN head' : Inserts(Lists(ls'), Rest(t), Sizes(head'), a)
  <1>1. PICK V, F, a, n : V = DOMAIN live /\ F = FreeNow /\ a = Chosen(t) /\ n = total[t]
    BY Zenon
  <1>2. PICK r, rs : r = a + n /\ rs = head[a].size - n
    BY Zenon
  <1>3. /\ pc[t] = "lock" /\ ChoiceOf(t).at # 0
        /\ head[a].size >= n + MinTotal
        /\ head' = Put(head, r, Tag(rs, "free"))
        /\ _heapSize' = _heapSize /\ old' = old /\ live' = live
        /\ mem' = [mem EXCEPT ![t] = a]
        /\ total' = [total EXCEPT ![t] = n]
        /\ pc' = [pc EXCEPT ![t] = "tag"]
    BY Zenon, <1>1, <1>2 DEF TakeSplit, Take, Splits, WriteTags
  <1>4. ls' = insertFreeBlockLinks(ListsWithoutChosen(t), Put(HeadSize, r, rs), r, Unit, LastClass)
    BY Zenon, <1>1, <1>2 DEF TakeSplit
  <1>5. /\ pc \in [Thread -> Label] /\ total \in [Thread -> Nat]
        /\ mem \in [Thread -> Spot] /\ old \in [Thread -> Spot] /\ Own(F, V, mem, old)
        /\ F \subseteq Nat /\ V \subseteq Nat /\ F \subseteq Blk(F, V, mem, old)
    BY Zenon, <1>1, InvFacts
  <1>6. PICK K : K = Rest(t)
    BY Zenon
  <1>7. Linked(ListsWithoutChosen(t), K) /\ Members(K) \subseteq F /\ a \in F /\ a \notin Members(K)
    BY Zenon, <1>1, <1>3, <1>6, ChosenFacts
  <1>8. HeapOK(F, V, mem, old, pc, total, head, _heapSize)
    BY Zenon, <1>1 DEF AllocInv
  <1>9. a \in Nat /\ a # NULL /\ \A u \in Thread : mem[u] # a
    BY Zenon, <1>5, <1>7, NullNotNat DEF Own
  <1>10. n \in Nat /\ n >= MinTotal /\ pc[t] # "tag"
    <2>1. pc[t] # "tag"
      BY <1>3
    <2> QED
      BY Zenon, <1>1, <1>3, <1>5, <2>1 DEF AllocInv, Calls
  <1>11. head[a].size \in Nat
    <2>1. \A u \in Thread : ~Tagging(u, a, pc, mem)
      BY Zenon, <1>9 DEF Tagging
    <2>2. a \in Blk(F, V, mem, old)
      BY Zenon, <1>5, <1>7
    <2> QED
      BY Zenon, <1>8, <2>1, <2>2, HeadKnown
  <1>12. rs \in Nat
    <2>1. PICK z \in Nat : z = head[a].size
      BY Zenon, <1>11
    <2>2. rs = z - n /\ z >= n + MinTotal
      BY Zenon, <1>2, <1>3, <2>1
    <2> QED
      BY <1>10, <2>2 DEF MinTotal, NodeSize, HeaderSize
  <1>13. r \in Nat /\ r \notin Blk(F, V, mem, old)
    BY Zenon, <1>2, <1>3, <1>7, <1>8, <1>10, TailNew
  <1>14. r \notin Members(K)
    BY Zenon, <1>5, <1>7, <1>13
  <1>15. PICK sz, J : sz = Put(HeadSize, r, rs) /\ J = insertFreeBlock(K, sz, r, Unit, LastClass)
    BY Zenon
  <1>16. sz[r] = rs /\ sz = Sizes(head')
    <2>1. HeadSize = Sizes(head)
      BY Zenon DEF HeadSize, Sizes
    <2>2. IsPut(HeadSize, r, rs, sz)
      BY Zenon, <1>15, PutIs
    <2>3. sz[r] = rs
      BY Zenon, <2>2 DEF IsPut
    <2>4. Sizes(Put(head, r, Tag(rs, "free"))) = Put(Sizes(head), r, rs)
      BY Zenon, <1>12, SizesPut
    <2> QED
      BY Zenon, <1>3, <1>15, <2>1, <2>3, <2>4
  <1>17. Linked(ls', J) /\ Members(J) \subseteq Members(K) \cup {r}
    <2>1. sz[r] \in Nat
      BY Zenon, <1>12, <1>16
    <2>2. /\ Linked(insertFreeBlockLinks(ListsWithoutChosen(t), sz, r, Unit, LastClass),
                    insertFreeBlock(K, sz, r, Unit, LastClass))
          /\ Members(insertFreeBlock(K, sz, r, Unit, LastClass)) \subseteq Members(K) \cup {r}
      BY Zenon, <1>7, <1>13, <1>14, <2>1, InsertNew
    <2> QED
      BY Zenon, <1>4, <1>15, <2>2
  <1>18. Headed(head') /\ HeadAt(head, head', r, rs) /\ r \in DOMAIN head'
    <2>1. Headed(head)
      BY Zenon DEF AllocInv
    <2>2. PICK hp : hp = Put(head, r, Tag(rs, "free"))
      BY Zenon
    <2>3. Headed(hp) /\ HeadAt(head, hp, r, rs)
      BY Zenon, <1>12, <2>1, <2>2, PutHead
    <2> QED
      BY Zenon, <1>3, <2>2, <2>3 DEF HeadAt
  <1>19. Calls(pc', total', mem')
    <2>1. Calls(pc, total, mem)
      BY Zenon DEF AllocInv
    <2>2. "tag" \in Label /\ "tag" \notin {"init", "lock"}
      BY DEF Label
    <2>3. Calls([pc EXCEPT ![t] = "tag"], [total EXCEPT ![t] = n], [mem EXCEPT ![t] = a])
      BY Zenon, <1>5, <1>9, <1>10, <2>1, <2>2, CallsStep
    <2> QED
      BY Zenon, <1>3, <2>3
  <1>20. TakesTag(t, pc, total, pc', total', n)
    <2>1. /\ pc'[t] = "tag" /\ OnlyAt(t, pc, pc')
          /\ total'[t] = n /\ OnlyAt(t, total, total')
      BY Zenon, <1>3, <1>5, AtOnly
    <2> QED
      BY Zenon, <1>10, <2>1 DEF TakesTag
  <1>21. PICK G : G = Members(J)
    BY Zenon
  <1>22. Cut(F, G, a, a + n)
    BY Zenon, <1>2, <1>7, <1>17, <1>21 DEF Cut
  <1>23. HeadAt(head, head', a + n, head[a].size - n)
    BY Zenon, <1>2, <1>18
  <1>24. HeapOK(G, V, [mem EXCEPT ![t] = a], old, pc', total', head', _heapSize)
    BY Zenon, <1>3, <1>7, <1>8, <1>10, <1>20, <1>22, <1>23, HeapSplit
  <1>25. HeapOK(Members(J), DOMAIN live', mem', old', pc', total', head', _heapSize')
    BY Zenon, <1>1, <1>3, <1>21, <1>24
  <1>26. AllocInv' /\ Lists(ls') = J
    BY Zenon, <1>17, <1>18, <1>19, <1>25, Concludes
  <1>27. Inserts(Lists(ls'), Rest(t), Sizes(head'), r)
    BY Zenon, <1>6, <1>15, <1>16, <1>26 DEF Inserts
  <1> QED
    BY Zenon, <1>18, <1>26, <1>27

(* freeObject inserts a block. *)
LEMMA FreeObjectInv ==
  ASSUME AllocInv, NEW t \in Thread, freeObject(t)
  PROVE  /\ AllocInv'
         /\ \/ Lists(ls') = Lists(ls)
            \/ \E a \in DOMAIN head' : Inserts(Lists(ls'), Lists(ls), Sizes(head'), a)
  <1>1. PICK V, F, a, L : V = DOMAIN live /\ F = FreeNow /\ a = mem[t] /\ L = Lists(ls)
    BY Zenon
  <1>2. /\ pc[t] = "free"
        /\ _heapSize' = _heapSize /\ old' = old /\ live' = live
        /\ mem' = [mem EXCEPT ![t] = NULL]
        /\ total' = [total EXCEPT ![t] = 0]
        /\ pc' = [pc EXCEPT ![t] = "idle"]
    BY Zenon DEF freeObject
  <1>3. \/ head' = head /\ ls' = ls
        \/ /\ head' = [head EXCEPT ![a].flags = "free"]
           /\ ls' = insertFreeBlockLinks(ls, HeadSize, a, Unit, LastClass)
    BY Zenon, <1>1 DEF freeObject
  <1>4. /\ pc \in [Thread -> Label] /\ total \in [Thread -> Nat]
        /\ mem \in [Thread -> Spot] /\ old \in [Thread -> Spot] /\ Own(F, V, mem, old)
        /\ F \subseteq Nat /\ V \subseteq Nat
    BY Zenon, <1>1, InvFacts
  <1>5. /\ F \subseteq Blk(F, V, mem, old) /\ V \subseteq Blk(F, V, mem, old)
        /\ old[t] = NULL \/ old[t] \in Blk(F, V, mem, old)
        /\ old[t] \notin F /\ old[t] \notin V /\ a \notin F /\ a \notin V
        /\ a = NULL \/ a \in Blk(F, V, mem, old)
    BY Zenon, <1>1, InvFacts
  <1>6. Calls(pc, total, mem) /\ Headed(head) /\ Linked(ls, L)
    BY Zenon, <1>1 DEF AllocInv
  <1>7. HeapOK(F, V, mem, old, pc, total, head, _heapSize)
    BY Zenon, <1>1 DEF AllocInv
  <1>8. a # NULL /\ a \in Nat /\ pc[t] # "tag"
    <2>1. pc[t] # "tag"
      BY <1>2
    <2>2. a # NULL
      BY Zenon, <1>1, <1>2, <1>6 DEF Calls
    <2> QED
      BY Zenon, <1>1, <1>4, <2>1, <2>2 DEF Spot
  <1>9. \A u \in Thread : (u # t) => (mem[u] # a /\ old[u] # a)
    BY Zenon, <1>1, <1>4, <1>8 DEF Own
  <1>10. a \in DOMAIN head /\ head[a].size \in Nat
    <2>1. \A u \in Thread : ~Tagging(u, a, pc, mem)
      BY Zenon, <1>8, <1>9 DEF Tagging
    <2>2. a \in Blk(F, V, mem, old)
      BY Zenon, <1>5, <1>8
    <2> QED
      BY Zenon, <1>7, <2>1, <2>2, HeadKnown
  <1>11. /\ Headed(head') /\ DOMAIN head' = DOMAIN head
         /\ \A b \in DOMAIN head : head'[b].size = head[b].size
         /\ Sizes(head') = Sizes(head)
    <2>1. CASE head' = head
      BY Zenon, <1>6, <2>1
    <2>2. CASE head' = [head EXCEPT ![a].flags = "free"]
      <3>1. head' = SetFree(head, a)
        BY Zenon, <2>2 DEF SetFree
      <3>2. Headed(SetFree(head, a)) /\ SizesKept(head, SetFree(head, a))
        BY Zenon, <1>6, <1>10, FlagHead
      <3> QED
        BY Zenon, <3>1, <3>2 DEF SizesKept
    <2> QED
      BY Zenon, <1>3, <2>1, <2>2
  <1>12. PICK J : /\ Linked(ls', J) /\ Members(J) \subseteq F \cup {a}
                  /\ J = L \/ Inserts(J, L, Sizes(head'), a)
    <2>1. CASE ls' = ls
      BY Zenon, <1>1, <1>6, <2>1 DEF FreeNow
    <2>2. CASE ls' = insertFreeBlockLinks(ls, HeadSize, a, Unit, LastClass)
      <3>1. HeadSize = Sizes(head)
        BY Zenon DEF HeadSize, Sizes
      <3>2. HeadSize[a] \in Nat
        BY Zenon, <1>10 DEF HeadSize
      <3>3. a \notin Members(L) /\ Members(L) = F
        BY Zenon, <1>1, <1>5 DEF FreeNow
      <3>4. PICK sz : sz = HeadSize
        BY Zenon
      <3>5. /\ Linked(insertFreeBlockLinks(ls, sz, a, Unit, LastClass),
                      insertFreeBlock(L, sz, a, Unit, LastClass))
            /\ Members(insertFreeBlock(L, sz, a, Unit, LastClass)) \subseteq Members(L) \cup {a}
        BY Zenon, <1>6, <1>8, <3>2, <3>3, <3>4, InsertNew
      <3> QED
        BY Zenon, <1>11, <2>2, <3>1, <3>3, <3>4, <3>5 DEF Inserts
    <2> QED
      BY Zenon, <1>3, <2>1, <2>2
  <1>13. PICK G : G = Members(J)
    BY Zenon
  <1>14. G \subseteq F \cup {a}
    BY Zenon, <1>12, <1>13
  <1>15. Calls(pc', total', mem')
    <2>1. "idle" \in Label /\ "idle" \notin {"init", "lock"} /\ "idle" \notin {"tag", "free"} /\ 0 \in Nat
      BY DEF Label
    <2>2. Calls([pc EXCEPT ![t] = "idle"], [total EXCEPT ![t] = 0], [mem EXCEPT ![t] = NULL])
      BY Zenon, <1>4, <1>6, <2>1, CallsStep
    <2> QED
      BY Zenon, <1>2, <2>2
  <1>16. SameSizes(t, pc, mem, total, head, NULL, pc', total', head')
    <2>1. pc'[t] = "idle" /\ OnlyAt(t, pc, pc') /\ OnlyAt(t, total, total')
      BY Zenon, <1>2, <1>4, AtOnly
    <2>2. pc'[t] # "tag"
      BY <2>1
    <2> QED
      BY Zenon, <1>8, <1>11, <2>1, <2>2 DEF SameSizes
  <1>17. Room(t, G, V, mem, old, NULL, old[t])
    <2>1. ASSUME NEW u \in Thread, u # t, NEW b \in G \cup V PROVE mem[u] # b /\ old[u] # b
      <3>1. CASE b = a
        BY Zenon, <1>9, <2>1, <3>1
      <3>2. CASE b \in F \cup V
        BY Zenon, <1>4, <3>2 DEF Own
      <3> QED
        BY Zenon, <1>14, <3>1, <3>2
    <2>2. Others(t, G, V, mem, old)
      BY Zenon, <2>1 DEF Others
    <2>3. \A b \in G : b \notin V
      BY Zenon, <1>4, <1>5, <1>14 DEF Own
    <2>4. old[t] # a
      BY Zenon, <1>1, <1>4, <1>8 DEF Own
    <2>5. Clear(old[t], t, G, V, mem, old)
      <3>1. old[t] \notin G /\ old[t] \notin V
        BY Zenon, <1>5, <1>14, <2>4
      <3> QED
        BY Zenon, <1>4, <3>1, ClearKept
    <2>6. Clear(NULL, t, G, V, mem, old)
      BY Zenon DEF Clear
    <2> QED
      BY Zenon, <1>4, <1>8, <1>14, <2>2, <2>3, <2>5, <2>6 DEF Room
  <1>18. Within(G, V, NULL, old[t], Blk(F, V, mem, old))
    BY Zenon, <1>5, <1>8, <1>14 DEF Within
  <1>19. HeapOK(G, V, [mem EXCEPT ![t] = NULL], [old EXCEPT ![t] = old[t]], pc', total', head', _heapSize)
    BY Zenon, <1>7, <1>16, <1>17, <1>18, HeapMove
  <1>20. old' = [old EXCEPT ![t] = old[t]]
    BY Zenon, <1>2, <1>4
  <1>21. HeapOK(Members(J), DOMAIN live', mem', old', pc', total', head', _heapSize')
    BY Zenon, <1>1, <1>2, <1>13, <1>19, <1>20
  <1>22. AllocInv' /\ Lists(ls') = J
    BY Zenon, <1>11, <1>12, <1>15, <1>21, Concludes
  <1>23. J = L => Lists(ls') = Lists(ls)
    BY Zenon, <1>1, <1>22
  <1>24. Inserts(J, L, Sizes(head'), a) => Inserts(Lists(ls'), Lists(ls), Sizes(head'), a)
    BY Zenon, <1>1, <1>22
  <1> QED
    BY Zenon, <1>10, <1>11, <1>12, <1>22, <1>23, <1>24

(* allocateObject writes the tags, without the lock. *)
LEMMA SetTagsInv ==
  ASSUME AllocInv, NEW t \in Thread, SetTags(t)
  PROVE  AllocInv' /\ Lists(ls') = Lists(ls)
  <1>1. PICK V, F, a, n, W : /\ V = DOMAIN live /\ F = FreeNow /\ a = mem[t] /\ n = total[t]
                             /\ W = DOMAIN live \cup {a}
    BY Zenon
  <1>2. PICK x, P, z : /\ x = old[t]
                       /\ P = IF old[t] = NULL THEN "idle" ELSE "free"
                       /\ z = IF old[t] = NULL THEN 0 ELSE head[old[t]].size
    BY Zenon
  <1>3. /\ pc \in [Thread -> Label] /\ total \in [Thread -> Nat]
        /\ mem \in [Thread -> Spot] /\ old \in [Thread -> Spot] /\ Own(F, V, mem, old)
        /\ F \subseteq Nat /\ V \subseteq Nat
    BY Zenon, <1>1, InvFacts
  <1>4. /\ pc[t] = "tag" /\ ls' = ls /\ _heapSize' = _heapSize
        /\ head' = Put(head, a, Tag(n, "allocated"))
        /\ live' = Put(live, a, req[t])
    BY Zenon, <1>1 DEF SetTags, WriteTags, lists
  <1>5. /\ pc' = [pc EXCEPT ![t] = P] /\ mem' = [mem EXCEPT ![t] = x]
        /\ total' = [total EXCEPT ![t] = z] /\ old' = [old EXCEPT ![t] = NULL]
    <2>1. CASE old[t] = NULL
      <3>1. /\ pc' = [pc EXCEPT ![t] = "idle"] /\ mem' = [mem EXCEPT ![t] = NULL]
            /\ total' = [total EXCEPT ![t] = 0] /\ old' = old
        BY Zenon, <2>1 DEF SetTags
      <3>2. old = [old EXCEPT ![t] = NULL]
        BY Zenon, <1>3, <2>1
      <3> QED
        BY Zenon, <1>2, <2>1, <3>1, <3>2
    <2>2. CASE old[t] # NULL
      <3>1. /\ pc' = [pc EXCEPT ![t] = "free"] /\ mem' = [mem EXCEPT ![t] = old[t]]
            /\ total' = [total EXCEPT ![t] = head[old[t]].size] /\ old' = [old EXCEPT ![t] = NULL]
        BY Zenon, <2>2 DEF SetTags
      <3> QED
        BY Zenon, <1>2, <2>2, <3>1
    <2> QED
      BY Zenon, <2>1, <2>2
  <1>6. /\ F \subseteq Blk(F, V, mem, old) /\ V \subseteq Blk(F, V, mem, old)
        /\ x = NULL \/ x \in Blk(F, V, mem, old)
        /\ x \notin F /\ x \notin V /\ a \notin F /\ a \notin V
        /\ a = NULL \/ a \in Blk(F, V, mem, old)
    BY Zenon, <1>1, <1>2, InvFacts
  <1>7. Calls(pc, total, mem) /\ Headed(head) /\ Linked(ls, Lists(ls))
    BY Zenon DEF AllocInv
  <1>8. HeapOK(F, V, mem, old, pc, total, head, _heapSize)
    BY Zenon, <1>1 DEF AllocInv
  <1>9. a # NULL /\ a \in Nat /\ n \in Nat
    <2>1. a # NULL
      BY Zenon, <1>1, <1>4, <1>7 DEF Calls
    <2> QED
      BY Zenon, <1>1, <1>3, <2>1 DEF Spot
  <1>10. \A u \in Thread : (u # t) => (mem[u] # a /\ old[u] # a)
    BY Zenon, <1>1, <1>3, <1>9 DEF Own
  <1>11. x # a /\ (x # NULL => \A u \in Thread : mem[u] # x)
    BY Zenon, <1>1, <1>2, <1>3, <1>9 DEF Own
  <1>12. z \in Nat
    <2>1. CASE old[t] = NULL
      BY <1>2, <2>1
    <2>2. CASE old[t] # NULL
      <3>1. \A u \in Thread : ~Tagging(u, x, pc, mem)
        BY Zenon, <1>2, <1>11, <2>2 DEF Tagging
      <3>2. x \in Blk(F, V, mem, old)
        BY Zenon, <1>2, <1>6, <2>2
      <3>3. head[x].size \in Nat
        BY Zenon, <1>8, <3>1, <3>2, HeadKnown
      <3> QED
        BY Zenon, <1>2, <2>2, <3>3
    <2> QED
      BY Zenon, <2>1, <2>2
  <1>13. P \in Label /\ P # "tag" /\ P \notin {"init", "lock"} /\ (P \in {"tag", "free"} => x # NULL)
    <2>1. CASE old[t] = NULL
      <3>1. P = "idle"
        BY Zenon, <1>2, <2>1
      <3> QED
        BY <3>1 DEF Label
    <2>2. CASE old[t] # NULL
      <3>1. P = "free" /\ x # NULL
        BY Zenon, <1>2, <2>2
      <3> QED
        BY <3>1 DEF Label
    <2> QED
      BY Zenon, <2>1, <2>2
  <1>14. Calls(pc', total', mem')
    <2>1. Calls([pc EXCEPT ![t] = P], [total EXCEPT ![t] = z], [mem EXCEPT ![t] = x])
      BY Zenon, <1>3, <1>7, <1>12, <1>13, CallsStep
    <2> QED
      BY Zenon, <1>5, <2>1
  <1>15. Headed(head') /\ HeadAt(head, head', a, n)
    <2>1. PICK hp : hp = Put(head, a, Tag(n, "allocated"))
      BY Zenon
    <2>2. Headed(hp) /\ HeadAt(head, hp, a, n)
      BY Zenon, <1>7, <1>9, <2>1, PutHead
    <2> QED
      BY Zenon, <1>4, <2>1, <2>2
  <1>16. SameSizes(t, pc, mem, total, head, x, pc', total', head')
    <2>1. pc'[t] = P /\ OnlyAt(t, pc, pc') /\ OnlyAt(t, total, total')
      BY Zenon, <1>3, <1>5, AtOnly
    <2>2. mem[t] \in DOMAIN head' /\ head'[mem[t]].size = total[t]
      BY Zenon, <1>1, <1>15 DEF HeadAt
    <2>3. ASSUME NEW b \in DOMAIN head, ~Tagging(t, b, pc, mem)
          PROVE  b \in DOMAIN head' /\ head'[b].size = head[b].size
      <3>1. b # a
        BY Zenon, <1>1, <1>4, <2>3 DEF Tagging
      <3>2. b \in DOMAIN head' /\ head'[b] = head[b]
        BY Zenon, <1>15, <3>1 DEF HeadAt
      <3> QED
        BY Zenon, <3>2
    <2>4. pc'[t] # "tag"
      BY Zenon, <1>13, <2>1
    <2> QED
      BY Zenon, <2>1, <2>2, <2>3, <2>4 DEF SameSizes
  <1>17. W \subseteq Nat /\ \A b \in W : b = a \/ b \in V
    BY Zenon, <1>1, <1>3, <1>9
  <1>18. Room(t, F, W, mem, old, x, NULL)
    <2>1. ASSUME NEW u \in Thread, u # t, NEW b \in F \cup W PROVE mem[u] # b /\ old[u] # b
      <3>1. CASE b = a
        BY Zenon, <1>10, <2>1, <3>1
      <3>2. CASE b \in F \cup V
        BY Zenon, <1>3, <3>2 DEF Own
      <3> QED
        BY Zenon, <1>17, <3>1, <3>2
    <2>2. Others(t, F, W, mem, old)
      BY Zenon, <2>1 DEF Others
    <2>3. \A b \in F : b \notin W
      BY Zenon, <1>3, <1>6, <1>17 DEF Own
    <2>4. Clear(x, t, F, W, mem, old)
      <3>1. x \notin F /\ x \notin W
        BY Zenon, <1>6, <1>11, <1>17
      <3> QED
        BY Zenon, <1>2, <1>3, <3>1, ClearKept
    <2>5. Clear(NULL, t, F, W, mem, old)
      BY Zenon DEF Clear
    <2> QED
      BY Zenon, <1>3, <1>17, <2>2, <2>3, <2>4, <2>5 DEF Room
  <1>19. Within(F, W, x, NULL, Blk(F, V, mem, old))
    BY Zenon, <1>6, <1>9, <1>17 DEF Within
  <1>20. HeapOK(F, W, [mem EXCEPT ![t] = x], [old EXCEPT ![t] = NULL], pc', total', head', _heapSize)
    BY Zenon, <1>8, <1>16, <1>18, <1>19, HeapMove
  <1>21. DOMAIN live' = W
    BY Zenon, <1>1, <1>4 DEF Put
  <1>22. HeapOK(Members(Lists(ls)), DOMAIN live', mem', old', pc', total', head', _heapSize')
    BY Zenon, <1>1, <1>4, <1>5, <1>20, <1>21 DEF FreeNow
  <1>23. Linked(ls', Lists(ls))
    BY Zenon, <1>4, <1>7
  <1> QED
    BY Zenon, <1>14, <1>15, <1>22, <1>23, Concludes

-----------------------------------------------------------------------------
(* Every step keeps the invariant, and does to the lists what FreeLists    *)
(* has for it, but for a turn of initialize() that finds a list in use.    *)

Removes(t) == ChoiceOf(t).at # 0 /\ Lists(ls') = Rest(t)

Kept(t) ==
    \/ Lists(ls') = Lists(ls)
    \/ Removes(t)
    \/ \E a \in DOMAIN head' : Inserts(Lists(ls'), Lists(ls), Sizes(head'), a)
    \/ /\ ChoiceOf(t).at # 0
       /\ \E a \in DOMAIN head' : Inserts(Lists(ls'), Rest(t), Sizes(head'), a)

AllEmpty == \A c \in Class : Lists(ls)[c] = <<>>

(* The step of a thread. *)
LEMMA StepInv ==
  ASSUME AllocInv, NEW t \in Thread, Step(t)
  PROVE  AllocInv' /\ (Kept(t) \/ (Initialize(t) /\ ~AllEmpty))
  <1>1. CASE \E size \in Request : Malloc(t, size)
    <2>1. PICK size \in Request : EnterAllocateObject(t, size, NULL) /\ live' = live
      BY Zenon, <1>1 DEF Malloc
    <2>2. AllocInv' /\ Lists(ls') = Lists(ls)
      BY Zenon, <2>1, EnterInv
    <2> QED
      BY Zenon, <2>2 DEF Kept
  <1>2. CASE \E size \in Request, a \in DOMAIN live : Realloc(t, a, size)
    <2>1. PICK size \in Request, a \in DOMAIN live : Realloc(t, a, size)
      BY Zenon, <1>2
    <2>2. EnterAllocateObject(t, size, a) /\ DOMAIN live' = DOMAIN live \ {a}
      BY Zenon, <2>1 DEF Realloc
    <2>3. AllocInv' /\ Lists(ls') = Lists(ls)
      BY Zenon, <2>2, EnterInv
    <2> QED
      BY Zenon, <2>3 DEF Kept
  <1>3. CASE Initialize(t)
    BY Zenon, <1>3, InitializeInv DEF Kept, AllEmpty
  <1>4. CASE AllocateObject(t)
    <2>1. CASE getMemoryFromOS(t)
      BY Zenon, <2>1, GetMemoryInv DEF Kept
    <2>2. CASE TakeWhole(t)
      <3>1. ChoiceOf(t).at # 0
        BY Zenon, <2>2 DEF TakeWhole
      <3> QED
        BY Zenon, <2>2, <3>1, TakeWholeInv DEF Kept, Removes
    <2>3. CASE TakeSplit(t)
      <3>1. ChoiceOf(t).at # 0
        BY Zenon, <2>3 DEF TakeSplit
      <3> QED
        BY Zenon, <2>3, <3>1, TakeSplitInv DEF Kept
    <2> QED
      BY Zenon, <1>4, <2>1, <2>2, <2>3 DEF AllocateObject
  <1>5. CASE SetTags(t)
    BY Zenon, <1>5, SetTagsInv DEF Kept
  <1>6. CASE \E a \in DOMAIN live : Free(t, a)
    <2>1. PICK a \in DOMAIN live : Free(t, a)
      BY Zenon, <1>6
    <2>2. AllocInv' /\ Lists(ls') = Lists(ls)
      BY Zenon, <2>1, FreeInv
    <2> QED
      BY Zenon, <2>2 DEF Kept
  <1>7. CASE freeObject(t)
    BY Zenon, <1>7, FreeObjectInv DEF Kept
  <1> QED
    BY Zenon, <1>1, <1>2, <1>3, <1>4, <1>5, <1>6, <1>7 DEF Step

(* The exit handler changes nothing but the report. *)
LEMMA QuietInv ==
  ASSUME AllocInv, atExitHandler \/ UNCHANGED vars
  PROVE  AllocInv' /\ Lists(ls') = Lists(ls)
  <1>1. /\ ls' = ls /\ head' = head /\ _heapSize' = _heapSize /\ live' = live
        /\ pc' = pc /\ total' = total /\ mem' = mem /\ old' = old
    BY Zenon DEF atExitHandler, lists, tags, call, vars
  <1> QED
    BY Zenon, <1>1 DEF AllocInv, FreeNow

(* The invariant is inductive. *)
LEMMA NextInv == AllocInv /\ [Next]_vars => AllocInv'
  <1> SUFFICES ASSUME AllocInv, [Next]_vars PROVE AllocInv'
    OBVIOUS
  <1>1. (\E t \in Thread : Step(t)) \/ atExitHandler \/ UNCHANGED vars
    BY Zenon DEF Next
  <1> QED
    BY Zenon, <1>1, StepInv, QuietInv

(* The invariant holds in every reachable state. *)
LEMMA Invariance == Spec => []AllocInv
  BY InitInv, NextInv, PTL DEF Spec

-----------------------------------------------------------------------------
(* OneOwner *)

(* The blocks in the lists, as OneOwner and as the invariant have them. *)
LEMMA FreeBlocksAre ==
  ASSUME AllocInv
  PROVE  FreeBlocks = FreeNow
  <1>1. PICK L : L = Lists(ls)
    BY Zenon
  <1>2. Linked(ls, L)
    BY Zenon, <1>1 DEF AllocInv
  <1>3. \A c \in Class : /\ L[c] \in Seq(Nat) /\ \A j \in 1..Len(L[c]) : L[c][j] \in Nat
    BY Zenon, <1>2, ListType
  <1>4. \A c \in Class : DOMAIN L[c] = 1..Len(L[c])
    BY Zenon, <1>3, LenFacts
  <1>5. \A c \in Class : Range(L[c]) = {L[c][j] : j \in 1..Len(L[c])}
    BY Zenon, <1>4 DEF Range
  <1>6. ASSUME NEW a PROVE a \in FreeBlocks <=> a \in Members(L)
    <2>1. a \in FreeBlocks <=> \E c \in Class : a \in Range(L[c])
      BY Zenon, <1>1 DEF FreeBlocks
    <2>2. (\E c \in Class : a \in Range(L[c])) <=> (\E c \in Class : \E j \in 1..Len(L[c]) : L[c][j] = a)
      BY Zenon, <1>5
    <2>3. a \in Members(L) <=> (a \in Nat /\ \E c \in Class : \E j \in 1..Len(L[c]) : L[c][j] = a)
      BY Zenon DEF Members, In
    <2>4. (\E c \in Class : \E j \in 1..Len(L[c]) : L[c][j] = a) => a \in Nat
      BY Zenon, <1>3
    <2> QED
      BY Zenon, <2>1, <2>2, <2>3, <2>4
  <1> QED
    BY Zenon, <1>1, <1>6 DEF FreeNow

(* All blocks of OneOwner are blocks of the invariant. *)
LEMMA BlocksAre ==
  ASSUME AllocInv
  PROVE  Blocks \subseteq Blk(FreeNow, DOMAIN live, mem, old)
  <1>1. ASSUME NEW a \in Blocks PROVE a \in Blk(FreeNow, DOMAIN live, mem, old)
    <2>1. /\ a # NULL
          /\ a \in FreeNow \/ a \in DOMAIN live \/ \E t \in Thread : mem[t] = a \/ old[t] = a
      BY Zenon, FreeBlocksAre DEF Blocks, HeldBlocks
    <2>2. ASSUME NEW t \in Thread, mem[t] = a \/ old[t] = a
          PROVE  a \in Blk(FreeNow, DOMAIN live, mem, old)
      <3>1. CASE mem[t] = a
        BY Zenon, <2>1, <3>1, InvFacts
      <3>2. CASE old[t] = a
        BY Zenon, <2>1, <3>2, InvFacts
      <3> QED
        BY Zenon, <2>2, <3>1, <3>2
    <2> QED
      BY Zenon, <2>1, <2>2, InvFacts
  <1> QED
    BY Zenon, <1>1

(* Their sizes are the sizes of the invariant. *)
LEMMA SizesAre ==
  ASSUME AllocInv, NEW w, NEW a \in Blocks,
         Weighs(Blk(FreeNow, DOMAIN live, mem, old), w, pc, mem, total, head)
  PROVE  SizeOf(a) = w[a]
  <1>1. a \in Blk(FreeNow, DOMAIN live, mem, old)
    BY Zenon, BlocksAre
  <1>2. /\ \A t \in Thread : (pc[t] = "tag" /\ mem[t] = a) => (w[a] = total[t])
        /\ (\A t \in Thread : ~(pc[t] = "tag" /\ mem[t] = a)) => (w[a] = head[a].size)
    BY Zenon, <1>1 DEF Weighs
  <1>3. CASE \E t \in Thread : pc[t] = "tag" /\ mem[t] = a
    <2>1. PICK u : u = CHOOSE t \in Thread : pc[t] = "tag" /\ mem[t] = a
      BY Zenon
    <2>2. u \in Thread /\ pc[u] = "tag" /\ mem[u] = a
      BY Zenon, <1>3, <2>1
    <2>3. SizeOf(a) = total[u]
      BY Zenon, <1>3, <2>1 DEF SizeOf
    <2> QED
      BY Zenon, <1>2, <2>2, <2>3
  <1>4. CASE ~\E t \in Thread : pc[t] = "tag" /\ mem[t] = a
    <2>1. SizeOf(a) = head[a].size
      BY Zenon, <1>4 DEF SizeOf
    <2> QED
      BY Zenon, <1>2, <1>4, <2>1
  <1> QED
    BY Zenon, <1>3, <1>4

(* The invariant says what OneOwner says. *)
LEMMA OwnerInv == AllocInv => OneOwner
  <1> SUFFICES ASSUME AllocInv PROVE OneOwner
    OBVIOUS
  <1>1. Once(Lists(ls))
    BY Zenon, LinkedOnce DEF AllocInv
  <1>2. \A c, d \in Class : \A i \in 1..Len(Lists(ls)[c]), j \in 1..Len(Lists(ls)[d]) :
          (Lists(ls)[c][i] = Lists(ls)[d][j]) => (c = d /\ i = j)
    BY Zenon, <1>1 DEF Once
  <1>3. FreeBlocks \cap HeldBlocks = {}
    <2>1. ASSUME NEW a \in FreeNow PROVE a \notin HeldBlocks
      BY Zenon, InvFacts DEF HeldBlocks
    <2> QED
      BY Zenon, <2>1, FreeBlocksAre
  <1>4. \A t \in Thread : {mem[t], old[t]} \cap DOMAIN live = {}
    BY Zenon, InvFacts
  <1>5. \A t, u \in Thread :
          /\ (mem[t] = mem[u] /\ mem[t] # NULL) => (t = u)
          /\ (old[t] = old[u] /\ old[t] # NULL) => (t = u)
          /\ (mem[t] = old[u]) => (mem[t] = NULL)
    <2>1. Own(FreeNow, DOMAIN live, mem, old)
      BY Zenon, InvFacts
    <2> QED
      BY Zenon, <2>1 DEF Own
  <1>6. ASSUME NEW a \in Blocks
        PROVE  /\ a + SizeOf(a) <= _heapSize
               /\ \A b \in Blocks : (a < b) => (a + SizeOf(a) <= b)
    <2>1. PICK B : B = Blk(FreeNow, DOMAIN live, mem, old)
      BY Zenon
    <2>2. PICK w : Weighs(B, w, pc, mem, total, head) /\ Spaced(B, w, _heapSize)
      BY Zenon, <2>1 DEF AllocInv, HeapOK, Laid
    <2>3. SizeOf(a) = w[a]
      BY Zenon, <2>1, <2>2, SizesAre
    <2>4. Blocks \subseteq B
      BY Zenon, <2>1, BlocksAre
    <2>5. a + w[a] <= _heapSize /\ \A b \in Blocks : (a < b) => (a + w[a] <= b)
      BY Zenon, <2>2, <2>4 DEF Spaced
    <2> QED
      BY Zenon, <2>3, <2>5
  <1>7. \A a \in Blocks :
          /\ a + SizeOf(a) <= _heapSize
          /\ \A b \in Blocks : (a < b) => (a + SizeOf(a) <= b)
    BY Zenon, <1>6
  <1> QED
    BY ONLY ZenonT(60), <1>2, <1>3, <1>4, <1>5, <1>7 DEF OneOwner

(* At all times a block is at one position of one free list, or owned by   *)
(* user code, or in the hands of one call, and no two blocks overlap: for  *)
(* any number of threads, size classes and sizes, and even if several      *)
(* threads make the first malloc together.                                 *)
THEOREM OneOwnerTheorem == Spec => []OneOwner
  BY Invariance, OwnerInv, PTL

-----------------------------------------------------------------------------
(* RefinesSequence *)

(* Only one thread runs before the first malloc has returned, as in a      *)
(* process that has yet to start a thread.                                 *)
EarlyInv ==
    /\ ~_initialized => /\ AllEmpty
                        /\ DOMAIN live = {}
                        /\ \A t \in Thread : pc[t] = "idle"
    /\ \A t \in Thread : (pc[t] = "init") =>
         /\ AllEmpty /\ t \in Early
         /\ \A u \in Thread : (u # t) => pc[u] = "idle"

(* Before the first malloc all lists are empty. *)
LEMMA EarlyInit == Init => EarlyInv
  <1> SUFFICES ASSUME Init PROVE EarlyInv
    OBVIOUS
  <1>1. ~_initialized /\ pc = [t \in Thread |-> "idle"] /\ live = <<>>
    BY Zenon DEF Init
  <1>2. \A t \in Thread : pc[t] = "idle" /\ pc[t] # "init"
    BY <1>1
  <1>3. DOMAIN live = {}
    BY <1>1
  <1>4. AllEmpty
    <2>1. ASSUME NEW c \in Class PROVE Lists(ls)[c] = <<>>
      <3>1. PICK L : L = Lists(ls)
        BY Zenon
      <3>2. Linked(ls, L)
        BY Zenon, <3>1, InitInv DEF AllocInv
      <3>3. IsList(ls.freels_[c], ls.next_, ls.prev_, L[c])
        BY Zenon, <3>2 DEF Linked, IsLists
      <3>4. ls.freels_[c] = NULL
        BY DEF Init, NoLists, Class
      <3>5. L[c] \in Seq(Nat) /\ Len(L[c]) \in Nat /\ \A j \in 1..Len(L[c]) : L[c][j] \in Nat
        BY Zenon, <3>2, ListType
      <3>6. Len(L[c]) = 0
        <4>1. CASE Len(L[c]) # 0
          <5>1. 1 \in 1..Len(L[c])
            BY <3>5, <4>1
          <5>2. L[c][1] = NULL
            BY Zenon, <3>3, <3>4, <4>1 DEF IsList
          <5> QED
            BY Zenon, <3>5, <5>1, <5>2, NullNotNat
        <4> QED
          BY Zenon, <4>1
      <3> QED
        BY Zenon, <3>1, <3>5, <3>6, EmptyFacts
    <2> QED
      BY Zenon, <2>1 DEF AllEmpty
  <1> QED
    BY Zenon, <1>1, <1>2, <1>3, <1>4 DEF EarlyInv

(* While a thread is in initialize() no other takes a step. *)
LEMMA EarlyStep ==
  ASSUME \A t, u \in Early : t = u, AllocInv, EarlyInv, [Next]_vars
  PROVE  EarlyInv'
  <1>1. pc \in [Thread -> Label]
    BY Zenon, InvFacts
  <1>2. CASE atExitHandler \/ UNCHANGED vars
    <2>1. /\ ls' = ls /\ live' = live /\ pc' = pc /\ (_initialized' <=> _initialized)
      BY <1>2 DEF atExitHandler, lists, call, vars
    <2> QED
      BY Zenon, <2>1 DEF EarlyInv, AllEmpty
  <1>3. ASSUME NEW t \in Thread, Step(t) PROVE EarlyInv'
    <2>1. ASSUME NEW u \in Thread, pc[u] = "init", u # t PROVE FALSE
      <3>1. pc[t] = "idle" /\ u \in Early /\ ~(\A v \in Thread : pc[v] # "init")
        BY Zenon, <2>1 DEF EarlyInv
      <3>2. Exists(t)
        BY Zenon, <1>3, <3>1 DEF Step, Malloc, Realloc, EnterAllocateObject, Initialize,
             AllocateObject, getMemoryFromOS, TakeWhole, TakeSplit, SetTags, Free, freeObject
      <3>3. t \in Early
        BY Zenon, <3>1, <3>2 DEF Exists
      <3> QED
        BY Zenon, <2>1, <3>1, <3>3
    <2>2. CASE _initialized /\ pc[t] # "init"
      <3>1. \A u \in Thread : pc[u] # "init"
        BY Zenon, <2>1, <2>2
      <3>2. _initialized' /\ pc'[t] # "init" /\ \A u \in Thread : (u # t) => pc'[u] = pc[u]
        BY Zenon, <1>1, <1>3, <2>2 DEF Step, Malloc, Realloc, EnterAllocateObject, Initialize,
             AllocateObject, getMemoryFromOS, TakeWhole, TakeSplit, Take, SetTags, Free, freeObject,
             lists
      <3>3. \A u \in Thread : pc'[u] # "init"
        BY Zenon, <3>1, <3>2
      <3> QED
        BY Zenon, <3>2, <3>3 DEF EarlyInv
    <2>3. CASE pc[t] = "init"
      <3>1. /\ AllEmpty /\ t \in Early /\ _initialized
            /\ \A u \in Thread : (u # t) => pc[u] = "idle"
        <4>1. "init" # "idle"
          OBVIOUS
        <4> QED
          BY Zenon, <2>3, <4>1 DEF EarlyInv
      <3>2. Initialize(t)
        BY <1>3, <2>3 DEF Step, Malloc, Realloc, EnterAllocateObject, AllocateObject,
             getMemoryFromOS, TakeWhole, TakeSplit, SetTags, Free, freeObject
      <3>3. Lists(ls') = Lists(ls)
        BY Zenon, <3>1, <3>2, InitializeInv DEF AllEmpty
      <3>4. AllEmpty'
        BY Zenon, <3>1, <3>3 DEF AllEmpty
      <3>5. _initialized' /\ \A u \in Thread : (u # t) => pc'[u] = pc[u]
        BY <1>1, <3>1, <3>2 DEF Initialize
      <3>6. ASSUME NEW u \in Thread, pc'[u] = "init" PROVE u = t
        <4>1. "init" # "idle"
          OBVIOUS
        <4> QED
          BY Zenon, <3>1, <3>5, <3>6, <4>1
      <3> QED
        BY Zenon, <3>1, <3>4, <3>5, <3>6 DEF EarlyInv
    <2>4. CASE ~_initialized
      <3>1. /\ AllEmpty /\ DOMAIN live = {} /\ \A u \in Thread : pc[u] = "idle"
        BY Zenon, <2>4 DEF EarlyInv
      <3>2. PICK size \in Request : Malloc(t, size)
        BY <1>3, <3>1 DEF Step, Realloc, Initialize, AllocateObject,
             getMemoryFromOS, TakeWhole, TakeSplit, SetTags, Free, freeObject
      <3>3. /\ _initialized' /\ ls' = ls /\ \A u \in Thread : (u # t) => pc'[u] = pc[u]
        BY <1>1, <3>2 DEF Malloc, EnterAllocateObject
      <3>4. t \in Early
        BY Zenon, <2>4, <3>2 DEF Malloc, EnterAllocateObject, Exists
      <3>5. AllEmpty'
        BY Zenon, <3>1, <3>3 DEF AllEmpty
      <3>6. ASSUME NEW u \in Thread, pc'[u] = "init" PROVE u = t
        <4>1. "init" # "idle"
          OBVIOUS
        <4> QED
          BY Zenon, <3>1, <3>3, <3>6, <4>1
      <3> QED
        BY Zenon, <3>1, <3>3, <3>4, <3>5, <3>6 DEF EarlyInv
    <2> QED
      BY Zenon, <2>2, <2>3, <2>4
  <1> QED
    BY Zenon, <1>2, <1>3 DEF Next

SequenceStep ==
    LET fl == Lists(ls)
        sz == [a \in DOMAIN head' |-> head'[a].size]
        after(t) == IF ChoiceOf(t).at = 0 THEN fl
                    ELSE rmFromFreeLs(fl, ChoiceOf(t).pos, ChoiceOf(t).at)
    IN  \/ Lists(ls') = fl
        \/ \E t \in Thread :
             \/ Lists(ls') = after(t)
             \/ \E a \in DOMAIN head' :
                  Lists(ls') \in {insertFreeBlock(fl, sz, a, Unit, LastClass),
                                  insertFreeBlock(after(t), sz, a, Unit, LastClass)}

(* What a step may do to the lists, as RefinesSequence has it. *)
LEMMA KeptIs ==
  ASSUME NEW t \in Thread, Kept(t)
  PROVE  SequenceStep
  <1>1. (ChoiceOf(t).at # 0) =>
          Rest(t) = (IF ChoiceOf(t).at = 0 THEN Lists(ls)
                     ELSE rmFromFreeLs(Lists(ls), ChoiceOf(t).pos, ChoiceOf(t).at))
    BY Zenon DEF Rest
  <1>2. CASE Lists(ls') = Lists(ls)
    BY Zenon, <1>2 DEF SequenceStep
  <1>3. CASE Removes(t)
    BY Zenon, <1>1, <1>3 DEF SequenceStep, Removes
  <1>4. CASE \E a \in DOMAIN head' : Inserts(Lists(ls'), Lists(ls), Sizes(head'), a)
    BY Zenon, <1>4 DEF SequenceStep, Inserts, Sizes
  <1>5. CASE /\ ChoiceOf(t).at # 0
             /\ \E a \in DOMAIN head' : Inserts(Lists(ls'), Rest(t), Sizes(head'), a)
    <2>1. PICK a \in DOMAIN head' : Inserts(Lists(ls'), Rest(t), Sizes(head'), a)
      BY Zenon, <1>5
    <2>2. PICK K : K = Rest(t)
      BY Zenon
    <2>3. K = (IF ChoiceOf(t).at = 0 THEN Lists(ls)
               ELSE rmFromFreeLs(Lists(ls), ChoiceOf(t).pos, ChoiceOf(t).at))
      BY Zenon, <1>1, <1>5, <2>2
    <2>4. Lists(ls') = insertFreeBlock(K, [b \in DOMAIN head' |-> head'[b].size], a, Unit, LastClass)
      BY Zenon, <2>1, <2>2 DEF Inserts, Sizes
    <2> QED
      BY Zenon, <2>3, <2>4 DEF SequenceStep
  <1> QED
    BY Zenon, <1>2, <1>3, <1>4, <1>5 DEF Kept

(* Every step is a step on the sequences. *)
LEMMA NextIsSequence ==
  ASSUME AllocInv, EarlyInv, [Next]_vars
  PROVE  [SequenceStep]_vars
  <1>1. CASE atExitHandler \/ UNCHANGED vars
    BY Zenon, <1>1, QuietInv DEF SequenceStep
  <1>2. ASSUME NEW t \in Thread, Step(t) PROVE SequenceStep
    <2>1. Kept(t) \/ (Initialize(t) /\ ~AllEmpty)
      BY Zenon, <1>2, StepInv
    <2>2. Initialize(t) => AllEmpty
      BY Zenon DEF Initialize, EarlyInv
    <2> QED
      BY Zenon, <2>1, <2>2, KeptIs
  <1> QED
    BY Zenon, <1>1, <1>2 DEF Next

(* With at most one thread before the first malloc has returned, every     *)
(* change that the pointer assignments of insertFreeBlock and rmFromFreeLs *)
(* make to the doubly linked lists is the insertion or the removal of      *)
(* FreeLists, with links of both directions in agreement.                  *)
THEOREM RefinesTheorem ==
  ASSUME \A t, u \in Early : t = u
  PROVE  Spec => RefinesSequence
  <1>1. Init => AllocInv /\ EarlyInv
    BY Zenon, InitInv, EarlyInit
  <1>2. (AllocInv /\ EarlyInv) /\ [Next]_vars => (AllocInv /\ EarlyInv)'
    BY Zenon, NextInv, EarlyStep
  <1>3. (AllocInv /\ EarlyInv) /\ [Next]_vars => [SequenceStep]_vars
    BY Zenon, NextIsSequence
  <1>4. Spec => [][SequenceStep]_vars
    BY <1>1, <1>2, <1>3, PTL DEF Spec
  <1> QED
    BY <1>4 DEF RefinesSequence, SequenceStep
=============================================================================
