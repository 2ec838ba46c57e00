----------------------- MODULE ClientConnectionProofs -----------------------
(***************************************************************************)
(* One read and one write at a time, and references that are counted       *)
(* exactly, for any number of threads and requests.                        *)
(***************************************************************************)
EXTENDS ClientConnection, FiniteSetTheorems, TLAPS

-----------------------------------------------------------------------------
(* Counting *)

(* Two sets that differ in one element at most. *)
LEMMA CountChange ==
  ASSUME NEW S, IsFiniteSet(S), NEW A \in SUBSET S, NEW B \in SUBSET S, NEW w,
         \A v \in S : (v # w) => ((v \in A) <=> (v \in B))
  PROVE  /\ Cardinality(A) \in Nat /\ Cardinality(B) \in Nat
         /\ (w \in A) => (Cardinality(A) > 0)
         /\ Cardinality(B) = Cardinality(A) - One(w \in A) + One(w \in B)
  <1>1. IsFiniteSet(A) /\ IsFiniteSet(B)
    BY FS_Subset
  <1>2. Cardinality(A) \in Nat /\ Cardinality(B) \in Nat
    BY <1>1, FS_CardinalityType
  <1> USE <1>2
  <1>3. A \ {w} = B \ {w}
    OBVIOUS
  <1>4. /\ Cardinality(A \ {w}) = IF w \in A THEN Cardinality(A) - 1 ELSE Cardinality(A)
        /\ Cardinality(B \ {w}) = IF w \in B THEN Cardinality(B) - 1 ELSE Cardinality(B)
        /\ Cardinality(A \ {w}) \in Nat
    BY <1>1, FS_RemoveElement, FS_CardinalityType
  <1> USE <1>4
  <1>5. (w \in A) => (One(w \in A) = 1 /\ Cardinality(A) = Cardinality(A \ {w}) + 1)
    BY DEF One
  <1>6. (w \notin A) => (One(w \in A) = 0 /\ Cardinality(A) = Cardinality(A \ {w}))
    BY DEF One
  <1>7. (w \in B) => (One(w \in B) = 1 /\ Cardinality(B) = Cardinality(A \ {w}) + 1)
    BY <1>3 DEF One
  <1>8. (w \notin B) => (One(w \in B) = 0 /\ Cardinality(B) = Cardinality(A \ {w}))
    BY <1>3 DEF One
  <1>9. Cardinality(B) = Cardinality(A) - One(w \in A) + One(w \in B)
    BY <1>5, <1>6, <1>7, <1>8
  <1> QED
    BY <1>5, <1>9

Places(s, x) == {i \in 1..Len(s) : s[i] \in x}

LEMMA CountIs == \A s, x : Count(s, x) = Cardinality(Places(s, x))
  BY Zenon DEF Count, Places

LEMMA CountType ==
  ASSUME NEW S, NEW s \in Seq(S), NEW x
  PROVE  Count(s, x) \in Nat /\ IsFiniteSet(Places(s, x))
  <1>1. IsFiniteSet(1..Len(s))
    BY FS_Interval
  <1>2. IsFiniteSet(Places(s, x))
    BY <1>1, FS_Subset DEF Places
  <1>3. Cardinality(Places(s, x)) \in Nat
    BY <1>2, FS_CardinalityType
  <1> QED
    BY Zenon, <1>2, <1>3, CountIs

LEMMA CountAppend ==
  ASSUME NEW S, NEW s \in Seq(S), NEW y \in S, NEW x
  PROVE  Count(Append(s, y), x) = Count(s, x) + One(y \in x)
  <1>1. IsFiniteSet(Places(s, x)) /\ Count(s, x) \in Nat
    BY CountType
  <1>2. Len(s) + 1 \notin Places(s, x)
    BY DEF Places
  <1>3. CASE y \in x
    <2>1. Places(Append(s, y), x) = Places(s, x) \cup {Len(s) + 1}
      BY <1>3 DEF Places
    <2>2. Cardinality(Places(s, x) \cup {Len(s) + 1}) = Cardinality(Places(s, x)) + 1
      BY Zenon, <1>1, <1>2, FS_AddElement
    <2> QED
      BY Zenon, <1>3, <2>1, <2>2, CountIs DEF One
  <1>4. CASE y \notin x
    <2>1. Places(Append(s, y), x) = Places(s, x)
      BY <1>4 DEF Places
    <2> QED
      <3>1. Count(Append(s, y), x) = Count(s, x) /\ One(y \in x) = 0
        BY Zenon, <1>4, <2>1, CountIs DEF One
      <3> QED
        BY ONLY <1>1, <3>1
  <1> QED
    BY <1>3, <1>4

LEMMA CountTail ==
  ASSUME NEW S, NEW s \in Seq(S), s # <<>>, NEW x
  PROVE  /\ Count(Tail(s), x) = Count(s, x) - One(Head(s) \in x)
         /\ (Head(s) \in x) => (Count(s, x) > 0)
  <1> DEFINE r == Tail(s)
             T == Places(s, x) \ {1}
             f == [i \in Places(r, x) |-> i + 1]
  <1>1. r \in Seq(S) /\ Len(s) \in Nat \ {0} /\ Len(r) = Len(s) - 1
        /\ \A i \in 1..Len(r) : r[i] = s[i + 1]
    OBVIOUS
  <1>2. IsFiniteSet(Places(r, x)) /\ IsFiniteSet(Places(s, x)) /\ Count(s, x) \in Nat
    BY Zenon, <1>1, CountType
  <1>3. f \in Bijection(Places(r, x), T)
    <2>1. \A i \in Places(r, x) : i \in 1..Len(r) /\ f[i] = i + 1
      BY DEF Places
    <2>2. \A i \in Places(r, x) : f[i] \in T
      BY <1>1 DEF Places
    <2>3. \A i, j \in Places(r, x) : (f[i] = f[j]) => (i = j)
      BY <1>1, <2>1
    <2>4. \A j \in T : \E i \in Places(r, x) : f[i] = j
      <3>1. SUFFICES ASSUME NEW j \in T
                     PROVE  j - 1 \in Places(r, x) /\ f[j - 1] = j
        BY Zenon
      <3>2. j \in 2..Len(s) /\ s[j] \in x
        BY DEF Places
      <3>3. j - 1 \in 1..Len(r) /\ r[j - 1] = s[j]
        BY <1>1, <3>2
      <3>4. j - 1 \in Places(r, x)
        BY <3>2, <3>3 DEF Places
      <3> QED
        BY <3>2, <3>4
    <2> QED
      <3>1. f \in [Places(r, x) -> T]
        BY Zenon, <2>2
      <3>2. f \in Injection(Places(r, x), T)
        BY Zenon, <2>3, <3>1 DEF Injection, IsInjective
      <3>3. f \in Surjection(Places(r, x), T)
        BY Zenon, <2>4, <3>1 DEF Surjection
      <3> QED
        BY Zenon, <3>2, <3>3 DEF Bijection
  <1>4. Cardinality(T) = Cardinality(Places(r, x))
    BY <1>2, <1>3, FS_Bijection DEF ExistsBijection
  <1>5. Cardinality(T) = IF 1 \in Places(s, x) THEN Cardinality(Places(s, x)) - 1
                                               ELSE Cardinality(Places(s, x))
    BY Zenon, <1>2, FS_RemoveElement
  <1>6. (1 \in Places(s, x)) <=> (Head(s) \in x)
    BY <1>1 DEF Places
  <1>7. Count(s, x) = Cardinality(Places(s, x)) /\ Count(r, x) = Cardinality(Places(r, x))
    BY Zenon, CountIs
  <1>8. Count(r, x) \in Nat
    BY Zenon, <1>1, CountType
  <1> QED
    BY <1>2, <1>4, <1>5, <1>6, <1>7, <1>8 DEF One

-----------------------------------------------------------------------------
(* The state *)

(* Leaves are for Zenon from here on; those with BY ONLY do arithmetic. *)
USE Zenon

FirstL == {"wait_first", "schedule_first"}
WriteL == {"size", "write", "wrote", "wait_write", "schedule_write"}
ReadL == {"read", "wait_read", "schedule_read", "request", "body", "start_write"}
HeldL == {"wait_read", "schedule_read", "wait_write", "schedule_write", "connect",
          "first_read", "wait_first", "schedule_first", "notify", "release", "release_write"}
LeavingL == {"release", "close", "delete", "idle"}
ReadingL == {"acquire", "wait", "schedule"}      \* of the creator
WritingL == {"wait_write", "schedule_write"}     \* of the creator

TypeInv ==
    /\ load \in Load /\ link \in {"connecting", "up", "refused"}
    /\ pc = [w \in Actor |-> pc[w]] /\ nested \in [Actor -> BOOLEAN]
    /\ write_cb_ \in {"write", "connect"}
    /\ queue \in Seq({"read", write_cb_})
    /\ readSide \in [can : BOOLEAN, waiting : BOOLEAN]
    /\ writeSide \in [can : BOOLEAN, waiting : BOOLEAN]
    /\ edge \in BOOLEAN /\ writing_ \in BOOLEAN
    /\ refs_ \in Int
    /\ told \in {"no", "ok", "failed"}

FirstReads == At({"first_read"})
Connects == At({"connect"})
Notifies == At({"notify"})
Firsts == At(FirstL)
InWrite == At(WriteL)
Held == At(HeldL)

(* The completion of connect(): from doConnect to the end of connDone. *)
Completing == Connects + FirstReads + Firsts + Notifies

(* A worker in a doWrite that startWrite called is in it, and the program  *)
(* is in no other.                                                         *)
NestedInv ==
    /\ \A w \in Actor : nested[w] = TRUE => pc[w] \in WriteL \cup {"release_write"}
    /\ pc[User] \in WriteL \cup {"release_write"} => nested[User] = TRUE

(* The program is told once, when all of connDone is over. *)
UserInv ==
    /\ (told = "no") => (pc[User] = "connecting")
    /\ (pc[User] # "connecting" /\ pc[User] # "idle") => (told = "ok")
    /\ (told = "ok") => (write_cb_ = "write")
    /\ (told # "no") => (Completing = 0 /\ (write_cb_ = "connect" => Writers = 0))

(* The one connect that is under way, and the hand-over from it to the     *)
(* first read.                                                             *)
ConnectInv ==
    (write_cb_ = "connect") =>
      /\ Readers + FirstReads = 0
      /\ Writers + Completing <= 1
      /\ InWrite = 0
      /\ (link # "refused") => (Notifies = 0)
      /\ side = "client" /\ creator # "accept"

flag == IF writing_ THEN "set" ELSE "clear"

(* Nothing has ended the reading. *)
reading == IF peer = "open" /\ parse = "ok" THEN "on" ELSE "over"

(* The read and the write that are under way. *)
TrafficInv ==
    (write_cb_ = "write") =>
      /\ Readers + FirstReads <= 1
      /\ Writers <= 1
      /\ (flag = "clear") => (Writers = 0)
      /\ Connects = 0 /\ Completing <= 1
      /\ creator \notin {"async_connect", "connect"}
      /\ (side = "server") => (Completing = 0 /\ told = "no")
      /\ (side = "client" /\ reading = "on") => (Readers + FirstReads > 0)

(* Before the Descriptor is registered. *)
CreatorInv ==
    /\ (creator = "accept") => (Readers + FirstReads = 0)
    /\ (creator \in {"async_connect", "connect"}) => (Writers + Completing = 0 /\ told = "no")
    /\ (creator \in {"accept", "acquire"}) => (side = "server")

(* No event of a socket that is not connected. *)
LinkInv ==
    (link = "connecting") =>
      /\ write_cb_ = "connect" /\ peer = "open"
      /\ "write" \notin batch /\ writeSide.can = FALSE /\ poller # "push_write"
      /\ creator # "schedule_write"
      /\ Count(queue, {"write", "connect"}) = 0 /\ Connects = 0

TokenInv == TypeInv /\ NestedInv /\ UserInv /\ ConnectInv /\ TrafficInv /\ CreatorInv /\ LinkInv

(* The reference of the program. *)
UserRef == One(~load.blocking /\ told = "ok" /\ pc[User] \notin LeavingL)

Early == {"accept", "acquire", "async_connect", "connect"}

(* Nobody but the last reference closes, and nothing is left to do then. *)
RefsInv ==
    /\ refs_ = Readers + Writers - One(creator = "acquire") + Held + UserRef
    /\ (creator \in Early) => (refs_ = 0)
    /\ \A w \in Actor : (pc[w] \in {"close", "delete"}) => (refs_ = 0 /\ creator \notin Early)
    /\ \A w \in Actor : (pc[w] = "delete") => (fd = "closed")
    /\ (fd = "closed") => (refs_ = 0 /\ creator \notin Early)
    /\ (descr \in {"garbage", "freed"}) => (fd = "closed")
    /\ edge = TRUE => (fd = "open")
    /\ (descr = "freed") => (batch = {})

(* A blocking connect() hands out the connection without a reference to    *)
(* it: it lasts as long as its read does.                                  *)
Kept == (side = "client" /\ load.blocking) => (reading = "on")

ConnectionInv == TokenInv /\ (Kept => RefsInv)

-----------------------------------------------------------------------------
LEMMA Actors ==
  /\ IsFiniteSet(Actor) /\ IsFiniteSet(Worker)
  /\ Worker \subseteq Actor /\ User \in Actor /\ User \notin Worker
  /\ \A w \in Actor : w \in Worker \/ w = User
  <1> DEFINE S == {l.workers : l \in Load}
  <1>1. S \subseteq Nat /\ \E x \in S : \A y \in S : x >= y
    BY ONLY LoadAssumption
  <1>2. Max(S) \in S
    BY ONLY <1>1 DEF Max
  <1>3. MaxWorkers \in Nat
    BY ONLY <1>1, <1>2 DEF MaxWorkers
  <1>4. IsFiniteSet(Worker)
    BY ONLY <1>3, FS_Interval DEF Worker
  <1>5. IsFiniteSet(Worker \cup {User})
    BY ONLY <1>4, FS_AddElement
  <1>6. User \notin Worker
    BY ONLY <1>3 DEF User, Worker
  <1> QED
    BY <1>4, <1>5, <1>6 DEF Actor

(* What one actor's move does to the counts. *)
LEMMA Moves ==
  ASSUME TypeInv, NEW w \in Actor, NEW b, pc' = [pc EXCEPT ![w] = b]
  PROVE  /\ pc'[w] = b /\ \A v \in Actor : (v # w) => (pc'[v] = pc[v])
         /\ \A L : /\ At(L) \in Nat /\ At(L)' \in Nat
                   /\ (pc[w] \in L) => (At(L) > 0)
                   /\ At(L)' = At(L) - One(pc[w] \in L) + One(b \in L)
  <1>1. pc'[w] = b /\ \A v \in Actor : (v # w) => (pc'[v] = pc[v])
    BY DEF TypeInv
  <1>2. ASSUME NEW L
        PROVE  /\ At(L) \in Nat /\ At(L)' \in Nat
               /\ (pc[w] \in L) => (At(L) > 0)
               /\ At(L)' = At(L) - One(pc[w] \in L) + One(b \in L)
    <2>1. PICK A \in SUBSET Actor : A = {v \in Actor : pc[v] \in L}
      OBVIOUS
    <2>2. PICK B \in SUBSET Actor : B = {v \in Actor : pc'[v] \in L}
      OBVIOUS
    <2>3. \A v \in Actor : (v # w) => ((v \in A) <=> (v \in B))
      BY <1>1, <2>1, <2>2
    <2>4. /\ Cardinality(A) \in Nat /\ Cardinality(B) \in Nat
          /\ (w \in A) => (Cardinality(A) > 0)
          /\ Cardinality(B) = Cardinality(A) - One(w \in A) + One(w \in B)
      <3>1. IsFiniteSet(Actor)
        BY Actors
      <3> QED
        BY ONLY <2>3, <3>1, A \in SUBSET Actor, B \in SUBSET Actor, CountChange
    <2>5. ((w \in A) <=> (pc[w] \in L)) /\ ((w \in B) <=> (b \in L))
      BY <1>1, <2>1, <2>2
    <2>6. One(w \in A) = One(pc[w] \in L) /\ One(w \in B) = One(b \in L)
      BY <2>5 DEF One
    <2>7. At(L) = Cardinality(A) /\ At(L)' = Cardinality(B)
      BY <2>1, <2>2 DEF At
    <2> QED
      BY <2>4, <2>5, <2>6, <2>7
  <1> QED
    BY <1>1, <1>2

(* Is a worker inside of doRead? *)
Reads(w) == w \in Worker /\ (nested[w] \/ pc[w] \in ReadL)

LEMMA ReadMoves ==
  ASSUME TypeInv, NEW w \in Actor,
         \A v \in Actor : (v # w) => (pc'[v] = pc[v] /\ nested'[v] = nested[v])
  PROVE  /\ InRead \in Nat /\ InRead' \in Nat
         /\ Reads(w) => (InRead > 0)
         /\ InRead' = InRead - One(Reads(w)) + One(Reads(w)')
  <1>1. PICK A \in SUBSET Worker : A = {v \in Worker : nested[v] \/ pc[v] \in ReadL}
    OBVIOUS
  <1>2. PICK B \in SUBSET Worker : B = {v \in Worker : nested'[v] \/ pc'[v] \in ReadL}
    OBVIOUS
  <1>3. \A v \in Worker : (v # w) => ((v \in A) <=> (v \in B))
    <2>1. \A v \in Worker : (v # w) => (pc'[v] = pc[v] /\ (nested'[v] <=> nested[v]))
      BY SMT, Actors
    <2> QED
      BY <1>1, <1>2, <2>1
  <1>4. /\ Cardinality(A) \in Nat /\ Cardinality(B) \in Nat
        /\ (w \in A) => (Cardinality(A) > 0)
        /\ Cardinality(B) = Cardinality(A) - One(w \in A) + One(w \in B)
    <2>1. IsFiniteSet(Worker)
      BY Actors
    <2> QED
      BY ONLY <1>3, <2>1, A \in SUBSET Worker, B \in SUBSET Worker, CountChange
  <1>5. ((w \in A) <=> Reads(w)) /\ ((w \in B) <=> Reads(w)')
    BY <1>1, <1>2 DEF Reads
  <1>6. One(w \in A) = One(Reads(w)) /\ One(w \in B) = One(Reads(w)')
    BY <1>5 DEF One
  <1>7. InRead = Cardinality(A) /\ InRead' = Cardinality(B)
    BY <1>1, <1>2 DEF InRead, ReadL
  <1> QED
    BY <1>4, <1>5, <1>6, <1>7

(* The parts of Readers and Writers. *)
Waiting(d) == One(d.waiting)
CreatorReads == One(creator \in ReadingL)
CreatorWrites == One(creator \in WritingL)
PollerReads == One(poller = "push_read")
PollerWrites == One(poller = "push_write")
QueuedReads == Count(queue, {"read"})
QueuedWrites == Count(queue, {"write", "connect"})

LEMMA Parts ==
  /\ Readers = CreatorReads + Firsts + Waiting(readSide) + PollerReads + QueuedReads + InRead
  /\ Writers = CreatorWrites + Waiting(writeSide) + PollerWrites + QueuedWrites + InWrite
  /\ Completing = Connects + FirstReads + Firsts + Notifies
  BY DEF Completing, Readers, Writers, CreatorReads, CreatorWrites, Waiting, PollerReads, PollerWrites,
     QueuedReads, QueuedWrites, Firsts, InWrite, FirstL, WriteL, ReadingL, WritingL

LEMMA OneType == \A b : One(b) \in {0, 1}
  BY ONLY DEF One

LEMMA AtType ==
  ASSUME TypeInv
  PROVE  /\ \A L : At(L) \in Nat
         /\ InRead \in Nat
         /\ \A w \in Actor : \A L : (pc[w] \in L) => (At(L) > 0)
         /\ \A w \in Actor : Reads(w) => (InRead > 0)
  <1>1. ASSUME NEW w \in Actor, NEW L
        PROVE  At(L) \in Nat /\ ((pc[w] \in L) => (At(L) > 0))
    <2>1. PICK A \in SUBSET Actor : A = {v \in Actor : pc[v] \in L}
      OBVIOUS
    <2>2. IsFiniteSet(Actor)
      BY Actors
    <2>3. Cardinality(A) \in Nat /\ ((w \in A) => (Cardinality(A) > 0))
      BY ONLY <2>2, A \in SUBSET Actor, CountChange
    <2> QED
      BY <2>1, <2>3 DEF At
  <1>2. ASSUME NEW w \in Actor
        PROVE  InRead \in Nat /\ (Reads(w) => (InRead > 0))
    <2>1. PICK A \in SUBSET Worker : A = {v \in Worker : nested[v] \/ pc[v] \in ReadL}
      OBVIOUS
    <2>2. IsFiniteSet(Worker)
      BY Actors
    <2>3. Cardinality(A) \in Nat /\ ((w \in A) => (Cardinality(A) > 0))
      BY ONLY <2>2, A \in SUBSET Worker, CountChange
    <2>4. InRead = Cardinality(A) /\ (Reads(w) => (w \in A))
      BY <2>1 DEF InRead, ReadL, Reads
    <2> QED
      BY <2>3, <2>4
  <1>3. User \in Actor
    BY Actors
  <1> QED
    BY <1>1, <1>2, <1>3

(* All of them are natural numbers. *)
Counts ==
    /\ FirstReads \in Nat /\ Connects \in Nat /\ Notifies \in Nat /\ Firsts \in Nat
    /\ InWrite \in Nat /\ Held \in Nat /\ InRead \in Nat
    /\ CreatorReads \in {0, 1} /\ CreatorWrites \in {0, 1}
    /\ Waiting(readSide) \in {0, 1} /\ Waiting(writeSide) \in {0, 1}
    /\ PollerReads \in {0, 1} /\ PollerWrites \in {0, 1}
    /\ QueuedReads \in Nat /\ QueuedWrites \in Nat
    /\ Readers \in Nat /\ Writers \in Nat /\ Completing \in Nat
    /\ UserRef \in {0, 1} /\ One(creator = "acquire") \in {0, 1}

LEMMA Numbers == TypeInv => Counts
  <1> HAVE TypeInv
  <1>1. /\ FirstReads \in Nat /\ Connects \in Nat /\ Notifies \in Nat /\ Firsts \in Nat
        /\ InWrite \in Nat /\ Held \in Nat /\ InRead \in Nat
    BY AtType DEF FirstReads, Connects, Notifies, Firsts, InWrite, Held
  <1>2. /\ CreatorReads \in {0, 1} /\ CreatorWrites \in {0, 1}
        /\ Waiting(readSide) \in {0, 1} /\ Waiting(writeSide) \in {0, 1}
        /\ PollerReads \in {0, 1} /\ PollerWrites \in {0, 1}
        /\ UserRef \in {0, 1} /\ One(creator = "acquire") \in {0, 1}
    BY OneType DEF CreatorReads, CreatorWrites, Waiting, PollerReads, PollerWrites, UserRef
  <1>3. QueuedReads \in Nat /\ QueuedWrites \in Nat
    BY CountType DEF TypeInv, QueuedReads, QueuedWrites
  <1>4. Readers \in Nat /\ Writers \in Nat
    BY ONLY <1>1, <1>2, <1>3, Parts
  <1>5. Completing \in Nat
    BY ONLY <1>1 DEF Completing
  <1> QED
    BY <1>1, <1>2, <1>3, <1>4, <1>5 DEF Counts

LEMMA NextNumbers == TypeInv' => Counts'
  BY ONLY Numbers, PTL

LEMMA NextParts ==
  /\ Readers' = CreatorReads' + Firsts' + Waiting(readSide)' + PollerReads' + QueuedReads' + InRead'
  /\ Writers' = CreatorWrites' + Waiting(writeSide)' + PollerWrites' + QueuedWrites' + InWrite'
  /\ Completing' = Connects' + FirstReads' + Firsts' + Notifies'
  BY DEF Readers, Writers, CreatorReads, CreatorWrites, Waiting, PollerReads, PollerWrites,
     QueuedReads, QueuedWrites, Firsts, InWrite, FirstL, WriteL, ReadingL, WritingL, Completing

(* Arithmetic, for a prover that knows none. *)
LEMMA PlusMinus ==
  \A n \in Int : n - 0 + 0 = n /\ n - 1 + 1 = n /\ n - 1 + 0 = n - 1 /\ n - 0 + 1 = n + 1
  BY ONLY SMT

(* The labels that an actor leaves and comes to. *)
LEMMA AtMoves ==
  ASSUME TypeInv, NEW w \in Actor, NEW b, pc' = [pc EXCEPT ![w] = b]
  PROVE  /\ pc' = [v \in Actor |-> pc'[v]]
         /\ pc'[w] = b /\ \A v \in Actor : (v # w) => (pc'[v] = pc[v])
         /\ \A L : ((pc[w] \in L) <=> (b \in L)) => (At(L)' = At(L))
         /\ \A L : (pc[w] \in L /\ b \notin L) => (At(L)' = At(L) - 1)
         /\ \A L : (pc[w] \notin L /\ b \in L) => (At(L)' = At(L) + 1)
  <1>1. \A L : At(L) \in Int /\ At(L)' = At(L) - One(pc[w] \in L) + One(b \in L)
    <2>1. \A L : At(L) \in Nat /\ At(L)' = At(L) - One(pc[w] \in L) + One(b \in L)
      BY Moves
    <2>2. \A n \in Nat : n \in Int
      BY ONLY SMT
    <2> QED
      BY <2>1, <2>2
  <1>2. pc' = [v \in Actor |-> pc'[v]]
    BY DEF TypeInv
  <1>3. ASSUME NEW L
        PROVE  /\ ((pc[w] \in L) <=> (b \in L)) => (At(L)' = At(L))
               /\ (pc[w] \in L /\ b \notin L) => (At(L)' = At(L) - 1)
               /\ (pc[w] \notin L /\ b \in L) => (At(L)' = At(L) + 1)
    <2>1. /\ (pc[w] \in L) => One(pc[w] \in L) = 1
          /\ (pc[w] \notin L) => One(pc[w] \in L) = 0
          /\ (b \in L) => One(b \in L) = 1
          /\ (b \notin L) => One(b \in L) = 0
      BY DEF One
    <2>2. At(L) \in Int /\ At(L)' = At(L) - One(pc[w] \in L) + One(b \in L)
      BY <1>1
    <2> QED
      BY <2>1, <2>2, PlusMinus
  <1> QED
    BY <1>2, <1>3, Moves

LEMMA WriteMoves ==
  ASSUME TypeInv, NEW w \in Actor, NEW b, pc' = [pc EXCEPT ![w] = b]
  PROVE  /\ ((pc[w] \in WriteL) <=> (b \in WriteL)) => (InWrite' = InWrite)
         /\ (pc[w] \in WriteL /\ b \notin WriteL) => (InWrite' = InWrite - 1)
         /\ (pc[w] \notin WriteL /\ b \in WriteL) => (InWrite' = InWrite + 1)
         /\ ((pc[w] \in HeldL) <=> (b \in HeldL)) => (Held' = Held)
         /\ (pc[w] \in HeldL /\ b \notin HeldL) => (Held' = Held - 1)
         /\ (pc[w] \notin HeldL /\ b \in HeldL) => (Held' = Held + 1)
  BY AtMoves DEF InWrite, Held

LEMMA LabelMoves ==
  ASSUME TypeInv, NEW w \in Actor, NEW b, pc' = [pc EXCEPT ![w] = b]
  PROVE  /\ ((pc[w] = "connect") <=> (b = "connect")) => (Connects' = Connects)
         /\ (pc[w] = "connect" /\ b # "connect") => (Connects' = Connects - 1 /\ Connects > 0)
         /\ (pc[w] # "connect" /\ b = "connect") => (Connects' = Connects + 1)
         /\ ((pc[w] = "first_read") <=> (b = "first_read")) => (FirstReads' = FirstReads)
         /\ (pc[w] = "first_read" /\ b # "first_read") => (FirstReads' = FirstReads - 1 /\ FirstReads > 0)
         /\ (pc[w] # "first_read" /\ b = "first_read") => (FirstReads' = FirstReads + 1)
         /\ ((pc[w] = "notify") <=> (b = "notify")) => (Notifies' = Notifies)
         /\ (pc[w] = "notify" /\ b # "notify") => (Notifies' = Notifies - 1 /\ Notifies > 0)
         /\ (pc[w] # "notify" /\ b = "notify") => (Notifies' = Notifies + 1)
         /\ ((pc[w] \in FirstL) <=> (b \in FirstL)) => (Firsts' = Firsts)
         /\ (pc[w] \in FirstL /\ b \notin FirstL) => (Firsts' = Firsts - 1)
         /\ (pc[w] \notin FirstL /\ b \in FirstL) => (Firsts' = Firsts + 1)
         /\ (pc[w] \in FirstL) => (Firsts > 0)
  <1>1. ASSUME NEW x
        PROVE  /\ ((pc[w] = x) <=> (b = x)) => (At({x})' = At({x}))
               /\ (pc[w] = x /\ b # x) => (At({x})' = At({x}) - 1 /\ At({x}) > 0)
               /\ (pc[w] # x /\ b = x) => (At({x})' = At({x}) + 1)
    <2>1. ((pc[w] \in {x}) <=> (pc[w] = x)) /\ ((b \in {x}) <=> (b = x))
      OBVIOUS
    <2> QED
      BY <2>1, AtMoves, AtType
  <1>2. /\ ((pc[w] \in FirstL) <=> (b \in FirstL)) => (At(FirstL)' = At(FirstL))
        /\ (pc[w] \in FirstL /\ b \notin FirstL) => (At(FirstL)' = At(FirstL) - 1)
        /\ (pc[w] \notin FirstL /\ b \in FirstL) => (At(FirstL)' = At(FirstL) + 1)
        /\ (pc[w] \in FirstL) => (At(FirstL) > 0)
    BY AtMoves, AtType
  <1>3. /\ Connects = At({"connect"}) /\ Connects' = At({"connect"})'
        /\ FirstReads = At({"first_read"}) /\ FirstReads' = At({"first_read"})'
        /\ Notifies = At({"notify"}) /\ Notifies' = At({"notify"})'
        /\ Firsts = At(FirstL) /\ Firsts' = At(FirstL)'
    BY DEF Connects, FirstReads, Notifies, Firsts
  <1> USE <1>3
  <1>4. /\ ((pc[w] = "connect") <=> (b = "connect")) => (Connects' = Connects)
        /\ (pc[w] = "connect" /\ b # "connect") => (Connects' = Connects - 1 /\ Connects > 0)
        /\ (pc[w] # "connect" /\ b = "connect") => (Connects' = Connects + 1)
    BY <1>1
  <1>5. /\ ((pc[w] = "first_read") <=> (b = "first_read")) => (FirstReads' = FirstReads)
        /\ (pc[w] = "first_read" /\ b # "first_read") => (FirstReads' = FirstReads - 1 /\ FirstReads > 0)
        /\ (pc[w] # "first_read" /\ b = "first_read") => (FirstReads' = FirstReads + 1)
    BY <1>1
  <1>6. /\ ((pc[w] = "notify") <=> (b = "notify")) => (Notifies' = Notifies)
        /\ (pc[w] = "notify" /\ b # "notify") => (Notifies' = Notifies - 1 /\ Notifies > 0)
        /\ (pc[w] # "notify" /\ b = "notify") => (Notifies' = Notifies + 1)
    BY <1>1
  <1>7. /\ ((pc[w] \in FirstL) <=> (b \in FirstL)) => (Firsts' = Firsts)
        /\ (pc[w] \in FirstL /\ b \notin FirstL) => (Firsts' = Firsts - 1)
        /\ (pc[w] \notin FirstL /\ b \in FirstL) => (Firsts' = Firsts + 1)
        /\ (pc[w] \in FirstL) => (Firsts > 0)
    BY <1>2
  <1> QED
    BY <1>4, <1>5, <1>6, <1>7

LEMMA InReadMoves ==
  ASSUME TypeInv, NEW w \in Actor,
         \A v \in Actor : (v # w) => (pc'[v] = pc[v] /\ nested'[v] = nested[v])
  PROVE  /\ (Reads(w) <=> Reads(w)') => (InRead' = InRead)
         /\ (Reads(w) /\ ~Reads(w)') => (InRead' = InRead - 1)
         /\ (~Reads(w) /\ Reads(w)') => (InRead' = InRead + 1)
  <1>1. InRead \in Nat /\ InRead' = InRead - One(Reads(w)) + One(Reads(w)')
    BY ReadMoves
  <1>2. InRead \in Int
    BY ONLY <1>1
  <1>3. /\ Reads(w) => One(Reads(w)) = 1
        /\ ~Reads(w) => One(Reads(w)) = 0
        /\ Reads(w)' => One(Reads(w)') = 1
        /\ ~Reads(w)' => One(Reads(w)') = 0
    BY DEF One
  <1> QED
    BY <1>1, <1>2, <1>3, PlusMinus

CompletingL == {"connect", "first_read", "notify", "wait_first", "schedule_first"}

(* A step that has nothing to do with the completion of connect(). *)
LEMMA NotCompleting ==
  ASSUME TypeInv, NEW w \in Actor, NEW b, pc' = [pc EXCEPT ![w] = b],
         pc[w] \notin CompletingL, b \notin CompletingL
  PROVE  /\ FirstReads' = FirstReads /\ Connects' = Connects /\ Notifies' = Notifies
         /\ Firsts' = Firsts /\ Completing' = Completing
  <1>1. \A L : (L \subseteq CompletingL) => (At(L)' = At(L))
    BY AtMoves
  <1>2. /\ {"connect"} \subseteq CompletingL /\ {"first_read"} \subseteq CompletingL
        /\ {"notify"} \subseteq CompletingL /\ FirstL \subseteq CompletingL
    BY DEF CompletingL, FirstL
  <1>3. /\ At({"connect"})' = At({"connect"}) /\ At({"first_read"})' = At({"first_read"})
        /\ At({"notify"})' = At({"notify"}) /\ At(FirstL)' = At(FirstL)
    BY <1>1, <1>2
  <1>4. /\ FirstReads' = FirstReads /\ Connects' = Connects /\ Notifies' = Notifies
        /\ Firsts' = Firsts
    BY <1>3 DEF FirstReads, Connects, Notifies, Firsts
  <1> QED
    BY <1>4, Parts, NextParts

(* Is a worker in doRead before and after a step? *)
LEMMA ReadsMoves ==
  ASSUME TypeInv, NestedInv, NEW w \in Actor, NEW b, pc' = [pc EXCEPT ![w] = b], nested' = nested
  PROVE  /\ w \notin Worker => InRead' = InRead
         /\ ((pc[w] \in ReadL) <=> (b \in ReadL)) => InRead' = InRead
         /\ (w \in Worker /\ pc[w] \in ReadL /\ b \notin ReadL) => InRead' = InRead - 1
         /\ (w \in Worker /\ pc[w] = "idle" /\ b \in ReadL) => InRead' = InRead + 1
  <1>1. \A v \in Actor : (v # w) => (pc'[v] = pc[v] /\ nested'[v] = nested[v])
    BY AtMoves
  <1>2. pc'[w] = b /\ (nested'[w] <=> nested[w])
    BY AtMoves
  <1>3. w \notin Worker => ~Reads(w) /\ ~Reads(w)'
    BY DEF Reads
  <1>4. ((pc[w] \in ReadL) <=> (b \in ReadL)) => (Reads(w) <=> Reads(w)')
    BY <1>2 DEF Reads
  <1>5. ASSUME w \in Worker, pc[w] \in ReadL, b \notin ReadL
        PROVE  Reads(w) /\ ~Reads(w)'
    <2>1. pc[w] \notin WriteL \cup {"release_write"}
      BY <1>5 DEF ReadL, WriteL
    <2>2. ~nested[w]
      BY SMT, <2>1 DEF NestedInv, TypeInv
    <2> QED
      BY <1>2, <1>5, <2>2 DEF Reads
  <1>6. ASSUME w \in Worker, pc[w] = "idle", b \in ReadL
        PROVE  ~Reads(w) /\ Reads(w)'
    <2>1. pc[w] \notin WriteL \cup {"release_write"} /\ pc[w] \notin ReadL
      BY <1>6 DEF ReadL, WriteL
    <2>2. ~nested[w]
      BY SMT, <2>1 DEF NestedInv, TypeInv
    <2> QED
      BY <1>2, <1>6, <2>1, <2>2 DEF Reads
  <1> QED
    BY <1>1, <1>3, <1>4, <1>5, <1>6, InReadMoves

LEMMA SideFacts ==
  ASSUME NEW d \in [can : BOOLEAN, waiting : BOOLEAN]
  PROVE  /\ WhenReady(d) \in [can : BOOLEAN, waiting : BOOLEAN]
         /\ IfWaiting(d) \in [can : BOOLEAN, waiting : BOOLEAN]
         /\ RunsNow(d) => (Waiting(WhenReady(d)) = Waiting(d))
         /\ ~RunsNow(d) => (Waiting(WhenReady(d)) = 1)
         /\ WhenReady(d).can = FALSE /\ ((d.can = FALSE) => ~RunsNow(d))
         /\ Schedules(d) => (Waiting(d) = 1 /\ Waiting(IfWaiting(d)) = 0)
         /\ ~Schedules(d) => (Waiting(IfWaiting(d)) = Waiting(d))
  <1>1. ASSUME d.can = TRUE
        PROVE  RunsNow(d) /\ WhenReady(d) = [d EXCEPT !.can = FALSE]
    BY <1>1 DEF RunsNow, WhenReady
  <1>2. ASSUME d.can = FALSE
        PROVE  ~RunsNow(d) /\ WhenReady(d) = [d EXCEPT !.waiting = TRUE]
    BY <1>2 DEF RunsNow, WhenReady
  <1>3. ASSUME d.waiting = TRUE
        PROVE  Schedules(d) /\ IfWaiting(d) = [d EXCEPT !.waiting = FALSE]
    BY <1>3 DEF Schedules, IfWaiting
  <1>4. ASSUME d.waiting = FALSE
        PROVE  ~Schedules(d) /\ IfWaiting(d) = [d EXCEPT !.can = TRUE]
    BY <1>4 DEF Schedules, IfWaiting
  <1>5. d.can \in BOOLEAN /\ d.waiting \in BOOLEAN
    BY ONLY SMT
  <1>6. /\ (d.can = TRUE) => (WhenReady(d).waiting = d.waiting)
        /\ (d.can = FALSE) => (WhenReady(d).waiting = TRUE)
        /\ WhenReady(d) \in [can : BOOLEAN, waiting : BOOLEAN] /\ WhenReady(d).can = FALSE
    BY ONLY Zenon, <1>1, <1>2, d \in [can : BOOLEAN, waiting : BOOLEAN]
  <1>7. /\ (d.waiting = TRUE) => (IfWaiting(d).waiting = FALSE)
        /\ (d.waiting = FALSE) => (IfWaiting(d).waiting = d.waiting)
        /\ IfWaiting(d) \in [can : BOOLEAN, waiting : BOOLEAN]
    BY ONLY Zenon, <1>3, <1>4, d \in [can : BOOLEAN, waiting : BOOLEAN]
  <1> QED
    BY <1>1, <1>2, <1>3, <1>4, <1>5, <1>6, <1>7 DEF Waiting, One

-----------------------------------------------------------------------------
(* Steps that pass a read, a write or the completion of connect() on, or   *)
(* end it, and start none.                                                 *)
Progress ==
    /\ load' = load /\ write_cb_' = write_cb_ /\ told' = told
    /\ (link' # "refused") => (link # "refused")
    /\ (reading' = "on") => (reading = "on")
    /\ (creator' = "accept") => (creator = "accept")
    /\ (creator' \in {"async_connect", "connect"}) => (creator \in {"async_connect", "connect"})
    /\ (creator' = "acquire") => (creator = "acquire" \/ side = "server")
    /\ Readers' + FirstReads' <= Readers + FirstReads
    /\ (side = "client" /\ reading' = "on") => (Readers' + FirstReads' = Readers + FirstReads)
    /\ Writers' <= Writers
    /\ Writers' + Completing' <= Writers + Completing
    /\ (write_cb_ = "write") => (Completing' <= Completing /\ Connects' <= Connects)
    /\ (write_cb_ = "connect") => (InWrite' <= InWrite /\ Notifies' <= Notifies)
    /\ (flag' = "clear") => (flag = "clear" \/ Writers' = 0)

LEMMA ProgressInv ==
  ASSUME TypeInv, TypeInv', ConnectInv, TrafficInv, CreatorInv, Progress,
         (told # "no") => (Completing = 0 /\ (write_cb_ = "connect" => Writers = 0))
  PROVE  /\ ConnectInv' /\ TrafficInv' /\ CreatorInv'
         /\ (told' # "no") => (Completing' = 0 /\ (write_cb_' = "connect" => Writers' = 0))
  <1>1. PICK R \in Nat, F \in Nat, C \in Nat, N \in Nat, I \in Nat, W \in Nat, K \in Nat :
          /\ R = Readers /\ F = FirstReads /\ C = Connects /\ N = Notifies
          /\ I = InWrite /\ W = Writers /\ K = Completing
    BY Numbers DEF Counts
  <1> USE <1>1
  <1>2. PICK r \in Nat, f \in Nat, c \in Nat, n \in Nat, i \in Nat, w \in Nat, k \in Nat :
          /\ r = Readers' /\ f = FirstReads' /\ c = Connects' /\ n = Notifies'
          /\ i = InWrite' /\ w = Writers' /\ k = Completing'
    BY NextNumbers DEF Counts
  <1> USE <1>2
  <1>3. write_cb_ \in {"write", "connect"} /\ write_cb_' = write_cb_ /\ told' = told /\ side' = side
    BY DEF TypeInv, Progress, side
  <1> USE <1>3
  <1>4. /\ r + f <= R + F /\ w <= W /\ w + k <= W + K
        /\ (write_cb_ = "write") => (k <= K /\ c <= C)
        /\ (write_cb_ = "connect") => (i <= I /\ n <= N)
        /\ (flag' = "clear") => (flag = "clear" \/ w = 0)
    BY DEF Progress
  <1>5. /\ (side = "client" /\ reading' = "on") => (reading = "on" /\ r + f = R + F)
        /\ (creator' = "accept") => (creator = "accept")
        /\ (creator' \in {"async_connect", "connect"}) => (creator \in {"async_connect", "connect"})
        /\ (creator' = "acquire") => (creator = "acquire" \/ side = "server")
        /\ (link' # "refused") => (link # "refused")
    BY DEF Progress
  <1> USE <1>5
  <1>6. ConnectInv'
    <2>1. (write_cb_ = "connect") =>
            /\ R + F = 0 /\ W + K <= 1 /\ I = 0
            /\ (link # "refused") => (N = 0)
            /\ side = "client" /\ creator # "accept"
      BY DEF ConnectInv
    <2>2. (write_cb_ = "connect") =>
            /\ r + f = 0 /\ w + k <= 1 /\ i = 0
            /\ (link # "refused") => (n = 0)
      BY ONLY <1>4, <2>1
    <2>3. (write_cb_ = "connect") => ((link' # "refused") => n = 0)
      BY <2>2
    <2>4. (write_cb_ = "connect") => (side' = "client" /\ creator' # "accept")
      BY <2>1
    <2> QED
      BY <2>2, <2>3, <2>4 DEF ConnectInv
  <1>7. TrafficInv'
    <2>1. (write_cb_ = "write") =>
            /\ R + F <= 1 /\ W <= 1
            /\ (flag = "clear") => (W = 0)
            /\ C = 0 /\ K <= 1
            /\ creator \notin {"async_connect", "connect"}
            /\ (side = "server") => (K = 0 /\ told = "no")
            /\ (side = "client" /\ reading = "on") => (R + F > 0)
      BY DEF TrafficInv
    <2>2. (write_cb_ = "write") =>
            /\ r + f <= 1 /\ w <= 1
            /\ (flag = "clear") => (w = 0)
            /\ c = 0 /\ k <= 1
            /\ (side = "server") => (k = 0 /\ told = "no")
      BY ONLY <1>4, <2>1
    <2>3. (write_cb_ = "write") =>
            /\ (flag' = "clear") => (w = 0)
            /\ creator' \notin {"async_connect", "connect"}
            /\ (side = "client" /\ reading' = "on") => (r + f > 0)
      BY <1>4, <2>1, <2>2
    <2> QED
      BY <2>2, <2>3 DEF TrafficInv
  <1>8. CreatorInv'
    <2>1. /\ (creator = "accept") => (R + F = 0)
          /\ (creator \in {"async_connect", "connect"}) => (W + K = 0 /\ told = "no")
      BY DEF CreatorInv
    <2>2. /\ (creator = "accept") => (r + f = 0)
          /\ (creator \in {"async_connect", "connect"}) => (w + k = 0 /\ told = "no")
      BY ONLY <1>4, <2>1
    <2>3. (creator' \in {"accept", "acquire"}) => (side = "server")
      BY DEF CreatorInv
    <2> QED
      BY <2>2, <2>3 DEF CreatorInv
  <1>9. (told' # "no") => (Completing' = 0 /\ (write_cb_' = "connect" => Writers' = 0))
    <2>1. (told # "no") => (K = 0 /\ (write_cb_ = "connect" => W = 0))
      OBVIOUS
    <2>2. (told # "no") => (k = 0 /\ (write_cb_ = "connect" => w = 0))
      BY ONLY <1>3, <1>4, <2>1
    <2> QED
      BY <2>2
  <1> QED
    BY <1>6, <1>7, <1>8, <1>9

-----------------------------------------------------------------------------
(* How a read, or a write, is passed on *)

ReadSum(a, b, c, d, e, f) == a + b + c + d + e + f
WriteSum(a, c, d, e, f) == a + c + d + e + f

LEMMA Sums ==
  /\ Readers = ReadSum(CreatorReads, Firsts, Waiting(readSide), PollerReads, QueuedReads, InRead)
  /\ Readers' = ReadSum(CreatorReads', Firsts', Waiting(readSide)', PollerReads', QueuedReads', InRead')
  /\ Writers = WriteSum(CreatorWrites, Waiting(writeSide), PollerWrites, QueuedWrites, InWrite)
  /\ Writers' = WriteSum(CreatorWrites', Waiting(writeSide)', PollerWrites', QueuedWrites', InWrite')
  BY Parts, NextParts DEF ReadSum, WriteSum

LEMMA PartsFrame ==
  /\ (creator' = creator) => /\ CreatorReads' = CreatorReads /\ CreatorWrites' = CreatorWrites
                             /\ One(creator = "acquire")' = One(creator = "acquire")
  /\ (readSide' = readSide) => (Waiting(readSide)' = Waiting(readSide))
  /\ (writeSide' = writeSide) => (Waiting(writeSide)' = Waiting(writeSide))
  /\ (poller' = poller) => (PollerReads' = PollerReads /\ PollerWrites' = PollerWrites)
  /\ (queue' = queue) => (QueuedReads' = QueuedReads /\ QueuedWrites' = QueuedWrites)
  BY DEF CreatorReads, CreatorWrites, Waiting, PollerReads, PollerWrites, QueuedReads, QueuedWrites

(* The queue of the worker pool. *)
LEMMA QueueRead ==
  ASSUME TypeInv, queue' = Append(queue, "read")
  PROVE  /\ queue' \in Seq({"read", write_cb_})
         /\ QueuedReads' = QueuedReads + 1 /\ QueuedWrites' = QueuedWrites
  <1>1. \A S, q, x : (q \in Seq(S) /\ x \in S) => Append(q, x) \in Seq(S)
    BY ONLY SMT
  <1>2. queue \in Seq({"read", write_cb_})
    BY DEF TypeInv
  <1>3. queue' \in Seq({"read", write_cb_})
    BY <1>1, <1>2
  <1>4. /\ Count(Append(queue, "read"), {"read"}) = Count(queue, {"read"}) + One("read" \in {"read"})
        /\ Count(Append(queue, "read"), {"write", "connect"})
             = Count(queue, {"write", "connect"}) + One("read" \in {"write", "connect"})
    <2>1. \A x : Count(Append(queue, "read"), x) = Count(queue, x) + One("read" \in x)
      BY <1>2, CountAppend
    <2> QED
      BY <2>1
  <1>5. One("read" \in {"read"}) = 1 /\ One("read" \in {"write", "connect"}) = 0
    BY DEF One
  <1>6. Count(queue, {"write", "connect"}) + 0 = Count(queue, {"write", "connect"})
    <2>1. Count(queue, {"write", "connect"}) \in Nat
      BY <1>2, CountType
    <2> QED
      BY ONLY <2>1
  <1> QED
    BY <1>3, <1>4, <1>5, <1>6 DEF QueuedReads, QueuedWrites

LEMMA QueueWrite ==
  ASSUME TypeInv, queue' = Append(queue, write_cb_)
  PROVE  /\ queue' \in Seq({"read", write_cb_})
         /\ QueuedReads' = QueuedReads /\ QueuedWrites' = QueuedWrites + 1
  <1>1. \A S, q, x : (q \in Seq(S) /\ x \in S) => Append(q, x) \in Seq(S)
    BY ONLY SMT
  <1>2. queue \in Seq({"read", write_cb_}) /\ write_cb_ \in {"write", "connect"}
    BY DEF TypeInv
  <1> USE <1>2
  <1>3. queue' \in Seq({"read", write_cb_})
    BY <1>1
  <1>4. /\ Count(Append(queue, write_cb_), {"read"}) = Count(queue, {"read"}) + One(write_cb_ \in {"read"})
        /\ Count(Append(queue, write_cb_), {"write", "connect"})
             = Count(queue, {"write", "connect"}) + One(write_cb_ \in {"write", "connect"})
    <2>1. write_cb_ \in {"read", write_cb_} /\ queue \in Seq({"read", write_cb_})
      OBVIOUS
    <2>2. \A x : Count(Append(queue, write_cb_), x) = Count(queue, x) + One(write_cb_ \in x)
      BY ONLY ZenonT(60), <2>1, CountAppend
    <2> QED
      BY <2>2
  <1>5. One(write_cb_ \in {"read"}) = 0 /\ One(write_cb_ \in {"write", "connect"}) = 1
    BY DEF One
  <1>6. Count(queue, {"read"}) + 0 = Count(queue, {"read"})
    <2>1. Count(queue, {"read"}) \in Nat
      BY CountType
    <2> QED
      BY ONLY <2>1
  <1> QED
    BY <1>3, <1>4, <1>5, <1>6 DEF QueuedReads, QueuedWrites

(* The references that are due. *)
DueSum(r, w, a, h, u) == r + w - a + h + u
Due == DueSum(Readers, Writers, One(creator = "acquire"), Held, UserRef)

LEMMA RefsFloor ==
  ASSUME TypeInv, RefsInv
  PROVE  refs_ >= InRead + Firsts + Waiting(readSide) + Writers + Held + UserRef /\ refs_ \in Nat
  <1>1. Counts
    BY Numbers
  <1>2. refs_ = Readers + Writers - One(creator = "acquire") + Held + UserRef
    BY DEF RefsInv
  <1>3. One(creator = "acquire") = 0 \/ (One(creator = "acquire") = 1 /\ CreatorReads = 1)
    BY DEF One, CreatorReads, ReadingL
  <1> QED
    BY ONLY <1>1, <1>2, <1>3, Parts DEF Counts

(* A step at which nobody begins to close. *)
LEMMA RefsFrame ==
  ASSUME TypeInv, RefsInv, refs_' = Due',
         creator' \in Early => (creator \in Early /\ refs_' = 0),
         refs_' # refs_ => (refs_ > 0 \/ creator \in Early),
         \A v \in Actor : (pc'[v] \in {"close", "delete"}) => (pc'[v] = pc[v]),
         fd' = fd \/ (fd' = "open" /\ creator \in Early),
         descr' \in {"garbage", "freed"} => descr \in {"garbage", "freed"},
         edge' = edge \/ edge' = FALSE \/ fd' = "open",
         (descr' = "freed") => (batch' = {} \/ (descr = "freed" /\ batch' = batch))
  PROVE  RefsInv'
  <1>1. refs_' = Readers' + Writers' - One(creator = "acquire")' + Held' + UserRef'
    BY DEF Due, DueSum
  <1>2. ASSUME refs_ = 0, creator \notin Early
        PROVE  refs_' = 0 /\ creator' \notin Early
    <2>1. ~(refs_ > 0)
      BY ONLY <1>2
    <2> QED
      BY <1>2, <2>1
  <1>3. (creator' \in Early) => (refs_' = 0)
    OBVIOUS
  <1>4. \A v \in Actor : (pc'[v] \in {"close", "delete"}) => (refs_' = 0 /\ creator' \notin Early)
    BY <1>2 DEF RefsInv
  <1>5. (fd = "closed") => (fd' = "closed")
    BY DEF RefsInv
  <1>6. \A v \in Actor : (pc'[v] = "delete") => (fd' = "closed")
    BY <1>5 DEF RefsInv
  <1>7. (fd' = "closed") => (refs_' = 0 /\ creator' \notin Early)
    BY <1>2 DEF RefsInv
  <1>8. (descr' \in {"garbage", "freed"}) => (fd' = "closed")
    BY <1>5 DEF RefsInv
  <1>9. edge' = TRUE => (fd' = "open")
    BY DEF RefsInv
  <1>10. (descr' = "freed") => (batch' = {})
    BY DEF RefsInv
  <1> QED
    BY <1>1, <1>3, <1>4, <1>6, <1>7, <1>8, <1>9, <1>10 DEF RefsInv

(* A step that leaves the Descriptor, the poll loop and the creator alone, *)
(* and at which nobody begins to close.                                    *)
LEMMA RefsStill ==
  ASSUME TypeInv, RefsInv, creator' = creator, fd' = fd, edge' = edge, descr' = descr, batch' = batch,
         \A v \in Actor : (pc'[v] \in {"close", "delete"}) => (pc'[v] = pc[v]),
         refs_' = Due', refs_' # refs_ => refs_ > 0
  PROVE  RefsInv'
  <1>1. creator \in Early => refs_ = 0
    BY DEF RefsInv
  <1>2. creator \in Early => ~(refs_ > 0)
    BY ONLY <1>1
  <1>3. creator' \in Early => (creator \in Early /\ refs_' = 0)
    BY <1>1, <1>2
  <1> QED
    BY <1>3, RefsFrame

(* What the steps of the workers and of the program leave alone. *)
Still ==
    /\ load' = load /\ link' = link /\ write_cb_' = write_cb_ /\ told' = told /\ peer' = peer
    /\ creator' = creator /\ batch' = batch /\ poller' = poller
    /\ fd' = fd /\ edge' = edge /\ descr' = descr /\ ((reading' = "on") => (reading = "on"))

LEMMA TokenStep ==
  ASSUME TokenInv, NEW w \in Actor, NEW b, pc' = [pc EXCEPT ![w] = b],
         link' = link, write_cb_' = write_cb_, told' = told, peer' = peer,
         creator' = creator, batch' = batch, poller' = poller, TypeInv', NestedInv', Progress,
         w = User => (told # "no" /\ b # "connecting" /\ (b # "idle" => told = "ok")),
         (link = "connecting") => (QueuedWrites' = 0 /\ Connects' = 0 /\ writeSide'.can = FALSE)
  PROVE  TokenInv'
  <1>1. TypeInv /\ NestedInv /\ UserInv /\ ConnectInv /\ TrafficInv /\ CreatorInv /\ LinkInv
    BY DEF TokenInv
  <1> USE <1>1
  <1>2. pc'[w] = b /\ \A v \in Actor : (v # w) => (pc'[v] = pc[v])
    BY AtMoves
  <1>3. User \in Actor
    BY Actors
  <1>4. (told # "no") => (Completing = 0 /\ (write_cb_ = "connect" => Writers = 0))
    BY DEF UserInv
  <1>5. /\ ConnectInv' /\ TrafficInv' /\ CreatorInv'
        /\ (told' # "no") => (Completing' = 0 /\ (write_cb_' = "connect" => Writers' = 0))
    BY <1>4, ProgressInv
  <1>6. UserInv'
    <2>1. /\ (told = "no") => (pc'[User] = "connecting")
          /\ (pc'[User] # "connecting" /\ pc'[User] # "idle") => (told = "ok")
          /\ (told = "ok") => (write_cb_ = "write")
      BY <1>2, <1>3 DEF UserInv
    <2> QED
      BY <1>5, <2>1 DEF UserInv
  <1>7. LinkInv'
    BY DEF LinkInv, QueuedWrites
  <1> QED
    BY <1>5, <1>6, <1>7 DEF TokenInv

LEMMA ActorStep ==
  ASSUME ConnectionInv, NEW w \in Actor, NEW b, pc' = [pc EXCEPT ![w] = b],
         b \notin {"close", "delete"}, Still, TypeInv', NestedInv', Progress,
         w = User => (told # "no" /\ b # "connecting" /\ (b # "idle" => told = "ok")),
         (link = "connecting") => (QueuedWrites' = 0 /\ Connects' = 0 /\ writeSide'.can = FALSE),
         (Kept /\ RefsInv) => (refs_' = Due' /\ (refs_' # refs_ => refs_ > 0))
  PROVE  ConnectionInv'
  <1>1. TokenInv /\ TypeInv
    BY DEF ConnectionInv, TokenInv
  <1>2. /\ load' = load /\ link' = link /\ write_cb_' = write_cb_ /\ told' = told /\ peer' = peer
        /\ creator' = creator /\ batch' = batch /\ poller' = poller
        /\ fd' = fd /\ edge' = edge /\ descr' = descr /\ ((reading' = "on") => (reading = "on"))
    BY DEF Still
  <1>3. TokenInv'
    BY <1>1, <1>2, TokenStep
  <1>4. \A v \in Actor : (pc'[v] \in {"close", "delete"}) => (pc'[v] = pc[v])
    BY <1>1, AtMoves
  <1>5. (Kept /\ RefsInv) => RefsInv'
    BY <1>1, <1>2, <1>4, RefsStill
  <1>6. Kept' => Kept
    BY <1>2 DEF Kept, side
  <1> QED
    BY <1>3, <1>5, <1>6 DEF ConnectionInv
-----------------------------------------------------------------------------
(* Steps of the workers and of the program *)

LEMMA DownProgress ==
  ASSUME TypeInv, Still,
         Readers' = Readers \/ (Readers' = Readers - 1 /\ (side = "server" \/ reading' # "on")),
         Writers' = Writers \/ Writers' = Writers - 1,
         FirstReads' = FirstReads, Completing' = Completing, Connects' = Connects, Notifies' = Notifies,
         InWrite' = InWrite \/ InWrite' = InWrite - 1 \/ write_cb_ = "write",
         (flag' = "clear") => (flag = "clear" \/ Writers' = 0)
  PROVE  Progress
  <1>1. Counts
    BY Numbers
  <1>2. /\ Readers + FirstReads <= Readers + FirstReads
        /\ (Readers - 1) + FirstReads <= Readers + FirstReads
        /\ Writers <= Writers /\ Writers - 1 <= Writers
        /\ Writers + Completing <= Writers + Completing
        /\ (Writers - 1) + Completing <= Writers + Completing
        /\ Completing <= Completing /\ Connects <= Connects /\ Notifies <= Notifies
        /\ InWrite <= InWrite /\ InWrite - 1 <= InWrite
    BY ONLY <1>1 DEF Counts
  <1>3. /\ load' = load /\ write_cb_' = write_cb_ /\ told' = told /\ link' = link
        /\ creator' = creator /\ ((reading' = "on") => (reading = "on"))
    BY DEF Still
  <1>4. Readers' + FirstReads' <= Readers + FirstReads
    BY <1>2
  <1>5. (side = "client" /\ reading' = "on") => (Readers' + FirstReads' = Readers + FirstReads)
    BY <1>3
  <1>6. Writers' <= Writers /\ Writers' + Completing' <= Writers + Completing
    BY <1>2
  <1>7. /\ Completing' <= Completing /\ Connects' <= Connects /\ Notifies' <= Notifies
        /\ (write_cb_ = "connect") => (InWrite' <= InWrite)
    BY <1>2
  <1> QED
    BY <1>3, <1>4, <1>5, <1>6, <1>7 DEF Progress

LEMMA UserRefMoves ==
  ASSUME TypeInv, NEW w \in Actor, NEW b, pc' = [pc EXCEPT ![w] = b], load' = load, told' = told,
         \/ w # User \/ load.blocking \/ told # "ok"
         \/ (pc[w] \in LeavingL) <=> (b \in LeavingL)
  PROVE  UserRef' = UserRef
  <1>1. pc'[w] = b /\ (w # User => pc'[User] = pc[User])
    BY AtMoves, Actors
  <1>2. (~load.blocking /\ told = "ok" /\ pc[User] \notin LeavingL)
          <=> (~load'.blocking /\ told' = "ok" /\ pc'[User] \notin LeavingL)
    BY <1>1
  <1> QED
    BY <1>2 DEF UserRef, One

(* Nothing passes from hand to hand. *)
Alone == readSide' = readSide /\ writeSide' = writeSide /\ queue' = queue

LEMMA AloneType ==
  ASSUME TypeInv, Still, Alone, pc' = [v \in Actor |-> pc'[v]], nested' \in [Actor -> BOOLEAN],
         refs_' \in Int, writing_' \in BOOLEAN
  PROVE  TypeInv'
  BY DEF TypeInv, Still, Alone

(* A nested doWrite() that goes on, and a step outside of one. *)
LEMMA NestedMoves ==
  ASSUME TypeInv, NestedInv, NEW w \in Actor, NEW b, pc' = [pc EXCEPT ![w] = b], nested' = nested,
         nested[w] = TRUE => b \in WriteL \cup {"release_write"},
         (w = User /\ b \in WriteL \cup {"release_write"}) => nested[w] = TRUE
  PROVE  NestedInv'
  <1>1. pc'[w] = b /\ \A v \in Actor : (v # w) => (pc'[v] = pc[v])
    BY AtMoves
  <1>2. \A v \in Actor : nested[v] = TRUE => pc'[v] \in WriteL \cup {"release_write"}
    BY <1>1 DEF NestedInv
  <1>3. pc'[User] \in WriteL \cup {"release_write"} => nested[User] = TRUE
    BY <1>1, Actors DEF NestedInv
  <1> QED
    BY <1>2, <1>3 DEF NestedInv

LEMMA HeldLabels ==
  /\ CompletingL \subseteq HeldL
  /\ "release_write" \in HeldL /\ "release" \in HeldL
  BY DEF CompletingL, HeldL

(* A step that keeps the read, the write and the references as they are. *)
LEMMA QuietMove ==
  ASSUME ConnectionInv, NEW w \in Actor, NEW b, pc' = [pc EXCEPT ![w] = b], nested' = nested,
         Still, Alone, refs_' = refs_, writing_' \in BOOLEAN, (flag' = "clear") => (flag = "clear"),
         pc[w] \notin HeldL, b \notin HeldL, b \notin {"close", "delete"},
         (pc[w] \in WriteL) <=> (b \in WriteL),
         w \in Worker => ((pc[w] \in ReadL) <=> (b \in ReadL)),
         w = User => /\ told # "no" /\ b # "connecting" /\ (b # "idle" => told = "ok")
                     /\ \/ load.blocking \/ told # "ok"
                        \/ (pc[w] \in LeavingL) <=> (b \in LeavingL)
  PROVE  ConnectionInv'
  <1>1. TypeInv /\ NestedInv /\ LinkInv
    BY DEF ConnectionInv, TokenInv
  <1> USE <1>1
  <1>2. TypeInv'
    BY AtMoves, AloneType DEF TypeInv
  <1>3. NestedInv'
    <2>1. nested[w] = TRUE => pc[w] \in WriteL
      BY HeldLabels DEF NestedInv
    <2>2. (w = User /\ b \in WriteL \cup {"release_write"}) => nested[w] = TRUE
      BY HeldLabels DEF NestedInv
    <2> QED
      BY <2>1, <2>2, NestedMoves
  <1>4. /\ FirstReads' = FirstReads /\ Connects' = Connects /\ Notifies' = Notifies
        /\ Firsts' = Firsts /\ Completing' = Completing
    BY HeldLabels, NotCompleting
  <1>5. InWrite' = InWrite /\ Held' = Held
    BY WriteMoves
  <1>6. InRead' = InRead
    BY ReadsMoves
  <1>7. creator' = creator /\ poller' = poller /\ load' = load /\ told' = told
    BY DEF Still
  <1>8. readSide' = readSide /\ writeSide' = writeSide /\ queue' = queue
    BY DEF Alone
  <1>9. Readers' = Readers /\ Writers' = Writers
    BY <1>4, <1>5, <1>6, <1>7, <1>8, Sums, PartsFrame
  <1>10. Progress
    BY <1>4, <1>5, <1>9, DownProgress
  <1>11. (link = "connecting") => (QueuedWrites' = 0 /\ Connects' = 0 /\ writeSide'.can = FALSE)
    BY <1>4, <1>8, PartsFrame DEF LinkInv, QueuedWrites
  <1>12. UserRef' = UserRef
    BY <1>7, UserRefMoves
  <1>13. RefsInv => refs_' = Due'
    BY <1>5, <1>7, <1>9, <1>12, PartsFrame DEF RefsInv, Due, DueSum
  <1> QED
    BY <1>2, <1>3, <1>10, <1>11, <1>13, ActorStep

(* The same, with one more reference that an actor holds. *)
Holding ==
    /\ TypeInv /\ TypeInv' /\ NestedInv /\ NestedInv'
    /\ FirstReads' = FirstReads /\ Connects' = Connects /\ Notifies' = Notifies
    /\ Firsts' = Firsts /\ Completing' = Completing /\ Held' = Held + 1
    /\ (InRead' = InRead) => (Readers' = Readers)
    /\ (InRead' = InRead - 1) => (Readers' = Readers - 1)
    /\ (InWrite' = InWrite) => (Writers' = Writers)
    /\ (InWrite' = InWrite - 1) => (Writers' = Writers - 1)
    /\ (link = "connecting") => (QueuedWrites' = 0 /\ Connects' = 0 /\ writeSide'.can = FALSE)
    /\ One(creator = "acquire")' = One(creator = "acquire")
    /\ load' = load /\ told' = told

(* An actor that will release, or holds a reference while it waits. *)
LEMMA HoldMove ==
  ASSUME ConnectionInv, NEW w \in Actor, NEW b, pc' = [pc EXCEPT ![w] = b], nested' = nested,
         Still, Alone, refs_' \in Int, writing_' \in BOOLEAN,
         pc[w] \notin HeldL, b \in HeldL, b \notin CompletingL,
         pc[w] \in WriteL => b \in WriteL \cup {"release_write"},
         b \in WriteL \cup {"release_write"} => pc[w] \in WriteL
  PROVE  Holding
  <1>1. TypeInv /\ NestedInv /\ LinkInv
    BY DEF ConnectionInv, TokenInv
  <1> USE <1>1
  <1>2. TypeInv'
    BY AtMoves, AloneType DEF TypeInv
  <1>3. NestedInv'
    <2>1. nested[w] = TRUE => pc[w] \in WriteL
      BY HeldLabels DEF NestedInv
    <2>2. (w = User /\ b \in WriteL \cup {"release_write"}) => nested[w] = TRUE
      BY HeldLabels DEF NestedInv
    <2> QED
      BY <2>1, <2>2, NestedMoves
  <1>4. /\ FirstReads' = FirstReads /\ Connects' = Connects /\ Notifies' = Notifies
        /\ Firsts' = Firsts /\ Completing' = Completing
    BY HeldLabels, NotCompleting
  <1>5. Held' = Held + 1
    BY WriteMoves
  <1>7. creator' = creator /\ poller' = poller /\ load' = load /\ told' = told
    BY DEF Still
  <1>8. readSide' = readSide /\ writeSide' = writeSide /\ queue' = queue
    BY DEF Alone
  <1>9. /\ Readers' = ReadSum(CreatorReads, Firsts, Waiting(readSide), PollerReads, QueuedReads, InRead')
        /\ Writers' = WriteSum(CreatorWrites, Waiting(writeSide), PollerWrites, QueuedWrites, InWrite')
    BY <1>4, <1>7, <1>8, Sums, PartsFrame
  <1>10. /\ ReadSum(CreatorReads, Firsts, Waiting(readSide), PollerReads, QueuedReads, InRead - 1)
              = ReadSum(CreatorReads, Firsts, Waiting(readSide), PollerReads, QueuedReads, InRead) - 1
         /\ WriteSum(CreatorWrites, Waiting(writeSide), PollerWrites, QueuedWrites, InWrite - 1)
              = WriteSum(CreatorWrites, Waiting(writeSide), PollerWrites, QueuedWrites, InWrite) - 1
    <2>1. Counts
      BY Numbers
    <2> QED
      BY ONLY <2>1 DEF Counts, ReadSum, WriteSum
  <1>11. /\ (InRead' = InRead) => (Readers' = Readers)
         /\ (InRead' = InRead - 1) => (Readers' = Readers - 1)
         /\ (InWrite' = InWrite) => (Writers' = Writers)
         /\ (InWrite' = InWrite - 1) => (Writers' = Writers - 1)
    BY <1>9, <1>10, Sums
  <1>12. (link = "connecting") => (QueuedWrites' = 0 /\ Connects' = 0 /\ writeSide'.can = FALSE)
    BY <1>4, <1>8, PartsFrame DEF LinkInv, QueuedWrites
  <1> QED
    BY <1>2, <1>3, <1>4, <1>5, <1>7, <1>11, <1>12, PartsFrame DEF Holding

LEMMA DueSums ==
  ASSUME TypeInv
  PROVE  LET R == Readers
             W == Writers
             A == One(creator = "acquire")
             H == Held
             U == UserRef
         IN  /\ DueSum(R - 1, W, A, H + 1, U) = DueSum(R, W, A, H, U)
             /\ DueSum(R, W - 1, A, H + 1, U) = DueSum(R, W, A, H, U)
             /\ DueSum(R, W, A, H + 1, U) = DueSum(R, W, A, H, U) + 1
             /\ DueSum(R, W, A, H - 1, U) = DueSum(R, W, A, H, U) - 1
             /\ DueSum(R, W + 1, A, H, U) = DueSum(R, W, A, H, U) + 1
             /\ DueSum(R + 1, W, A, H, U) = DueSum(R, W, A, H, U) + 1
  <1>1. Counts
    BY Numbers
  <1> QED
    BY ONLY <1>1 DEF Counts, DueSum

LEMMA RefsAreDue == RefsInv => refs_ = Due
  BY DEF RefsInv, Due, DueSum

(* doRead ends. *)
LEMMA EndRead ==
  ASSUME ConnectionInv, NEW w \in Worker, pc' = [pc EXCEPT ![w] = "release"], nested' = nested,
         Still, Alone, refs_' = refs_, writing_' = writing_,
         pc[w] \in {"read", "request"}, side = "server" \/ reading' # "on"
  PROVE  ConnectionInv'
  <1>1. w \in Actor /\ w # User
    BY Actors
  <1> USE <1>1
  <1>2. /\ pc[w] \notin HeldL /\ pc[w] \in ReadL /\ pc[w] \notin WriteL
        /\ "release" \notin WriteL \cup {"release_write"} /\ "release" \notin CompletingL
        /\ "release" \notin ReadL /\ "release" \notin {"close", "delete"}
        /\ "release" \in HeldL
    BY DEF HeldL, ReadL, WriteL, CompletingL
  <1> USE <1>2
  <1>3. refs_' \in Int /\ writing_' \in BOOLEAN
    BY DEF ConnectionInv, TokenInv, TypeInv
  <1>4. Holding
    BY <1>3, HoldMove
  <1> USE <1>4
  <1>5. InWrite' = InWrite
    BY WriteMoves DEF Holding
  <1>6. InRead' = InRead - 1
    BY ReadsMoves DEF Holding
  <1>7. Readers' = Readers - 1 /\ Writers' = Writers
    BY <1>5, <1>6 DEF Holding
  <1>8. flag' = flag
    BY DEF flag
  <1>9. Progress
    BY <1>5, <1>7, <1>8, DownProgress DEF Holding
  <1>10. UserRef' = UserRef
    BY UserRefMoves DEF Holding
  <1>11. RefsInv => refs_' = Due'
    BY <1>7, <1>10, DueSums, RefsAreDue DEF Due, Holding
  <1> QED
    BY <1>9, <1>11, ActorStep DEF Holding

(* doWrite ends. *)
LEMMA EndWrite ==
  ASSUME ConnectionInv, NEW w \in Actor, pc' = [pc EXCEPT ![w] = "release_write"], nested' = nested,
         Still, Alone, refs_' = refs_, writing_' \in BOOLEAN, pc[w] = "wrote"
  PROVE  ConnectionInv'
  <1>1. TypeInv /\ ConnectInv /\ TrafficInv /\ UserInv
    BY DEF ConnectionInv, TokenInv
  <1> USE <1>1
  <1>2. /\ "wrote" \notin HeldL /\ "wrote" \notin ReadL /\ "wrote" \in WriteL /\ "wrote" \notin LeavingL
        /\ "release_write" \notin WriteL /\ "release_write" \notin CompletingL
        /\ "release_write" \notin LeavingL
        /\ "release_write" \notin ReadL /\ "release_write" \notin {"close", "delete"}
        /\ "release_write" \in HeldL
    BY DEF HeldL, ReadL, WriteL, CompletingL, LeavingL
  <1> USE <1>2
  <1>3. refs_' \in Int
    BY DEF TypeInv
  <1>4. Holding
    BY <1>3, HoldMove
  <1> USE <1>4
  <1>5. InWrite' = InWrite - 1 /\ InWrite > 0
    BY WriteMoves, AtType DEF InWrite
  <1>6. InRead' = InRead
    BY ReadsMoves DEF Holding
  <1>7. Readers' = Readers /\ Writers' = Writers - 1
    BY <1>5, <1>6 DEF Holding
  <1>8. Writers - 1 = 0
    <2>1. Counts /\ write_cb_ \in {"write", "connect"}
      BY Numbers DEF TypeInv
    <2>2. (write_cb_ = "connect") => InWrite = 0
      BY DEF ConnectInv
    <2>3. (write_cb_ = "write") => Writers <= 1
      BY DEF TrafficInv
    <2>4. InWrite > 0
      BY <1>5
    <2> QED
      BY ONLY <2>1, <2>2, <2>3, <2>4, Parts DEF Counts
  <1>9. Progress
    BY <1>5, <1>7, <1>8, DownProgress DEF Holding
  <1>10. UserRef' = UserRef
    BY UserRefMoves DEF Holding
  <1>11. RefsInv => refs_' = Due'
    BY <1>7, <1>10, DueSums, RefsAreDue DEF Due, Holding
  <1>12. w = User => told = "ok"
    BY DEF UserInv
  <1> QED
    BY <1>9, <1>11, <1>12, ActorStep DEF Holding

(* EAGAIN: a reference for the wait. *)
LEMMA Waits ==
  ASSUME ConnectionInv, NEW w \in Actor, NEW b, pc' = [pc EXCEPT ![w] = b], nested' = nested,
         Still, Alone, refs_' = refs_ + 1, writing_' = writing_,
         \/ w \in Worker /\ pc[w] = "read" /\ b = "wait_read"
         \/ pc[w] = "wrote" /\ b = "wait_write"
  PROVE  ConnectionInv'
  <1>1. TypeInv /\ UserInv
    BY DEF ConnectionInv, TokenInv
  <1> USE <1>1
  <1>2. /\ pc[w] \notin HeldL /\ b \in HeldL /\ b \notin CompletingL /\ b \notin LeavingL
        /\ pc[w] \notin LeavingL
        /\ ((pc[w] \in ReadL) <=> (b \in ReadL)) /\ ((pc[w] \in WriteL) <=> (b \in WriteL))
        /\ b # "release_write" /\ b \notin {"close", "delete"}
    BY DEF HeldL, ReadL, WriteL, CompletingL, LeavingL
  <1> USE <1>2
  <1>3. refs_' \in Int /\ writing_' \in BOOLEAN
    BY SMT, <1>1 DEF TypeInv
  <1>4. Holding
    BY <1>3, HoldMove
  <1> USE <1>4
  <1>5. InWrite' = InWrite
    BY WriteMoves
  <1>6. InRead' = InRead
    BY ReadsMoves DEF Holding
  <1>7. Readers' = Readers /\ Writers' = Writers
    BY <1>5, <1>6 DEF Holding
  <1>8. flag' = flag
    BY DEF flag
  <1>9. Progress
    BY <1>5, <1>7, <1>8, DownProgress DEF Holding
  <1>10. UserRef' = UserRef
    BY UserRefMoves DEF Holding
  <1>11. RefsInv => refs_' = Due'
    BY <1>7, <1>10, DueSums, RefsAreDue DEF Due, Holding
  <1>12. RefsInv => refs_ > 0
    <2>1. InRead > 0 \/ InWrite > 0
      BY AtType DEF InWrite, Reads, ReadL, WriteL
    <2>2. Counts
      BY Numbers
    <2>3. RefsInv => (refs_ >= InRead + Firsts + Waiting(readSide) + Writers + Held + UserRef /\ refs_ \in Nat)
      BY RefsFloor
    <2> QED
      BY ONLY <2>1, <2>2, <2>3, Parts DEF Counts
  <1>13. w = User => (told = "ok" /\ b # "connecting")
    BY Actors DEF UserInv
  <1> QED
    BY <1>9, <1>11, <1>12, <1>13, ActorStep DEF Holding

(* The program drops its reference. *)
LEMMA UserLeaves ==
  ASSUME ConnectionInv, pc' = [pc EXCEPT ![User] = "release"], nested' = nested,
         Still, Alone, refs_' = refs_, writing_' = writing_, pc[User] = "sent", ~load.blocking
  PROVE  ConnectionInv'
  <1> DEFINE w == User
  <1>1. TypeInv /\ UserInv /\ w \in Actor /\ w \notin Worker
    BY Actors DEF ConnectionInv, TokenInv
  <1> USE <1>1
  <1>2. /\ "sent" \notin HeldL /\ "sent" \notin LeavingL /\ "sent" \notin WriteL
        /\ "release" \in HeldL /\ "release" \in LeavingL
        /\ "release" \notin WriteL /\ "release" # "release_write" /\ "release" \notin CompletingL
        /\ "release" \notin {"close", "delete"}
    BY DEF HeldL, WriteL, CompletingL, LeavingL
  <1> USE <1>2
  <1>3. refs_' \in Int /\ writing_' \in BOOLEAN
    BY DEF TypeInv
  <1>4. Holding
    BY <1>3, HoldMove
  <1> USE <1>4
  <1>5. InWrite' = InWrite
    BY WriteMoves
  <1>6. InRead' = InRead
    BY ReadsMoves DEF Holding
  <1>7. Readers' = Readers /\ Writers' = Writers
    BY <1>5, <1>6 DEF Holding
  <1>8. flag' = flag
    BY DEF flag
  <1>9. Progress
    BY <1>5, <1>7, <1>8, DownProgress DEF Holding
  <1>10. told = "ok"
    BY DEF UserInv
  <1>11. UserRef = 1 /\ UserRef' = 0
    <2>1. pc'[User] = "release"
      BY AtMoves
    <2> QED
      BY <1>10, <2>1 DEF UserRef, One
  <1>12. RefsInv => refs_' = Due'
    <2>1. Counts
      BY Numbers
    <2>2. DueSum(Readers, Writers, One(creator = "acquire"), Held + 1, 0)
            = DueSum(Readers, Writers, One(creator = "acquire"), Held, 1)
      BY ONLY <2>1 DEF Counts, DueSum
    <2> QED
      BY <1>7, <1>11, <2>2, RefsAreDue DEF Due, Holding
  <1> QED
    BY <1>9, <1>10, <1>12, ActorStep DEF Holding

(* A read or a write is passed on, and the reference of the wait with it.  *)
LEMMA PassMove ==
  ASSUME ConnectionInv, NEW w \in Actor, NEW b, pc' = [pc EXCEPT ![w] = b], nested' = nested,
         Still, refs_' = refs_, writing_' = writing_,
         pc[w] \in HeldL, b \in HeldL, pc[w] \notin CompletingL, b \notin CompletingL,
         pc[w] \in WriteL => b \in WriteL \cup {"release_write"},
         b \in WriteL \cup {"release_write"} => pc[w] \in WriteL,
         pc[w] # "release_write",
         w = User => (pc[w] \notin LeavingL /\ b \notin LeavingL),
         queue' \in Seq({"read", write_cb_}),
         readSide' \in [can : BOOLEAN, waiting : BOOLEAN],
         writeSide' \in [can : BOOLEAN, waiting : BOOLEAN],
         Readers' = Readers, Writers' = Writers, InWrite' = InWrite \/ InWrite' = InWrite - 1,
         (link = "connecting") => (QueuedWrites' = 0 /\ writeSide'.can = FALSE)
  PROVE  ConnectionInv'
  <1>1. TypeInv /\ NestedInv /\ UserInv /\ LinkInv
    BY DEF ConnectionInv, TokenInv
  <1> USE <1>1
  <1>2. TypeInv'
    BY AtMoves DEF TypeInv, Still
  <1>3. NestedInv'
    <2>1. nested[w] = TRUE => pc[w] \in WriteL
      BY DEF NestedInv
    <2>2. (w = User /\ b \in WriteL \cup {"release_write"}) => nested[w] = TRUE
      BY DEF NestedInv
    <2> QED
      BY <2>1, <2>2, NestedMoves
  <1>4. /\ FirstReads' = FirstReads /\ Connects' = Connects /\ Notifies' = Notifies
        /\ Firsts' = Firsts /\ Completing' = Completing
    BY NotCompleting
  <1>5. Held' = Held
    BY WriteMoves
  <1>6. flag' = flag
    BY DEF flag
  <1>7. Progress
    BY <1>4, <1>6, DownProgress
  <1>8. load' = load /\ told' = told /\ creator' = creator
    BY DEF Still
  <1>9. UserRef' = UserRef
    BY <1>8, UserRefMoves
  <1>10. RefsInv => refs_' = Due'
    BY <1>5, <1>8, <1>9, PartsFrame, RefsAreDue DEF Due
  <1>11. (link = "connecting") => Connects' = 0
    BY <1>4 DEF LinkInv
  <1>12. /\ b # "connecting" /\ b # "idle" /\ b \notin {"close", "delete"}
         /\ pc[w] # "connecting" /\ pc[w] # "idle"
    BY DEF HeldL
  <1>13. w = User => told = "ok"
    BY <1>12 DEF UserInv
  <1> QED
    BY <1>2, <1>3, <1>7, <1>10, <1>11, <1>12, <1>13, ActorStep

LEMMA PassLabels ==
  /\ {"wait_read", "schedule_read", "wait_write", "schedule_write", "release", "release_write"} \subseteq HeldL
  /\ \A a \in {"wait_read", "schedule_read", "wait_write", "schedule_write", "release", "release_write"} :
       a \notin CompletingL
  /\ "wait_read" \notin WriteL /\ "schedule_read" \notin WriteL /\ "release" \notin WriteL
  /\ "wait_write" \in WriteL /\ "schedule_write" \in WriteL /\ "release_write" \notin WriteL
  /\ "wait_read" \in ReadL /\ "schedule_read" \in ReadL /\ "release" \notin ReadL
  /\ "wait_write" \notin ReadL /\ "schedule_write" \notin ReadL /\ "release_write" \notin ReadL
  /\ \A a \in {"wait_write", "schedule_write", "release_write"} : a \notin LeavingL
  BY DEF HeldL, CompletingL, WriteL, ReadL, LeavingL

LEMMA PassRead ==
  ASSUME ConnectionInv, NEW w \in Worker, readWhenReady(w) \/ ScheduleRead(w), UNCHANGED client
  PROVE  ConnectionInv'
  <1>1. /\ TypeInv /\ NestedInv /\ UserInv /\ LinkInv /\ ConnectInv /\ TrafficInv
        /\ w \in Actor /\ w # User
    BY Actors DEF ConnectionInv, TokenInv
  <1> USE <1>1
  <1>2. /\ Still /\ nested' = nested /\ refs_' = refs_ /\ writing_' = writing_ /\ writeSide' = writeSide
    BY DEF readWhenReady, ScheduleRead, Still, given, socket, poll, frames, client, buffers, reading
  <1> USE <1>2
  <1>3. PICK b \in {"schedule_read", "release"} : pc' = [pc EXCEPT ![w] = b]
    BY DEF readWhenReady, ScheduleRead, Goto
  <1> USE <1>3
  <1>4. creator' = creator /\ poller' = poller
    BY DEF Still
  <1> USE <1>4
  <1>5. pc[w] \in {"wait_read", "schedule_read"}
    BY DEF readWhenReady, ScheduleRead
  <1> USE <1>5
  <1>6. InWrite' = InWrite /\ Firsts' = Firsts
    <2>1. (pc[w] \in WriteL) <=> (b \in WriteL)
      BY PassLabels
    <2>2. InWrite' = InWrite
      BY <2>1, WriteMoves
    <2> QED
      BY <2>2, PassLabels, NotCompleting
  <1> USE <1>6
  <1>7. Reads(w) /\ InRead > 0
    BY PassLabels, AtType DEF Reads
  <1>8. Counts
    BY Numbers
  <1>9. Waiting(readSide) = 0
    <2>1. write_cb_ \in {"write", "connect"}
      BY DEF TypeInv
    <2>2. Readers + FirstReads <= 1 \/ Readers + FirstReads = 0
      BY <2>1 DEF ConnectInv, TrafficInv
    <2>3. InRead > 0
      BY <1>7
    <2> QED
      BY ONLY <1>8, <2>2, <2>3, Parts DEF Counts
  <1> DEFINE Passed ==
         /\ readSide' \in [can : BOOLEAN, waiting : BOOLEAN] /\ queue' \in Seq({"read", write_cb_})
         /\ QueuedWrites' = QueuedWrites /\ Readers' = Readers
  <1>10. Passed
    <2>1. ASSUME readWhenReady(w), RunsNow(readSide)
          PROVE  Passed
      <3>1. b = "schedule_read" /\ readSide' = WhenReady(readSide) /\ queue' = queue
        BY <2>1, AtMoves DEF readWhenReady, Goto
      <3>2. Waiting(readSide)' = Waiting(readSide) /\ readSide' \in [can : BOOLEAN, waiting : BOOLEAN]
        BY <2>1, <3>1, SideFacts DEF TypeInv, Waiting
      <3>3. InRead' = InRead
        BY <3>1, PassLabels, ReadsMoves
      <3> QED
        BY <3>1, <3>2, <3>3, Sums, PartsFrame DEF TypeInv
    <2>2. ASSUME readWhenReady(w), ~RunsNow(readSide)
          PROVE  Passed
      <3>1. b = "release" /\ readSide' = WhenReady(readSide) /\ queue' = queue
        BY <2>2, AtMoves DEF readWhenReady, Goto
      <3>2. Waiting(readSide)' = 1 /\ readSide' \in [can : BOOLEAN, waiting : BOOLEAN]
        BY <2>2, <3>1, SideFacts DEF TypeInv, Waiting
      <3>3. InRead' = InRead - 1
        BY <3>1, PassLabels, ReadsMoves
      <3>4. Readers' = ReadSum(CreatorReads, Firsts, 1, PollerReads, QueuedReads, InRead - 1)
        BY <3>1, <3>2, <3>3, Sums, PartsFrame
      <3>5. ReadSum(CreatorReads, Firsts, 1, PollerReads, QueuedReads, InRead - 1)
              = ReadSum(CreatorReads, Firsts, 0, PollerReads, QueuedReads, InRead)
        BY ONLY <1>8 DEF Counts, ReadSum
      <3> QED
        BY <1>9, <3>1, <3>2, <3>4, <3>5, Sums, PartsFrame DEF TypeInv
    <2>3. ASSUME ScheduleRead(w)
          PROVE  Passed
      <3>1. b = "release" /\ readSide' = readSide /\ queue' = Append(queue, "read")
        BY <2>3, AtMoves DEF ScheduleRead, Goto
      <3>2. /\ queue' \in Seq({"read", write_cb_}) /\ QueuedReads' = QueuedReads + 1
            /\ QueuedWrites' = QueuedWrites
        BY <3>1, QueueRead
      <3>3. InRead' = InRead - 1
        BY <3>1, PassLabels, ReadsMoves
      <3>4. Readers' = ReadSum(CreatorReads, Firsts, Waiting(readSide), PollerReads, QueuedReads + 1, InRead - 1)
        BY <3>1, <3>2, <3>3, Sums, PartsFrame
      <3>5. ReadSum(CreatorReads, Firsts, Waiting(readSide), PollerReads, QueuedReads + 1, InRead - 1)
              = ReadSum(CreatorReads, Firsts, Waiting(readSide), PollerReads, QueuedReads, InRead)
        BY ONLY <1>8 DEF Counts, ReadSum
      <3> QED
        BY <3>1, <3>2, <3>4, <3>5, Sums DEF TypeInv
    <2> QED
      BY <2>1, <2>2, <2>3
  <1>11. Writers' = Writers
    BY <1>10, Sums, PartsFrame
  <1>12. (link = "connecting") => (QueuedWrites' = 0 /\ writeSide'.can = FALSE)
    BY <1>10 DEF LinkInv, QueuedWrites
  <1>13. /\ pc[w] \in HeldL /\ b \in HeldL /\ pc[w] \notin CompletingL /\ b \notin CompletingL
         /\ pc[w] \notin WriteL /\ b \notin WriteL /\ b # "release_write" /\ pc[w] # "release_write"
    BY PassLabels
  <1>14. writeSide' \in [can : BOOLEAN, waiting : BOOLEAN]
    BY DEF TypeInv
  <1> QED
    BY <1>10, <1>11, <1>12, <1>13, <1>14, PassMove

LEMMA PassWrite ==
  ASSUME ConnectionInv, NEW w \in Actor, writeWhenReady(w) \/ ScheduleWrite(w), UNCHANGED client
  PROVE  ConnectionInv'
  <1>1. TypeInv /\ NestedInv /\ LinkInv /\ ConnectInv /\ TrafficInv
    BY DEF ConnectionInv, TokenInv
  <1> USE <1>1
  <1>2. /\ Still /\ nested' = nested /\ refs_' = refs_ /\ writing_' = writing_ /\ readSide' = readSide
    BY DEF writeWhenReady, ScheduleWrite, Still, given, socket, poll, frames, client, buffers, reading
  <1> USE <1>2
  <1>3. PICK b \in {"schedule_write", "release_write"} : pc' = [pc EXCEPT ![w] = b]
    BY DEF writeWhenReady, ScheduleWrite, Goto
  <1> USE <1>3
  <1>4. creator' = creator /\ poller' = poller
    BY DEF Still
  <1> USE <1>4
  <1>5. pc[w] \in {"wait_write", "schedule_write"}
    BY DEF writeWhenReady, ScheduleWrite
  <1> USE <1>5
  <1>6. InRead' = InRead /\ Firsts' = Firsts
    <2>1. (pc[w] \in ReadL) <=> (b \in ReadL)
      BY PassLabels
    <2>2. InRead' = InRead
      BY <2>1, ReadsMoves
    <2> QED
      BY <2>2, PassLabels, NotCompleting
  <1> USE <1>6
  <1>7. InWrite > 0
    BY PassLabels, AtType DEF InWrite
  <1>8. Counts
    BY Numbers
  <1>9. write_cb_ = "write" /\ Waiting(writeSide) = 0
    <2>1. write_cb_ \in {"write", "connect"}
      BY DEF TypeInv
    <2>2. ((write_cb_ = "connect") => (InWrite = 0)) /\ ((write_cb_ = "write") => (Writers <= 1))
      BY DEF ConnectInv, TrafficInv
    <2>3. InWrite > 0
      BY <1>7
    <2> QED
      BY ONLY <1>8, <2>1, <2>2, <2>3, Parts DEF Counts
  <1> DEFINE Passed ==
         /\ writeSide' \in [can : BOOLEAN, waiting : BOOLEAN] /\ queue' \in Seq({"read", write_cb_})
         /\ QueuedReads' = QueuedReads /\ Writers' = Writers
         /\ InWrite' = InWrite \/ InWrite' = InWrite - 1
  <1>10. Passed
    <2>1. ASSUME writeWhenReady(w), RunsNow(writeSide)
          PROVE  Passed
      <3>1. b = "schedule_write" /\ writeSide' = WhenReady(writeSide) /\ queue' = queue
        BY <2>1, AtMoves DEF writeWhenReady, Goto
      <3>2. Waiting(writeSide)' = Waiting(writeSide) /\ writeSide' \in [can : BOOLEAN, waiting : BOOLEAN]
        BY <2>1, <3>1, SideFacts DEF TypeInv, Waiting
      <3>3. InWrite' = InWrite
        <4>1. pc[w] \in WriteL /\ b \in WriteL
          BY <3>1, PassLabels
        <4> QED
          BY <4>1, WriteMoves
      <3> QED
        BY <3>1, <3>2, <3>3, Sums, PartsFrame DEF TypeInv
    <2>2. ASSUME writeWhenReady(w), ~RunsNow(writeSide)
          PROVE  Passed
      <3>1. b = "release_write" /\ writeSide' = WhenReady(writeSide) /\ queue' = queue
        BY <2>2, AtMoves DEF writeWhenReady, Goto
      <3>2. Waiting(writeSide)' = 1 /\ writeSide' \in [can : BOOLEAN, waiting : BOOLEAN]
        BY <2>2, <3>1, SideFacts DEF TypeInv, Waiting
      <3>3. InWrite' = InWrite - 1
        <4>1. pc[w] \in WriteL /\ b \notin WriteL
          BY <3>1, PassLabels
        <4> QED
          BY <4>1, WriteMoves
      <3>4. Writers' = WriteSum(CreatorWrites, 1, PollerWrites, QueuedWrites, InWrite - 1)
        BY <3>1, <3>2, <3>3, Sums, PartsFrame
      <3>5. WriteSum(CreatorWrites, 1, PollerWrites, QueuedWrites, InWrite - 1)
              = WriteSum(CreatorWrites, 0, PollerWrites, QueuedWrites, InWrite)
        BY ONLY <1>8 DEF Counts, WriteSum
      <3> QED
        BY <1>9, <3>1, <3>2, <3>3, <3>4, <3>5, Sums, PartsFrame DEF TypeInv
    <2>3. ASSUME ScheduleWrite(w)
          PROVE  Passed
      <3>1. b = "release_write" /\ writeSide' = writeSide /\ queue' = Append(queue, write_cb_)
        BY <2>3, AtMoves DEF ScheduleWrite, Goto
      <3>2. /\ queue' \in Seq({"read", write_cb_}) /\ QueuedReads' = QueuedReads
            /\ QueuedWrites' = QueuedWrites + 1
        BY <3>1, QueueWrite
      <3>3. InWrite' = InWrite - 1
        <4>1. pc[w] \in WriteL /\ b \notin WriteL
          BY <3>1, PassLabels
        <4> QED
          BY <4>1, WriteMoves
      <3>4. Writers' = WriteSum(CreatorWrites, Waiting(writeSide), PollerWrites, QueuedWrites + 1, InWrite - 1)
        BY <3>1, <3>2, <3>3, Sums, PartsFrame
      <3>5. WriteSum(CreatorWrites, Waiting(writeSide), PollerWrites, QueuedWrites + 1, InWrite - 1)
              = WriteSum(CreatorWrites, Waiting(writeSide), PollerWrites, QueuedWrites, InWrite)
        BY ONLY <1>8 DEF Counts, WriteSum
      <3> QED
        BY <3>1, <3>2, <3>3, <3>4, <3>5, Sums DEF TypeInv
    <2> QED
      BY <2>1, <2>2, <2>3
  <1>11. Readers' = Readers
    BY <1>10, Sums, PartsFrame
  <1>12. link # "connecting"
    BY <1>9 DEF LinkInv
  <1>13. /\ pc[w] \in HeldL /\ b \in HeldL /\ pc[w] \notin CompletingL /\ b \notin CompletingL
         /\ pc[w] \in WriteL /\ b \in WriteL \cup {"release_write"} /\ pc[w] # "release_write"
         /\ pc[w] \notin LeavingL /\ b \notin LeavingL
    BY PassLabels
  <1>14. readSide' \in [can : BOOLEAN, waiting : BOOLEAN]
    BY DEF TypeInv
  <1> QED
    BY <1>10, <1>11, <1>12, <1>13, <1>14, PassMove

(* A worker takes a callback from the pool. *)
LEMMA TakeInv ==
  ASSUME ConnectionInv, NEW w \in Worker, TakeCallback(w), UNCHANGED client
  PROVE  ConnectionInv'
  <1>1. /\ TypeInv /\ NestedInv /\ UserInv /\ LinkInv /\ ConnectInv /\ TrafficInv
        /\ w \in Actor /\ w # User
    BY Actors DEF ConnectionInv, TokenInv
  <1> USE <1>1
  <1>2. /\ Still /\ nested' = nested /\ refs_' = refs_ /\ writing_' = writing_
        /\ readSide' = readSide /\ writeSide' = writeSide
        /\ pc[w] = "idle" /\ queue # << >> /\ queue' = Tail(queue)
    BY DEF TakeCallback, Still, given, socket, poll, frames, client, buffers, reading
  <1> USE <1>2
  <1>3. queue \in Seq({"read", write_cb_}) /\ write_cb_ \in {"write", "connect"}
    BY DEF TypeInv
  <1> USE <1>3
  <1>4. PICK x \in {"read", write_cb_} : x = Head(queue)
    <2>1. \A S, q : (q \in Seq(S) /\ q # << >>) => Head(q) \in S
      BY ONLY SMT
    <2> QED
      BY <2>1
  <1> USE <1>4
  <1>5. queue' \in Seq({"read", write_cb_})
    <2>1. \A S, q : (q \in Seq(S) /\ q # << >>) => Tail(q) \in Seq(S)
      BY ONLY SMT
    <2> QED
      BY <2>1
  <1>6. PICK b : /\ pc' = [pc EXCEPT ![w] = b]
                 /\ \/ x = "read" /\ b = "read"
                    \/ x = "write" /\ b = "size"
                    \/ x = "connect" /\ b = "connect"
    <2>1. x \in {"read", "write", "connect"}
      OBVIOUS
    <2> QED
      BY <2>1 DEF TakeCallback, Goto
  <1> USE <1>6
  <1>7. \A y : Count(queue', y) = Count(queue, y) - One(x \in y) /\ ((x \in y) => (Count(queue, y) > 0))
    BY CountTail
  <1>8. Counts /\ creator' = creator /\ poller' = poller
    BY Numbers DEF Still
  <1> USE <1>8
  <1>9. NestedInv'
    <2>1. nested[w] # TRUE
      BY DEF NestedInv, WriteL
    <2> QED
      BY <2>1, NestedMoves
  <1>10. TypeInv'
    BY ZenonT(60), <1>5, AtMoves DEF TypeInv, Still
  <1>11. /\ load' = load /\ told' = told /\ write_cb_' = write_cb_ /\ link' = link /\ peer' = peer
         /\ (reading' = "on") => (reading = "on")
    BY DEF Still
  <1>12. UserRef' = UserRef /\ flag' = flag
    BY <1>11, UserRefMoves DEF flag
  <1> USE <1>12
  <1>13. /\ QueuedReads - 0 = QueuedReads /\ QueuedWrites - 0 = QueuedWrites
    BY ONLY <1>8 DEF Counts
  <1>14. /\ "idle" \notin HeldL /\ "idle" \notin WriteL /\ "idle" \notin ReadL /\ "idle" \notin CompletingL
         /\ "read" \notin HeldL /\ "read" \notin WriteL /\ "read" \in ReadL /\ "read" \notin CompletingL
         /\ "size" \notin HeldL /\ "size" \in WriteL /\ "size" \notin ReadL /\ "size" \notin CompletingL
         /\ "connect" \in HeldL /\ "connect" \notin WriteL /\ "connect" \notin ReadL
    BY DEF HeldL, WriteL, ReadL, CompletingL
  <1> USE <1>14
  <1>15. CASE x = "read" /\ b = "read"
    <2>1. One(x \in {"read"}) = 1 /\ One(x \in {"write", "connect"}) = 0
      BY <1>15 DEF One
    <2>2. QueuedReads' = QueuedReads - 1 /\ QueuedWrites' = QueuedWrites
      BY <1>7, <1>13, <2>1 DEF QueuedReads, QueuedWrites
    <2>3. /\ FirstReads' = FirstReads /\ Connects' = Connects /\ Notifies' = Notifies
          /\ Firsts' = Firsts /\ Completing' = Completing
      BY <1>15, NotCompleting
    <2>4. InWrite' = InWrite /\ Held' = Held
      BY <1>15, WriteMoves
    <2>5. InRead' = InRead + 1
      BY <1>15, ReadsMoves
    <2>6. Readers' = ReadSum(CreatorReads, Firsts, Waiting(readSide), PollerReads, QueuedReads - 1, InRead + 1)
      BY <2>2, <2>3, <2>5, Sums, PartsFrame
    <2>7. ReadSum(CreatorReads, Firsts, Waiting(readSide), PollerReads, QueuedReads - 1, InRead + 1)
            = ReadSum(CreatorReads, Firsts, Waiting(readSide), PollerReads, QueuedReads, InRead)
      BY ONLY <1>8 DEF Counts, ReadSum
    <2>8. Readers' = Readers
      BY <2>6, <2>7, Sums
    <2>9. Writers' = Writers
      BY <2>2, <2>4, Sums, PartsFrame
    <2>10. Progress
      BY <2>3, <2>4, <2>8, <2>9, DownProgress
    <2>11. (link = "connecting") => (QueuedWrites' = 0 /\ Connects' = 0 /\ writeSide'.can = FALSE)
      BY <2>2, <2>3 DEF LinkInv, QueuedWrites
    <2>12. RefsInv => refs_' = Due'
      BY <2>4, <2>8, <2>9, PartsFrame, RefsAreDue DEF Due
    <2>13. b \notin {"close", "delete"}
      BY <1>15
    <2> QED
      BY <1>9, <1>10, <2>10, <2>11, <2>12, <2>13, ActorStep
  <1>16. CASE x = "write" /\ b = "size"
    <2>1. One(x \in {"read"}) = 0 /\ One(x \in {"write", "connect"}) = 1
      BY <1>16 DEF One
    <2>2. QueuedReads' = QueuedReads /\ QueuedWrites' = QueuedWrites - 1
      BY <1>7, <1>13, <2>1 DEF QueuedReads, QueuedWrites
    <2>3. /\ FirstReads' = FirstReads /\ Connects' = Connects /\ Notifies' = Notifies
          /\ Firsts' = Firsts /\ Completing' = Completing
      BY <1>16, NotCompleting
    <2>4. InWrite' = InWrite + 1 /\ Held' = Held
      BY <1>16, WriteMoves
    <2>5. InRead' = InRead
      BY <1>16, ReadsMoves
    <2>6. Writers' = WriteSum(CreatorWrites, Waiting(writeSide), PollerWrites, QueuedWrites - 1, InWrite + 1)
      BY <2>2, <2>4, Sums, PartsFrame
    <2>7. WriteSum(CreatorWrites, Waiting(writeSide), PollerWrites, QueuedWrites - 1, InWrite + 1)
            = WriteSum(CreatorWrites, Waiting(writeSide), PollerWrites, QueuedWrites, InWrite)
      BY ONLY <1>8 DEF Counts, WriteSum
    <2>8. Writers' = Writers
      BY <2>6, <2>7, Sums
    <2>9. Readers' = Readers
      BY <2>2, <2>3, <2>5, Sums, PartsFrame
    <2>10. write_cb_ = "write"
      BY <1>16
    <2>11. Progress
      BY <2>3, <2>8, <2>9, <2>10, DownProgress
    <2>12. link # "connecting"
      BY <2>10 DEF LinkInv
    <2>13. RefsInv => refs_' = Due'
      BY <2>4, <2>8, <2>9, PartsFrame, RefsAreDue DEF Due
    <2>14. b \notin {"close", "delete"}
      BY <1>16
    <2> QED
      BY <1>9, <1>10, <2>11, <2>12, <2>13, <2>14, ActorStep
  <1>17. CASE x = "connect" /\ b = "connect"
    <2>1. One(x \in {"read"}) = 0 /\ One(x \in {"write", "connect"}) = 1
      BY <1>17 DEF One
    <2>2. QueuedReads' = QueuedReads /\ QueuedWrites' = QueuedWrites - 1 /\ QueuedWrites > 0
      BY <1>7, <1>13, <1>17, <2>1 DEF QueuedReads, QueuedWrites
    <2>3. /\ FirstReads' = FirstReads /\ Connects' = Connects + 1 /\ Notifies' = Notifies
          /\ Firsts' = Firsts
      <3>1. At({"connect"})' = At({"connect"}) + 1
        BY <1>17, AtMoves
      <3>2. /\ At({"first_read"})' = At({"first_read"}) /\ At({"notify"})' = At({"notify"})
            /\ At(FirstL)' = At(FirstL)
        <4>1. \A L : (pc[w] \notin L /\ b \notin L) => (At(L)' = At(L))
          BY AtMoves
        <4>2. /\ pc[w] \notin FirstL /\ b \notin FirstL /\ pc[w] \notin {"first_read"}
              /\ b \notin {"first_read"} /\ pc[w] \notin {"notify"} /\ b \notin {"notify"}
          BY <1>17 DEF FirstL
        <4> QED
          BY <4>1, <4>2
      <3> QED
        BY <3>1, <3>2 DEF FirstReads, Connects, Notifies, Firsts
    <2>4. InWrite' = InWrite /\ Held' = Held + 1
      BY <1>17, WriteMoves
    <2>5. InRead' = InRead
      BY <1>17, ReadsMoves
    <2>6. Writers' = WriteSum(CreatorWrites, Waiting(writeSide), PollerWrites, QueuedWrites - 1, InWrite)
      BY <2>2, <2>4, Sums, PartsFrame
    <2>7. WriteSum(CreatorWrites, Waiting(writeSide), PollerWrites, QueuedWrites - 1, InWrite)
            = WriteSum(CreatorWrites, Waiting(writeSide), PollerWrites, QueuedWrites, InWrite) - 1
      BY ONLY <1>8 DEF Counts, WriteSum
    <2>8. Writers' = Writers - 1
      BY <2>6, <2>7, Sums
    <2>9. Readers' = Readers
      BY <2>2, <2>3, <2>5, Sums, PartsFrame
    <2>10. Completing' = Completing + 1
      <3>1. Completing' = (Connects + 1) + FirstReads + Firsts + Notifies
        BY <2>3, NextParts
      <3>2. (Connects + 1) + FirstReads + Firsts + Notifies = Completing + 1
        BY ONLY <1>8, Parts DEF Counts
      <3> QED
        BY <3>1, <3>2
    <2>11. write_cb_ = "connect"
      BY <1>17
    <2>12. Progress
      <3>1. /\ Readers + FirstReads <= Readers + FirstReads
            /\ Writers - 1 <= Writers /\ (Writers - 1) + (Completing + 1) <= Writers + Completing
            /\ InWrite <= InWrite /\ Notifies <= Notifies
        BY ONLY <1>8 DEF Counts
      <3> QED
        BY <1>11, <2>3, <2>4, <2>8, <2>9, <2>10, <2>11, <3>1 DEF Progress
    <2>13. link # "connecting"
      <3>1. (link = "connecting") => (QueuedWrites = 0)
        BY DEF LinkInv, QueuedWrites
      <3>2. QueuedWrites > 0
        BY <2>2
      <3> QED
        BY ONLY <3>1, <3>2, <1>8 DEF Counts
    <2>14. RefsInv => refs_' = Due'
      BY <2>4, <2>8, <2>9, PartsFrame, RefsAreDue, DueSums DEF Due
    <2>15. b \notin {"close", "delete"}
      BY <1>17
    <2> QED
      BY <1>9, <1>10, <2>12, <2>13, <2>14, <2>15, ActorStep
  <1> QED
    BY <1>15, <1>16, <1>17

-----------------------------------------------------------------------------
(* The completion of connect() *)

LEMMA CompletingLabels ==
  /\ FirstL = {"wait_first", "schedule_first"}
  /\ \A a \in CompletingL : a \in HeldL /\ a \notin WriteL /\ a \notin ReadL
  /\ CompletingL = {"connect", "first_read", "notify", "wait_first", "schedule_first"}
  /\ "release" \in HeldL /\ "release" \notin WriteL /\ "release" \notin ReadL
  BY DEF FirstL, CompletingL, HeldL, WriteL, ReadL

(* connDone: the first read. *)
LEMMA ConnDoneInv ==
  ASSUME ConnectionInv, NEW w \in Worker,
         ConnDoneAcquires(w) \/ ConnDoneWaits(w) \/ ConnDoneSchedules(w)
  PROVE  ConnectionInv'
  <1>1. /\ TypeInv /\ NestedInv /\ LinkInv /\ ConnectInv /\ TrafficInv
        /\ w \in Actor /\ w # User
    BY Actors DEF ConnectionInv, TokenInv
  <1> USE <1>1
  <1>2. Still /\ nested' = nested /\ writing_' = writing_ /\ writeSide' = writeSide
    BY DEF ConnDoneAcquires, ConnDoneWaits, ConnDoneSchedules, Still, given, socket, poll, frames, client, buffers, reading
  <1> USE <1>2
  <1>3. PICK b \in {"wait_first", "schedule_first", "notify"} : pc' = [pc EXCEPT ![w] = b]
    BY DEF ConnDoneAcquires, ConnDoneWaits, ConnDoneSchedules, Goto
  <1> USE <1>3
  <1>4. pc[w] \in {"first_read", "wait_first", "schedule_first"}
    BY DEF ConnDoneAcquires, ConnDoneWaits, ConnDoneSchedules
  <1>5. /\ creator' = creator /\ poller' = poller /\ load' = load /\ told' = told /\ link' = link
        /\ peer' = peer /\ write_cb_' = write_cb_ /\ ((reading' = "on") => (reading = "on"))
    BY DEF Still
  <1> USE <1>5
  <1>6. /\ pc[w] \in HeldL /\ b \in HeldL /\ pc[w] \notin WriteL /\ b \notin WriteL
        /\ pc[w] \notin ReadL /\ b \notin ReadL /\ b \notin {"close", "delete"}
        /\ pc[w] # "connect" /\ b # "connect" /\ pc[w] # "notify" /\ b # "first_read"
        /\ b # "release_write" /\ pc[w] # "release_write"
    BY <1>4, CompletingLabels
  <1> USE <1>6
  <1>7. Held' = Held /\ InWrite' = InWrite /\ InRead' = InRead /\ Connects' = Connects
    BY WriteMoves, ReadsMoves, LabelMoves
  <1> USE <1>7
  <1>8. Counts
    BY Numbers
  <1>9. Held > 0 /\ (FirstReads > 0 \/ Firsts > 0)
    BY <1>4, CompletingLabels, AtType DEF Held, FirstReads, Firsts
  <1>10. write_cb_ = "write" /\ Readers + FirstReads <= 1
    <2>1. write_cb_ \in {"write", "connect"}
      BY DEF TypeInv
    <2>2. /\ (write_cb_ = "connect") => (Readers + FirstReads = 0)
          /\ (write_cb_ = "write") => (Readers + FirstReads <= 1)
      BY DEF ConnectInv, TrafficInv
    <2>3. FirstReads > 0 \/ Firsts > 0
      BY <1>9
    <2>4. Readers >= Firsts
      BY ONLY <1>8, Parts DEF Counts
    <2>5. Readers + FirstReads # 0
      BY ONLY <1>8, <2>3, <2>4 DEF Counts
    <2> QED
      BY <2>1, <2>2, <2>5
  <1>11. flag' = flag /\ UserRef' = UserRef
    BY UserRefMoves DEF flag
  <1> USE <1>11
  <1>12. NestedInv'
    <2>1. nested[w] # TRUE
      BY DEF NestedInv
    <2> QED
      BY <2>1, NestedMoves
  <1>13. link # "connecting"
    BY <1>10 DEF LinkInv
  <1> DEFINE Done ==
         /\ readSide' \in [can : BOOLEAN, waiting : BOOLEAN] /\ queue' \in Seq({"read", write_cb_})
         /\ refs_' \in Int /\ QueuedWrites' = QueuedWrites
         /\ Readers' + FirstReads' = Readers + FirstReads /\ Completing' = Completing
         /\ RefsInv => refs_' = Due'
  <1>14. ASSUME ConnDoneAcquires(w)
         PROVE  Done
    <2>1. /\ b = "wait_first" /\ pc[w] = "first_read" /\ readSide' = readSide /\ queue' = queue
          /\ refs_' = refs_ + 1
      BY <1>14, AtMoves DEF ConnDoneAcquires, Goto
    <2>2. FirstReads' = FirstReads - 1 /\ Firsts' = Firsts + 1 /\ Notifies' = Notifies
      BY <2>1, LabelMoves, CompletingLabels
    <2>3. Readers' = ReadSum(CreatorReads, Firsts + 1, Waiting(readSide), PollerReads, QueuedReads, InRead)
      BY <2>1, <2>2, Sums, PartsFrame
    <2>4. ReadSum(CreatorReads, Firsts + 1, Waiting(readSide), PollerReads, QueuedReads, InRead)
            = ReadSum(CreatorReads, Firsts, Waiting(readSide), PollerReads, QueuedReads, InRead) + 1
      BY ONLY <1>8 DEF Counts, ReadSum
    <2>5. Readers' = Readers + 1
      BY <2>3, <2>4, Sums
    <2>6. /\ (Readers + 1) + (FirstReads - 1) = Readers + FirstReads
          /\ Connects + (FirstReads - 1) + (Firsts + 1) + Notifies = Completing
      BY ONLY <1>8, Parts DEF Counts
    <2>7. Readers' + FirstReads' = Readers + FirstReads /\ Completing' = Completing
      BY <2>2, <2>5, <2>6, NextParts
    <2>8. Writers' = Writers
      BY <2>1, Sums, PartsFrame
    <2>9. RefsInv => refs_' = Due'
      BY <2>1, <2>5, <2>8, DueSums, RefsAreDue, PartsFrame DEF Due
    <2>10. refs_' \in Int
      <3>1. refs_ \in Int
        BY DEF TypeInv
      <3>2. refs_ + 1 \in Int
        BY ONLY <3>1
      <3> QED
        BY <2>1, <3>2
    <2> QED
      BY <2>1, <2>7, <2>9, <2>10, PartsFrame DEF TypeInv
  <1>15. ASSUME ConnDoneWaits(w), RunsNow(readSide)
         PROVE  Done
    <2>1. /\ b = "schedule_first" /\ pc[w] = "wait_first" /\ readSide' = WhenReady(readSide)
          /\ queue' = queue /\ refs_' = refs_
      BY <1>15, AtMoves DEF ConnDoneWaits, Goto
    <2>2. FirstReads' = FirstReads /\ Firsts' = Firsts /\ Notifies' = Notifies
      BY <2>1, LabelMoves, CompletingLabels
    <2>3. Waiting(readSide)' = Waiting(readSide) /\ readSide' \in [can : BOOLEAN, waiting : BOOLEAN]
      BY <1>15, <2>1, SideFacts DEF TypeInv, Waiting
    <2>4. Readers' = Readers
      BY <2>1, <2>2, <2>3, Sums, PartsFrame
    <2>5. Readers' + FirstReads' = Readers + FirstReads /\ Completing' = Completing
      BY <2>2, <2>4, Parts, NextParts
    <2>6. Writers' = Writers
      BY <2>1, Sums, PartsFrame
    <2>7. RefsInv => refs_' = Due'
      BY <2>1, <2>4, <2>6, RefsAreDue, PartsFrame DEF Due
    <2> QED
      BY <2>1, <2>3, <2>5, <2>7, PartsFrame DEF TypeInv
  <1>16. ASSUME ConnDoneWaits(w), ~RunsNow(readSide)
         PROVE  Done
    <2>1. /\ b = "notify" /\ pc[w] = "wait_first" /\ readSide' = WhenReady(readSide)
          /\ queue' = queue /\ refs_' = refs_
      BY <1>16, AtMoves DEF ConnDoneWaits, Goto
    <2>2. FirstReads' = FirstReads /\ Firsts' = Firsts - 1 /\ Notifies' = Notifies + 1 /\ Firsts > 0
      BY <2>1, LabelMoves, CompletingLabels
    <2>3. Waiting(readSide)' = 1 /\ readSide' \in [can : BOOLEAN, waiting : BOOLEAN]
      BY <1>16, <2>1, SideFacts DEF TypeInv, Waiting
    <2>4. Readers' = ReadSum(CreatorReads, Firsts - 1, 1, PollerReads, QueuedReads, InRead)
      BY <2>1, <2>2, <2>3, Sums, PartsFrame
    <2>5. Waiting(readSide) = 0
      <3>1. Readers + FirstReads <= 1 /\ Firsts > 0
        BY <1>10, <2>2
      <3> QED
        BY ONLY <1>8, <3>1, Parts DEF Counts
    <2>6. ReadSum(CreatorReads, Firsts - 1, 1, PollerReads, QueuedReads, InRead)
            = ReadSum(CreatorReads, Firsts, 0, PollerReads, QueuedReads, InRead)
      BY ONLY <1>8 DEF Counts, ReadSum
    <2>7. Readers' = Readers
      BY <2>4, <2>5, <2>6, Sums
    <2>8. Readers' + FirstReads' = Readers + FirstReads /\ Completing' = Completing
      <3>1. Connects + FirstReads + (Firsts - 1) + (Notifies + 1) = Connects + FirstReads + Firsts + Notifies
        BY ONLY <1>8 DEF Counts
      <3> QED
        BY <2>2, <2>7, <3>1, Parts, NextParts
    <2>9. Writers' = Writers
      BY <2>1, Sums, PartsFrame
    <2>10. RefsInv => refs_' = Due'
      BY <2>1, <2>7, <2>9, RefsAreDue, PartsFrame DEF Due
    <2> QED
      BY <2>1, <2>3, <2>8, <2>10, PartsFrame DEF TypeInv
  <1>17. ASSUME ConnDoneSchedules(w)
         PROVE  Done
    <2>1. /\ b = "notify" /\ pc[w] = "schedule_first" /\ readSide' = readSide
          /\ queue' = Append(queue, "read") /\ refs_' = refs_
      BY <1>17, AtMoves DEF ConnDoneSchedules, Goto
    <2>2. FirstReads' = FirstReads /\ Firsts' = Firsts - 1 /\ Notifies' = Notifies + 1
      BY <2>1, LabelMoves, CompletingLabels
    <2>3. /\ queue' \in Seq({"read", write_cb_}) /\ QueuedReads' = QueuedReads + 1
          /\ QueuedWrites' = QueuedWrites
      BY <2>1, QueueRead
    <2>4. Readers' = ReadSum(CreatorReads, Firsts - 1, Waiting(readSide), PollerReads, QueuedReads + 1, InRead)
      BY <2>1, <2>2, <2>3, Sums, PartsFrame
    <2>5. ReadSum(CreatorReads, Firsts - 1, Waiting(readSide), PollerReads, QueuedReads + 1, InRead)
            = ReadSum(CreatorReads, Firsts, Waiting(readSide), PollerReads, QueuedReads, InRead)
      BY ONLY <1>8 DEF Counts, ReadSum
    <2>6. Readers' = Readers
      BY <2>4, <2>5, Sums
    <2>7. Readers' + FirstReads' = Readers + FirstReads /\ Completing' = Completing
      <3>1. Connects + FirstReads + (Firsts - 1) + (Notifies + 1) = Connects + FirstReads + Firsts + Notifies
        BY ONLY <1>8 DEF Counts
      <3> QED
        BY <2>2, <2>6, <3>1, Parts, NextParts
    <2>8. Writers' = Writers
      BY <2>3, Sums, PartsFrame
    <2>9. RefsInv => refs_' = Due'
      BY <2>1, <2>6, <2>8, RefsAreDue, PartsFrame DEF Due
    <2> QED
      BY <2>1, <2>3, <2>7, <2>9 DEF TypeInv
  <1>18. Done
    BY <1>14, <1>15, <1>16, <1>17
  <1> USE <1>18
  <1>19. TypeInv'
    BY AtMoves DEF TypeInv, Still
  <1>20. Writers' = Writers
    BY Sums, PartsFrame
  <1>21. Progress
    <2>1. /\ Readers + FirstReads <= Readers + FirstReads /\ Writers <= Writers
          /\ Writers + Completing <= Writers + Completing
          /\ Completing <= Completing /\ Connects <= Connects
      BY ONLY <1>8 DEF Counts
    <2> QED
      BY <1>10, <1>20, <2>1 DEF Progress
  <1>22. RefsInv => refs_ > 0
    <2>1. RefsInv => (refs_ >= InRead + Firsts + Waiting(readSide) + Writers + Held + UserRef /\ refs_ \in Nat)
      BY RefsFloor
    <2>2. Held > 0
      BY <1>9
    <2> QED
      BY ONLY <1>8, <2>1, <2>2 DEF Counts
  <1> QED
    BY <1>12, <1>13, <1>19, <1>21, <1>22, ActorStep


(* The callback of asyncConnect is told how it went. *)
LEMMA NotifyInv ==
  ASSUME ConnectionInv, NEW w \in Worker, connectInternal(w) \/ IssueCallback(w)
  PROVE  ConnectionInv'
  <1>1. /\ TypeInv /\ NestedInv /\ UserInv /\ LinkInv /\ ConnectInv /\ TrafficInv /\ CreatorInv
        /\ w \in Actor /\ w # User /\ User \in Actor
    BY Actors DEF ConnectionInv, TokenInv
  <1> USE <1>1
  <1>2. /\ nested' = nested /\ writing_' = writing_ /\ writeSide' = writeSide /\ readSide' = readSide
        /\ queue' = queue /\ creator' = creator /\ poller' = poller /\ load' = load /\ link' = link
        /\ peer' = peer /\ write_cb_' = write_cb_ /\ batch' = batch /\ fd' = fd /\ edge' = edge
        /\ descr' = descr /\ pc[w] = "notify" /\ pc' = [pc EXCEPT ![w] = "release"]
        /\ (reading' = "on") => (reading = "on")
    BY DEF connectInternal, IssueCallback, Goto, given, socket, poll, frames, buffers, reading
  <1> USE <1>2
  <1>3. told' = IF link = "up" THEN "ok" ELSE "failed"
    BY DEF connectInternal, IssueCallback, Tell
  <1>4. refs_' = refs_ + One(~load.blocking /\ link = "up")
    <2>1. refs_ + 0 = refs_
      BY ONLY <1>1 DEF TypeInv
    <2>2. CASE connectInternal(w)
      <3>1. refs_' = refs_ /\ One(~load.blocking /\ link = "up") = 0
        BY <2>2 DEF connectInternal, One
      <3> QED
        BY <2>1, <3>1
    <2>3. CASE IssueCallback(w)
      <3>1. (~load.blocking /\ link = "up") <=> (link = "up")
        BY <2>3 DEF IssueCallback
      <3> QED
        BY <2>3, <3>1 DEF IssueCallback, One
    <2> QED
      BY <2>2, <2>3
  <1>5. /\ pc[w] \in HeldL /\ pc[w] \notin WriteL /\ pc[w] \notin ReadL
        /\ "release" \in HeldL /\ "release" \notin WriteL /\ "release" \notin ReadL
        /\ "release" \notin CompletingL /\ pc[w] \notin FirstL /\ "release" \notin FirstL
    BY CompletingLabels
  <1> USE <1>5
  <1>6. Held' = Held /\ InWrite' = InWrite /\ InRead' = InRead
    BY WriteMoves, ReadsMoves
  <1>7. /\ Connects' = Connects /\ FirstReads' = FirstReads /\ Firsts' = Firsts
        /\ Notifies' = Notifies - 1 /\ Notifies > 0
    <2>1. /\ pc[w] # "connect" /\ pc[w] # "first_read" /\ pc[w] = "notify"
          /\ "release" # "connect" /\ "release" # "first_read" /\ "release" # "notify"
      OBVIOUS
    <2> QED
      BY <2>1, LabelMoves
  <1> USE <1>7
  <1>8. Counts
    BY Numbers
  <1>9. Readers' = Readers /\ Writers' = Writers
    BY <1>6, Sums, PartsFrame
  <1> USE <1>9
  <1>10. write_cb_ \in {"write", "connect"}
    BY DEF TypeInv
  <1>11. Completing # 0 /\ Notifies # 0
    <2>1. Notifies > 0
      OBVIOUS
    <2> QED
      BY ONLY <1>8, <2>1, Parts DEF Counts
  <1>12. told = "no" /\ creator \notin {"async_connect", "connect"} /\ pc[User] = "connecting"
    <2>1. told = "no"
      BY <1>11 DEF UserInv
    <2>2. Writers + Completing # 0
      BY ONLY <1>8, <1>11 DEF Counts
    <2> QED
      BY <2>1, <2>2 DEF UserInv, CreatorInv
  <1> USE <1>12
  <1>13. Completing' = 0 /\ (write_cb_ = "connect" => (Writers = 0 /\ link = "refused"))
    <2>1. Completing' = Connects + FirstReads + Firsts + (Notifies - 1)
      BY NextParts
    <2>2. /\ (write_cb_ = "connect") => (Writers + Completing <= 1)
          /\ (write_cb_ = "write") => (Completing <= 1)
      BY DEF ConnectInv, TrafficInv
    <2>3. /\ Completing <= 1 /\ (write_cb_ = "connect" => Writers = 0)
      BY ONLY <1>8, <1>10, <1>11, <2>2 DEF Counts
    <2>4. Connects + FirstReads + Firsts + (Notifies - 1) = 0
      BY ONLY <1>8, <1>11, <2>3, Parts DEF Counts
    <2>5. (write_cb_ = "connect") => (link = "refused")
      BY <1>11 DEF ConnectInv
    <2> QED
      BY <2>1, <2>3, <2>4, <2>5
  <1> USE <1>13
  <1>14. told' \in {"ok", "failed"} /\ (told' = "ok" => (link = "up" /\ write_cb_ = "write"))
    BY <1>3, <1>10
  <1>15. link # "connecting" /\ side # "server" /\ side' = side
    <2>1. (side = "server" /\ write_cb_ = "write") => Completing = 0
      BY DEF TrafficInv
    <2>2. (write_cb_ = "connect") => side = "client"
      BY DEF ConnectInv
    <2>3. link # "connecting"
      BY DEF LinkInv
    <2> QED
      BY <1>10, <1>11, <2>1, <2>2, <2>3 DEF side
  <1> USE <1>15
  <1>16. refs_' \in Int
    <2>1. refs_ \in Int /\ One(~load.blocking /\ link = "up") \in {0, 1}
      BY OneType DEF TypeInv
    <2>2. refs_ + One(~load.blocking /\ link = "up") \in Int
      BY ONLY <2>1
    <2> QED
      BY <1>4, <2>2
  <1>17. pc' = [v \in Actor |-> pc'[v]] /\ pc'[w] = "release" /\ \A v \in Actor : (v # w) => (pc'[v] = pc[v])
    BY AtMoves
  <1> USE <1>17
  <1>18. TypeInv'
    BY <1>14, <1>16 DEF TypeInv
  <1>19. NestedInv'
    <2>1. nested[w] # TRUE
      BY DEF NestedInv, WriteL
    <2> QED
      BY <2>1, NestedMoves
  <1>20. UserInv'
    BY <1>14 DEF UserInv
  <1>21. ConnectInv'
    <2>1. 0 + 0 <= 1
      BY ONLY SMT
    <2> QED
      BY <1>6, <2>1 DEF ConnectInv
  <1>22. TrafficInv'
    <2>1. 0 <= 1
      BY ONLY SMT
    <2>2. flag' = flag
      BY DEF flag
    <2> QED
      BY <2>1, <2>2 DEF TrafficInv
  <1>23. CreatorInv'
    BY DEF CreatorInv
  <1>24. LinkInv'
    BY DEF LinkInv
  <1>25. ASSUME Kept, RefsInv
         PROVE  RefsInv'
    <2>1. UserRef = 0
      BY DEF UserRef, One
    <2>2. UserRef' = One(~load.blocking /\ link = "up")
      <3>1. pc'[User] = "connecting" /\ "connecting" \notin LeavingL
        BY DEF LeavingL
      <3>2. (~load.blocking /\ link = "up")
              <=> (~load'.blocking /\ told' = "ok" /\ pc'[User] \notin LeavingL)
        BY <1>3, <1>14, <3>1
      <3> QED
        BY <3>2 DEF UserRef, One
    <2>3. refs_ = DueSum(Readers, Writers, One(creator = "acquire"), Held, 0)
      BY <1>25, <2>1, RefsAreDue DEF Due
    <2>4. PICK u \in {0, 1} : u = One(~load.blocking /\ link = "up")
      BY OneType
    <2>5. DueSum(Readers, Writers, One(creator = "acquire"), Held, u)
            = DueSum(Readers, Writers, One(creator = "acquire"), Held, 0) + u
      BY ONLY <1>8, u \in {0, 1} DEF Counts, DueSum
    <2>6. refs_' = Due'
      BY <1>4, <1>6, <2>2, <2>3, <2>4, <2>5, PartsFrame DEF Due
    <2>7. refs_ > 0
      <3>1. Held > 0
        BY AtType DEF Held
      <3>2. refs_ >= InRead + Firsts + Waiting(readSide) + Writers + Held + UserRef /\ refs_ \in Nat
        BY <1>25, RefsFloor
      <3> QED
        BY ONLY <1>8, <3>1, <3>2 DEF Counts
    <2>8. \A v \in Actor : (pc'[v] \in {"close", "delete"}) => (pc'[v] = pc[v])
      OBVIOUS
    <2> QED
      BY <1>25, <2>6, <2>7, <2>8, RefsStill
  <1>26. Kept' => Kept
    BY DEF Kept
  <1> QED
    BY <1>18, <1>19, <1>20, <1>21, <1>22, <1>23, <1>24, <1>25, <1>26 DEF ConnectionInv, TokenInv

(* No connect is in the queue that its callback replaces. *)
LEMMA CountNone ==
  ASSUME NEW S, NEW s \in Seq(S), NEW x, Count(s, x) = 0
  PROVE  s \in Seq(S \ x)
  <1>1. IsFiniteSet(Places(s, x)) /\ Cardinality(Places(s, x)) = 0
    BY CountType, CountIs
  <1>2. Places(s, x) = {}
    BY ONLY <1>1, FS_EmptySet
  <1>3. \A i \in 1..Len(s) : s[i] \in S \ x
    BY ONLY <1>2 DEF Places
  <1> QED
    BY ONLY <1>3

LEMMA DoConnectInv ==
  ASSUME ConnectionInv, NEW w \in Worker, doConnect(w)
  PROVE  ConnectionInv'
  <1>1. /\ TypeInv /\ NestedInv /\ UserInv /\ LinkInv /\ ConnectInv /\ TrafficInv /\ CreatorInv
        /\ w \in Actor /\ w # User /\ User \in Actor
    BY Actors DEF ConnectionInv, TokenInv
  <1> USE <1>1
  <1>2. /\ nested' = nested /\ writing_' = writing_ /\ writeSide' = writeSide /\ readSide' = readSide
        /\ queue' = queue /\ creator' = creator /\ poller' = poller /\ load' = load /\ link' = link
        /\ peer' = peer /\ batch' = batch /\ fd' = fd /\ edge' = edge /\ told' = told
        /\ descr' = descr /\ refs_' = refs_ /\ pc[w] = "connect"
        /\ (reading' = "on") => (reading = "on")
    BY DEF doConnect, socket, poll, frames, client, buffers, reading
  <1> USE <1>2
  <1>3. PICK b \in {"first_read", "notify"} :
          /\ pc' = [pc EXCEPT ![w] = b]
          /\ \/ b = "first_read" /\ write_cb_' = "write"
             \/ b = "notify" /\ write_cb_' = write_cb_ /\ link # "up"
    BY DEF doConnect, Goto, setUpCalls
  <1> USE <1>3
  <1>4. /\ pc[w] \in HeldL /\ b \in HeldL /\ pc[w] \notin WriteL /\ b \notin WriteL
        /\ pc[w] \notin ReadL /\ b \notin ReadL /\ b \notin {"close", "delete"}
        /\ pc[w] \notin FirstL /\ b \notin FirstL
        /\ b # "connect" /\ pc[w] # "notify" /\ pc[w] # "first_read"
        /\ b # "release_write" /\ pc[w] # "release_write"
    BY CompletingLabels
  <1> USE <1>4
  <1>5. Held' = Held /\ InWrite' = InWrite /\ InRead' = InRead /\ Firsts' = Firsts
    BY WriteMoves, ReadsMoves, LabelMoves
  <1> USE <1>5
  <1>6. Connects' = Connects - 1 /\ Connects > 0
    BY LabelMoves
  <1>7. Counts
    BY Numbers
  <1>8. Readers' = Readers /\ Writers' = Writers
    BY Sums, PartsFrame
  <1>9. Connects # 0
    <2>1. Connects > 0
      BY <1>6
    <2> QED
      BY ONLY <1>7, <2>1 DEF Counts
  <1>10. write_cb_ = "connect" /\ link # "connecting"
    BY <1>9 DEF TypeInv, TrafficInv, LinkInv
  <1> USE <1>10
  <1>11. /\ Readers + FirstReads = 0 /\ Writers + Completing <= 1 /\ InWrite = 0
         /\ side = "client" /\ creator # "accept"
    BY DEF ConnectInv
  <1>12. /\ Connects = 1 /\ FirstReads = 0 /\ Firsts = 0 /\ Notifies = 0 /\ Readers = 0 /\ Writers = 0
         /\ Writers + Completing # 0 /\ Completing # 0 /\ QueuedWrites = 0
    <2>1. Readers = 0 /\ FirstReads = 0
      BY ONLY <1>7, <1>11 DEF Counts
    <2>2. Connects = 1 /\ Firsts = 0 /\ Notifies = 0 /\ Completing = 1 /\ Writers = 0
      <3>1. Completing >= 1 /\ Writers + Completing <= 1
        BY ONLY <1>7, <1>9, <1>11, Parts DEF Counts
      <3>2. Completing = 1 /\ Writers = 0
        BY ONLY <1>7, <3>1 DEF Counts
      <3>3. Connects + FirstReads + Firsts + Notifies = 1
        BY <3>2, Parts
      <3>4. Connects = 1 /\ Firsts = 0 /\ Notifies = 0
        BY ONLY <1>7, <1>9, <3>3 DEF Counts
      <3> QED
        BY <3>2, <3>4
    <2>3. QueuedWrites = 0 /\ Writers + Completing # 0 /\ Completing # 0
      BY ONLY <1>7, <2>2, Parts DEF Counts
    <2> QED
      BY <2>1, <2>2, <2>3
  <1> USE <1>12
  <1>13. told = "no" /\ creator \notin {"async_connect", "connect"} /\ pc[User] = "connecting"
    BY DEF UserInv, CreatorInv
  <1>14. Connects' = 0 /\ Completing' = 1
    <2>1. /\ 1 - 1 = 0 /\ 0 + 1 = 1 /\ 0 + 1 + 0 + 0 = 1 /\ 0 + 0 + 0 + (0 + 1) = 1
      BY ONLY SMT
    <2>2. CASE b = "first_read"
      <3>1. FirstReads' = FirstReads + 1 /\ Notifies' = Notifies
        BY <2>2, LabelMoves
      <3> QED
        BY <1>6, <2>1, <3>1, NextParts
    <2>3. CASE b = "notify"
      <3>1. FirstReads' = FirstReads /\ Notifies' = Notifies + 1
        BY <2>3, LabelMoves
      <3> QED
        BY <1>6, <2>1, <3>1, NextParts
    <2> QED
      BY <2>2, <2>3
  <1>15. pc' = [v \in Actor |-> pc'[v]] /\ pc'[w] = b /\ \A v \in Actor : (v # w) => (pc'[v] = pc[v])
    BY AtMoves
  <1>16. TypeInv'
    <2>1. queue \in Seq({"read", "connect"} \ {"write", "connect"})
      BY CountNone DEF TypeInv, QueuedWrites
    <2>2. queue \in Seq({"read", "write"})
      <3>1. {"read", "connect"} \ {"write", "connect"} = {"read"}
        BY ONLY SMT
      <3>2. \A q : q \in Seq({"read"}) => q \in Seq({"read", "write"})
        BY ONLY SMT
      <3> QED
        BY <2>1, <3>1, <3>2
    <2>3. write_cb_' \in {"write", "connect"} /\ queue' \in Seq({"read", write_cb_'})
      BY <2>2 DEF TypeInv
    <2> QED
      BY <1>15, <2>3 DEF TypeInv
  <1>17. NestedInv'
    <2>1. nested[w] # TRUE
      BY DEF NestedInv
    <2> QED
      BY <2>1, NestedMoves
  <1>18. UserInv'
    BY <1>13, <1>15 DEF UserInv
  <1>19. side' = side /\ flag' = flag
    BY DEF side, flag
  <1> USE <1>19
  <1>20. 0 + 1 = 1 /\ 0 + 1 <= 1 /\ 0 + 1 > 0 /\ 0 <= 1 /\ 1 <= 1 /\ 0 + 0 = 0
    BY ONLY SMT
  <1>21. ConnectInv' /\ TrafficInv'
    <2>1. CASE b = "first_read"
      <3>1. FirstReads' = 1 /\ write_cb_' = "write"
        BY <1>20, <2>1, LabelMoves
      <3> QED
        BY <1>8, <1>11, <1>13, <1>14, <1>20, <3>1 DEF ConnectInv, TrafficInv
    <2>2. CASE b = "notify"
      <3>1. FirstReads' = 0 /\ write_cb_' = "connect" /\ link' = "refused"
        BY <2>2, LabelMoves DEF TypeInv
      <3> QED
        BY <1>8, <1>11, <1>14, <1>20, <3>1 DEF ConnectInv, TrafficInv
    <2> QED
      BY <2>1, <2>2
  <1>22. CreatorInv' /\ LinkInv'
    BY <1>11, <1>13 DEF CreatorInv, LinkInv
  <1>23. ASSUME Kept, RefsInv
         PROVE  RefsInv'
    <2>1. UserRef' = UserRef
      BY UserRefMoves
    <2>2. refs_' = Due'
      BY <1>8, <1>23, <2>1, PartsFrame, RefsAreDue DEF Due
    <2>3. \A v \in Actor : (pc'[v] \in {"close", "delete"}) => (pc'[v] = pc[v])
      BY <1>15
    <2> QED
      BY <1>23, <2>2, <2>3, RefsStill
  <1>24. Kept' => Kept
    BY DEF Kept
  <1> QED
    BY <1>16, <1>17, <1>18, <1>21, <1>22, <1>23, <1>24 DEF ConnectionInv, TokenInv

-----------------------------------------------------------------------------
(* startWrite, release and the destructor *)

(* Someone holds a reference when a write is started: the thread that is   *)
(* in doRead, or the read that is always there while the peer is.          *)
LEMMA StarterIsHeld ==
  ASSUME ConnectionInv, Kept, RefsInv, NEW w \in Actor, pc[w] = "start_write"
  PROVE  refs_ > 0
  <1>1. TypeInv /\ UserInv /\ TrafficInv /\ CreatorInv /\ Counts
    BY Numbers DEF ConnectionInv, TokenInv
  <1> USE <1>1
  <1>2. refs_ >= InRead + Firsts + Waiting(readSide) + Writers + Held + UserRef /\ refs_ \in Nat
    BY RefsFloor
  <1>3. CASE w \in Worker
    <2>1. InRead > 0
      BY <1>3, AtType DEF Reads, ReadL
    <2> QED
      BY ONLY <1>1, <1>2, <2>1 DEF Counts
  <1>4. CASE w = User /\ ~load.blocking
    <2>1. told = "ok" /\ pc[User] \notin LeavingL
      BY <1>4 DEF UserInv, LeavingL
    <2>2. UserRef = 1
      BY <1>4, <2>1 DEF UserRef, One
    <2> QED
      BY ONLY <1>1, <1>2, <2>2 DEF Counts
  <1>5. CASE w = User /\ load.blocking
    <2>1. told = "ok" /\ write_cb_ = "write" /\ Completing = 0
      BY <1>5 DEF UserInv
    <2>2. side = "client"
      <3>1. side \in {"server", "client"}
        BY LoadAssumption DEF TypeInv, side
      <3> QED
        BY <2>1, <3>1 DEF TrafficInv
    <2>3. reading = "on"
      BY <1>5, <2>2 DEF Kept
    <2>4. Readers + FirstReads > 0
      BY <2>1, <2>2, <2>3 DEF TrafficInv
    <2>5. One(creator = "acquire") = 0
      BY <2>2 DEF CreatorInv, One
    <2>6. Connects + FirstReads + Firsts + Notifies = 0
      BY <2>1, Parts
    <2>7. FirstReads = 0
      BY ONLY <1>1, <2>6 DEF Counts
    <2>8. refs_ = Readers + Writers - One(creator = "acquire") + Held + UserRef
      BY DEF RefsInv
    <2> QED
      BY ONLY <1>1, <2>4, <2>5, <2>7, <2>8 DEF Counts
  <1> QED
    BY <1>3, <1>4, <1>5, Actors

LEMMA StartsWriting ==
  ASSUME ConnectionInv, NEW w \in Actor, pc[w] = "start_write", pc' = [pc EXCEPT ![w] = "size"],
         nested' = [nested EXCEPT ![w] = TRUE], Still, Alone, refs_' = refs_ + 1,
         writing_ = FALSE, writing_' = TRUE
  PROVE  ConnectionInv'
  <1>1. /\ TypeInv /\ NestedInv /\ UserInv /\ LinkInv /\ ConnectInv /\ TrafficInv /\ CreatorInv
        /\ User \in Actor
    BY Actors DEF ConnectionInv, TokenInv
  <1> USE <1>1
  <1>2. /\ load' = load /\ link' = link /\ write_cb_' = write_cb_ /\ told' = told /\ peer' = peer
        /\ creator' = creator /\ batch' = batch /\ poller' = poller
        /\ fd' = fd /\ edge' = edge /\ descr' = descr /\ ((reading' = "on") => (reading = "on"))
        /\ readSide' = readSide /\ writeSide' = writeSide /\ queue' = queue
    BY DEF Still, Alone
  <1> USE <1>2
  <1>3. /\ pc' = [v \in Actor |-> pc'[v]] /\ pc'[w] = "size"
        /\ \A v \in Actor : (v # w) => (pc'[v] = pc[v])
    BY AtMoves
  <1> USE <1>3
  <1>4. /\ nested' \in [Actor -> BOOLEAN] /\ nested'[w] = TRUE
        /\ \A v \in Actor : (v # w) => (nested'[v] = nested[v])
    BY DEF TypeInv
  <1> USE <1>4
  <1>5. /\ "start_write" \notin HeldL /\ "start_write" \notin WriteL /\ "start_write" \in ReadL
        /\ "start_write" \notin CompletingL /\ "start_write" \notin LeavingL
        /\ "size" \notin HeldL /\ "size" \in WriteL /\ "size" \notin CompletingL /\ "size" \notin LeavingL
    BY DEF HeldL, WriteL, ReadL, CompletingL, LeavingL
  <1> USE <1>5
  <1>6. InWrite' = InWrite + 1 /\ Held' = Held
    BY ZenonT(60), WriteMoves
  <1>7. /\ FirstReads' = FirstReads /\ Connects' = Connects /\ Notifies' = Notifies
        /\ Firsts' = Firsts /\ Completing' = Completing
    BY NotCompleting
  <1> USE <1>7
  <1>8. InRead' = InRead
    <2>1. Reads(w) <=> Reads(w)'
      BY DEF Reads
    <2> QED
      BY <2>1, InReadMoves
  <1>9. Counts
    BY Numbers
  <1>10. write_cb_ = "write"
    <2>1. CASE w \in Worker
      <3>1. InRead > 0
        BY <2>1, AtType DEF Reads
      <3>2. Readers + FirstReads # 0
        <4>1. Readers >= InRead
          BY ONLY <1>9, Parts DEF Counts
        <4> QED
          BY ONLY <1>9, <3>1, <4>1 DEF Counts
      <3> QED
        BY <3>2 DEF ConnectInv, TypeInv
    <2>2. CASE w = User
      BY <2>2 DEF UserInv
    <2> QED
      BY <2>1, <2>2, Actors
  <1> USE <1>10
  <1>11. Writers = 0
    <2>1. flag = "clear"
      BY DEF flag
    <2> QED
      BY <2>1 DEF TrafficInv
  <1>12. Readers' = Readers
    BY <1>8, Sums, PartsFrame
  <1>13. Writers' = Writers + 1
    <2>1. Writers' = WriteSum(CreatorWrites, Waiting(writeSide), PollerWrites, QueuedWrites, InWrite + 1)
      BY <1>6, Sums, PartsFrame
    <2>2. WriteSum(CreatorWrites, Waiting(writeSide), PollerWrites, QueuedWrites, InWrite + 1)
            = WriteSum(CreatorWrites, Waiting(writeSide), PollerWrites, QueuedWrites, InWrite) + 1
      BY ONLY <1>9 DEF Counts, WriteSum
    <2> QED
      BY <2>1, <2>2, Sums
  <1>14. TypeInv'
    <2>1. refs_ + 1 \in Int
      BY ONLY <1>1 DEF TypeInv
    <2> QED
      BY <2>1 DEF TypeInv
  <1>15. NestedInv'
    BY DEF NestedInv
  <1>16. UserInv'
    BY DEF UserInv
  <1>17. side' = side
    BY DEF side
  <1>18. ConnectInv' /\ CreatorInv' /\ LinkInv'
    BY <1>12, <1>17 DEF ConnectInv, TrafficInv, CreatorInv, LinkInv
  <1>19. TrafficInv'
    <2>1. 0 + 1 <= 1
      BY ONLY SMT
    <2>2. flag' # "clear"
      BY DEF flag
    <2> QED
      BY <1>11, <1>12, <1>13, <1>17, <2>1, <2>2 DEF TrafficInv
  <1>20. ASSUME Kept, RefsInv
         PROVE  RefsInv'
    <2>1. refs_ > 0
      BY <1>20, StarterIsHeld
    <2>2. UserRef' = UserRef
      BY UserRefMoves
    <2>3. refs_' = Due'
      BY <1>6, <1>12, <1>13, <1>20, <2>2, DueSums, RefsAreDue, PartsFrame DEF Due
    <2>4. \A v \in Actor : (pc'[v] \in {"close", "delete"}) => (pc'[v] = pc[v])
      OBVIOUS
    <2> QED
      BY <1>20, <2>1, <2>3, <2>4, RefsStill
  <1>21. Kept' => Kept
    BY <1>17 DEF Kept
  <1> QED
    BY <1>14, <1>15, <1>16, <1>18, <1>19, <1>20, <1>21 DEF ConnectionInv, TokenInv

(* The last reference goes. *)
LEMMA LastRelease ==
  ASSUME TypeInv, RefsInv, NEW w \in Actor, pc'[w] = "close",
         \A v \in Actor : (v # w) => (pc'[v] = pc[v]),
         refs_ = 1, refs_' = 0, refs_' = Due',
         creator' = creator, fd' = fd, edge' = edge, descr' = descr, batch' = batch
  PROVE  RefsInv'
  <1>1. refs_ # 0
    BY SMT
  <1>2. creator \notin Early /\ fd # "closed" /\ descr \notin {"garbage", "freed"}
    BY <1>1 DEF RefsInv
  <1>3. \A v \in Actor : (pc'[v] \in {"close", "delete"}) => (v = w)
    BY <1>1 DEF RefsInv
  <1>4. refs_' = Readers' + Writers' - One(creator = "acquire")' + Held' + UserRef'
    BY DEF Due, DueSum
  <1>5. \A v \in Actor : pc'[v] # "delete"
    BY <1>3
  <1>6. edge' = TRUE => fd' = "open"
    BY DEF RefsInv
  <1> QED
    BY <1>2, <1>4, <1>5, <1>6 DEF RefsInv

LEMMA ReleaseInv ==
  ASSUME ConnectionInv, NEW w \in Actor, Release(w), UNCHANGED client
  PROVE  ConnectionInv'
  <1>1. /\ TypeInv /\ NestedInv /\ UserInv /\ LinkInv /\ TokenInv /\ User \in Actor
    BY Actors DEF ConnectionInv, TokenInv
  <1> USE <1>1
  <1>2. /\ Still /\ Alone /\ writing_' = writing_ /\ refs_' = refs_ - 1
        /\ pc[w] \in {"release", "release_write"} /\ nested' = [nested EXCEPT ![w] = FALSE]
    BY DEF Release, Still, Alone, given, socket, poll, client, buffers, reading
  <1> USE <1>2
  <1>3. PICK b : /\ pc' = [pc EXCEPT ![w] = b]
                 /\ \/ b = "close" /\ refs_ = 1
                    \/ b = "request" /\ w # User /\ pc[w] = "release_write" /\ nested[w]
                    \/ b = "sent" /\ w = User /\ pc[w] = "release_write" /\ nested[w]
                    \/ b = "idle" /\ ~(pc[w] = "release_write" /\ nested[w])
    BY DEF Release, Goto, AfterWrite
  <1> USE <1>3
  <1>4. /\ load' = load /\ link' = link /\ write_cb_' = write_cb_ /\ told' = told /\ peer' = peer
        /\ creator' = creator /\ batch' = batch /\ poller' = poller
        /\ fd' = fd /\ edge' = edge /\ descr' = descr /\ ((reading' = "on") => (reading = "on"))
        /\ readSide' = readSide /\ writeSide' = writeSide /\ queue' = queue
    BY DEF Still, Alone
  <1> USE <1>4
  <1>5. /\ pc' = [v \in Actor |-> pc'[v]] /\ pc'[w] = b
        /\ \A v \in Actor : (v # w) => (pc'[v] = pc[v])
    BY AtMoves
  <1> USE <1>5
  <1>6. /\ nested' \in [Actor -> BOOLEAN] /\ nested'[w] = FALSE
        /\ \A v \in Actor : (v # w) => (nested'[v] = nested[v])
    BY DEF TypeInv
  <1> USE <1>6
  <1>7. b \in {"close", "sent", "request", "idle"} /\ (b = "close" => refs_ = 1)
    OBVIOUS
  <1> USE <1>7
  <1>8. /\ pc[w] \in HeldL /\ pc[w] \notin WriteL /\ pc[w] \notin ReadL /\ pc[w] \notin CompletingL
        /\ b \notin HeldL /\ b \notin WriteL /\ b \notin CompletingL /\ b # "release_write"
        /\ (b # "request" => b \notin ReadL) /\ "request" \in ReadL
    BY DEF HeldL, WriteL, ReadL, CompletingL
  <1> USE <1>8
  <1>9. Held' = Held - 1 /\ InWrite' = InWrite
    BY WriteMoves
  <1>10. /\ FirstReads' = FirstReads /\ Connects' = Connects /\ Notifies' = Notifies
         /\ Firsts' = Firsts /\ Completing' = Completing
    BY NotCompleting
  <1>11. Counts /\ Held > 0
    BY Numbers, AtType DEF Held
  <1>12. nested[w] => pc[w] = "release_write"
    <2>1. nested[w] => nested[w] = TRUE
      BY DEF TypeInv
    <2> QED
      BY <2>1 DEF NestedInv
  <1>13. (w = User /\ pc[w] = "release_write") => nested[w]
    <2>1. (w = User /\ pc[w] = "release_write") => nested[w] = TRUE
      BY DEF NestedInv
    <2> QED
      BY <2>1
  <1>14. Kept /\ RefsInv => refs_ >= InRead + Firsts + Waiting(readSide) + Writers + Held + UserRef
    BY RefsFloor
  <1>15. \/ Reads(w) <=> Reads(w)'
         \/ Reads(w) /\ ~Reads(w)' /\ b = "close" /\ refs_ = 1
    <2>1. /\ Reads(w) <=> (w \in Worker /\ nested[w])
          /\ Reads(w)' <=> (w \in Worker /\ b = "request")
      BY DEF Reads
    <2>2. w = User => w \notin Worker
      BY Actors
    <2> QED
      BY <1>12, <2>1, <2>2
  <1>16. \/ InRead' = InRead
         \/ InRead' = InRead - 1 /\ InRead > 0 /\ b = "close" /\ refs_ = 1
    BY <1>15, InReadMoves, AtType
  <1>17. (Kept /\ RefsInv) => InRead' = InRead
    <2>1. (InRead > 0 /\ refs_ = 1) => ~(refs_ >= InRead + Firsts + Waiting(readSide) + Writers + Held + UserRef)
      <3>1. Held > 0
        BY <1>11
      <3> QED
        BY ONLY <1>11, <3>1 DEF Counts
    <2> QED
      BY <1>14, <1>16, <2>1
  <1>18. Readers' = Readers \/ (Readers' = Readers - 1 /\ ~Kept)
    <2>1. Readers' = ReadSum(CreatorReads, Firsts, Waiting(readSide), PollerReads, QueuedReads, InRead')
      BY <1>10, Sums, PartsFrame
    <2>2. ReadSum(CreatorReads, Firsts, Waiting(readSide), PollerReads, QueuedReads, InRead - 1)
            = ReadSum(CreatorReads, Firsts, Waiting(readSide), PollerReads, QueuedReads, InRead) - 1
      BY ONLY <1>11 DEF Counts, ReadSum
    <2>3. InRead' = InRead \/ (InRead' = InRead - 1 /\ ~Kept)
      BY <1>16, <1>17 DEF ConnectionInv
    <2> QED
      BY <2>1, <2>2, <2>3, Sums
  <1>19. Writers' = Writers /\ flag' = flag
    BY <1>9, Sums, PartsFrame DEF flag
  <1>20. ~Kept => reading' # "on"
    BY DEF Kept
  <1>21. Progress
    BY <1>9, <1>10, <1>18, <1>19, <1>20, DownProgress
  <1>22. TypeInv'
    <2>1. refs_ - 1 \in Int
      BY ONLY <1>1 DEF TypeInv
    <2> QED
      BY <2>1 DEF TypeInv
  <1>23. NestedInv'
    BY DEF NestedInv
  <1>24. w = User => told = "ok"
    BY DEF UserInv
  <1>25. (link = "connecting") => (QueuedWrites' = 0 /\ Connects' = 0 /\ writeSide'.can = FALSE)
    BY <1>10, PartsFrame DEF LinkInv, QueuedWrites
  <1>26. TokenInv'
    BY <1>21, <1>22, <1>23, <1>24, <1>25, TokenStep
  <1>27. ASSUME Kept, RefsInv
         PROVE  RefsInv'
    <2>1. UserRef' = UserRef
      <3>1. /\ "release" \in LeavingL /\ "close" \in LeavingL /\ "idle" \in LeavingL
            /\ "release_write" \notin LeavingL /\ "sent" \notin LeavingL
        BY DEF LeavingL
      <3>2. ASSUME w = User, ~load.blocking, pc[w] = "release_write", refs_ = 1
            PROVE  FALSE
        <4>1. UserRef = 1
          BY <1>24, <3>1, <3>2 DEF UserRef, One
        <4>2. refs_ >= InRead + Firsts + Waiting(readSide) + Writers + Held + UserRef /\ Held > 0
          BY <1>11, <1>14, <1>27
        <4> QED
          BY ONLY <1>11, <3>2, <4>1, <4>2 DEF Counts
      <3>3. \/ w # User \/ load.blocking
            \/ (pc[w] \in LeavingL) <=> (b \in LeavingL)
        <4>1. CASE pc[w] = "release"
          <5>1. b \in {"close", "idle"}
            BY <4>1
          <5> QED
            BY <3>1, <4>1, <5>1
        <4>2. CASE pc[w] = "release_write"
          BY <1>13, <3>1, <3>2, <4>2
        <4> QED
          BY <4>1, <4>2
      <3> QED
        BY <3>3, UserRefMoves
    <2>2. Readers' = Readers
      BY <1>18, <1>27
    <2>3. refs_' = Due'
      BY <1>9, <1>19, <1>27, <2>1, <2>2, DueSums, RefsAreDue, PartsFrame DEF Due
    <2>4. CASE b = "close" /\ refs_ = 1
      <3>1. 1 - 1 = 0
        BY ONLY SMT
      <3>2. refs_' = 0
        BY <2>4, <3>1
      <3> QED
        BY <1>27, <2>3, <2>4, <3>2, LastRelease
    <2>5. CASE b # "close"
      <3>1. refs_ > 0
        <4>1. refs_ >= InRead + Firsts + Waiting(readSide) + Writers + Held + UserRef /\ Held > 0 /\ refs_ \in Nat
          BY <1>11, <1>27, RefsFloor
        <4> QED
          BY ONLY <1>11, <4>1 DEF Counts
      <3>2. \A v \in Actor : (pc'[v] \in {"close", "delete"}) => (pc'[v] = pc[v])
        BY <2>5
      <3> QED
        BY <1>27, <2>3, <3>1, <3>2, RefsStill
    <2> QED
      BY <2>4, <2>5
  <1>28. Kept' => Kept
    BY DEF Kept, side
  <1> QED
    BY <1>26, <1>27, <1>28 DEF ConnectionInv

(* The destructor: nothing that is counted changes. *)
LEMMA DestroyInv ==
  ASSUME ConnectionInv, NEW w \in Actor, DeleteStep(w), UNCHANGED client
  PROVE  ConnectionInv'
  <1>1. /\ TypeInv /\ NestedInv /\ UserInv /\ LinkInv /\ TokenInv
    BY DEF ConnectionInv, TokenInv
  <1> USE <1>1
  <1>2. /\ load' = load /\ link' = link /\ write_cb_' = write_cb_ /\ told' = told /\ peer' = peer
        /\ creator' = creator /\ batch' = batch /\ poller' = poller /\ writing_' = writing_
        /\ readSide' = readSide /\ writeSide' = writeSide /\ queue' = queue /\ refs_' = refs_
        /\ nested' = nested /\ edge' \in {edge, FALSE} /\ ((reading' = "on") => (reading = "on"))
    BY DEF DeleteStep, CloseSocket, delDescriptor, given, socket, poll, frames, client, buffers, reading
  <1> USE <1>2
  <1>3. PICK b : /\ pc' = [pc EXCEPT ![w] = b]
                 /\ \/ /\ pc[w] = "close" /\ b = "delete"
                       /\ fd' = "closed" /\ edge' = FALSE /\ descr' = descr
                    \/ /\ pc[w] = "delete" /\ (b = "idle" \/ (b = "sent" /\ w = User /\ load.blocking))
                       /\ fd' = fd /\ edge' = edge /\ descr' = "garbage"
    BY DEF DeleteStep, CloseSocket, delDescriptor, Goto, poll
  <1> USE <1>3
  <1>4. /\ pc[w] \notin HeldL /\ pc[w] \notin WriteL /\ pc[w] \notin ReadL /\ pc[w] \notin CompletingL
        /\ b \notin HeldL /\ b \notin WriteL /\ b \notin ReadL /\ b \notin CompletingL
        /\ pc[w] \in LeavingL /\ (b \in LeavingL \/ load.blocking) /\ b # "release_write" /\ pc[w] # "release_write"
        /\ b # "connecting" /\ pc[w] \notin {"connecting", "idle"}
    BY DEF HeldL, WriteL, ReadL, CompletingL, LeavingL
  <1> USE <1>4
  <1>5. Held' = Held /\ InWrite' = InWrite /\ InRead' = InRead
    BY WriteMoves, ReadsMoves
  <1>6. /\ FirstReads' = FirstReads /\ Connects' = Connects /\ Notifies' = Notifies
        /\ Firsts' = Firsts /\ Completing' = Completing
    BY NotCompleting
  <1>7. Readers' = Readers /\ Writers' = Writers /\ flag' = flag
    BY <1>5, <1>6, Sums, PartsFrame DEF flag
  <1>8. /\ pc' = [v \in Actor |-> pc'[v]] /\ pc'[w] = b
        /\ \A v \in Actor : (v # w) => (pc'[v] = pc[v])
    BY AtMoves
  <1>9. TypeInv'
    BY ZenonT(60), <1>8 DEF TypeInv
  <1>10. NestedInv'
    <2>1. nested[w] # TRUE
      BY DEF NestedInv
    <2> QED
      BY <2>1, NestedMoves
  <1>11. Progress
    <2>1. Counts
      BY Numbers
    <2>2. /\ Readers + FirstReads <= Readers + FirstReads /\ Writers <= Writers
          /\ Writers + Completing <= Writers + Completing /\ Completing <= Completing
          /\ Connects <= Connects /\ InWrite <= InWrite /\ Notifies <= Notifies
      BY ONLY <2>1 DEF Counts
    <2> QED
      BY <1>5, <1>6, <1>7, <2>2 DEF Progress
  <1>12. w = User => told = "ok"
    BY DEF UserInv
  <1>13. (link = "connecting") => (QueuedWrites' = 0 /\ Connects' = 0 /\ writeSide'.can = FALSE)
    BY <1>6, PartsFrame DEF LinkInv, QueuedWrites
  <1>14. TokenInv'
    BY <1>9, <1>10, <1>11, <1>12, <1>13, TokenStep
  <1>15. ASSUME Kept, RefsInv
         PROVE  RefsInv'
    <2>1. UserRef' = UserRef
      BY UserRefMoves
    <2>2. refs_' = Readers' + Writers' - One(creator = "acquire")' + Held' + UserRef'
      BY <1>5, <1>7, <1>15, <2>1, PartsFrame DEF RefsInv
    <2>3. refs_' = 0 /\ creator' \notin Early
      BY <1>15 DEF RefsInv
    <2>4. fd' = "closed"
      BY <1>15 DEF RefsInv
    <2>5. edge' # TRUE
      <3>1. fd = "closed" => edge # TRUE
        BY <1>15 DEF RefsInv
      <3> QED
        BY <2>4, <3>1
    <2>6. (descr' = "freed") => (batch' = {})
      BY <1>15 DEF RefsInv
    <2> QED
      BY <2>2, <2>3, <2>4, <2>5, <2>6 DEF RefsInv
  <1>16. Kept' => Kept
    BY DEF Kept, side
  <1> QED
    BY <1>14, <1>15, <1>16 DEF ConnectionInv

-----------------------------------------------------------------------------
(* The steps of the workers and of the program *)

LEMMA StartWriteInv ==
  ASSUME ConnectionInv, NEW w \in Actor, startWrite(w), UNCHANGED client
  PROVE  ConnectionInv'
  <1>1. TypeInv /\ UserInv
    BY DEF ConnectionInv, TokenInv
  <1>2. Still /\ Alone /\ pc[w] = "start_write" /\ writing_' = TRUE
    BY DEF startWrite, Still, Alone, given, socket, poll, client, buffers, reading
  <1> USE <1>2
  <1>3. CASE writing_ = FALSE
    <2>1. /\ pc' = [pc EXCEPT ![w] = "size"] /\ nested' = [nested EXCEPT ![w] = TRUE]
          /\ refs_' = refs_ + 1
      BY <1>3 DEF startWrite, Goto
    <2> QED
      BY <1>3, <2>1, StartsWriting
  <1>4. CASE writing_ = TRUE
    <2>1. PICK b : b = AfterWrite(w) /\ pc' = [pc EXCEPT ![w] = b]
      BY <1>4 DEF startWrite, Goto
    <2>2. nested' = nested /\ refs_' = refs_ /\ flag' = "set"
      BY <1>4 DEF startWrite, flag
    <2>3. (w = User /\ b = "sent") \/ (w # User /\ b = "request")
      BY <2>1 DEF AfterWrite
    <2>4. /\ pc[w] \notin HeldL /\ b \notin HeldL /\ b \notin {"close", "delete"} /\ b # "connecting"
          /\ pc[w] \notin WriteL /\ b \notin WriteL /\ pc[w] \notin LeavingL /\ b \notin LeavingL
      BY <2>3 DEF HeldL, WriteL, LeavingL
    <2>5. w \in Worker => (pc[w] \in ReadL /\ b \in ReadL)
      BY <2>3, Actors DEF ReadL
    <2>6. w = User => told = "ok"
      BY <1>1 DEF UserInv
    <2> QED
      BY <2>1, <2>2, <2>4, <2>5, <2>6, QuietMove
  <1> QED
    BY <1>1, <1>3, <1>4 DEF TypeInv

(* A write goes on, ends, or waits. *)
LEMMA WriteInv ==
  ASSUME ConnectionInv, NEW w \in Actor, WriteStep(w), UNCHANGED client
  PROVE  ConnectionInv'
  <1>1. TypeInv /\ UserInv
    BY DEF ConnectionInv, TokenInv
  <1>2. /\ \A a \in {"size", "write", "wrote"} : /\ a \notin HeldL /\ a \in WriteL /\ a \notin ReadL
                                                 /\ a \notin LeavingL /\ a \notin {"close", "delete"}
                                                 /\ a # "connecting" /\ a # "idle"
    BY DEF HeldL, WriteL, ReadL, LeavingL
  <1>3. ASSUME NEW b \in {"size", "write", "wrote"}, pc' = [pc EXCEPT ![w] = b],
               pc[w] \in {"size", "write", "wrote"},
               nested' = nested, Still, Alone, refs_' = refs_, writing_' = writing_
        PROVE  ConnectionInv'
    <2>1. w = User => told = "ok"
      BY <1>1, <1>2, <1>3 DEF UserInv
    <2>2. writing_' \in BOOLEAN /\ flag' = flag
      BY <1>1, <1>3 DEF TypeInv, flag
    <2> QED
      BY <1>2, <1>3, <2>1, <2>2, QuietMove
  <1>4. CASE startWrite(w)
    BY <1>4, StartWriteInv
  <1>5. CASE TakeSize(w)
    <2>1. /\ pc' = [pc EXCEPT ![w] = "write"] /\ pc[w] = "size" /\ nested' = nested
          /\ Still /\ Alone /\ refs_' = refs_ /\ writing_' = writing_
      BY <1>5 DEF TakeSize, Goto, Still, Alone, given, socket, poll, client, buffers, reading
    <2> QED
      BY <1>3, <2>1
  <1>6. CASE Write(w)
    <2>1. /\ pc' = [pc EXCEPT ![w] = "wrote"] /\ pc[w] = "write" /\ nested' = nested
          /\ Still /\ Alone /\ refs_' = refs_ /\ writing_' = writing_
      BY <1>6 DEF Write, Goto, Still, Alone, given, poll, client, buffers, reading
    <2> QED
      BY <1>3, <2>1
  <1>7. CASE WriteAgain(w)
    <2>1. /\ pc' = [pc EXCEPT ![w] = "wait_write"] /\ pc[w] = "wrote" /\ nested' = nested
          /\ Still /\ Alone /\ refs_' = refs_ + 1 /\ writing_' = writing_
      BY <1>7 DEF WriteAgain, Goto, Still, Alone, given, socket, poll, frames, client, buffers, reading
    <2> QED
      BY <2>1, Waits
  <1>8. CASE writeWhenReady(w) \/ ScheduleWrite(w)
    BY <1>8, PassWrite
  <1>9. CASE WriteFails(w)
    <2>1. /\ pc' = [pc EXCEPT ![w] = "release_write"] /\ pc[w] = "wrote" /\ nested' = nested
          /\ Still /\ Alone /\ refs_' = refs_ /\ writing_' = writing_
      BY <1>9 DEF WriteFails, Goto, Still, Alone, given, socket, poll, frames, client, buffers, reading
    <2>2. writing_' \in BOOLEAN
      BY <1>1, <2>1 DEF TypeInv
    <2> QED
      BY <2>1, <2>2, EndWrite
  <1>10. CASE Consume(w)
    <2>1. /\ pc[w] = "wrote" /\ nested' = nested /\ Still /\ Alone /\ refs_' = refs_
          /\ \/ writing_' = FALSE /\ pc' = [pc EXCEPT ![w] = "release_write"]
             \/ writing_' = writing_ /\ pc' = [pc EXCEPT ![w] = "size"]
      BY <1>10 DEF Consume, Goto, Still, Alone, given, socket, poll, client, buffers, reading
    <2> QED
      BY <1>3, <2>1, EndWrite
  <1>11. CASE Release(w)
    BY <1>11, ReleaseInv
  <1> QED
    BY <1>4, <1>5, <1>6, <1>7, <1>8, <1>9, <1>10, <1>11 DEF WriteStep

(* A read, and what readDone() does. *)
LEMMA ReadInv ==
  ASSUME ConnectionInv, NEW w \in Worker, ReadStep(w) \/ ServerStep(w), UNCHANGED client
  PROVE  ConnectionInv'
  <1>1. TypeInv /\ w \in Actor /\ w # User
    BY Actors DEF ConnectionInv, TokenInv
  <1>2. \A a \in {"read", "request", "body", "start_write"} :
          a \notin HeldL /\ a \notin WriteL /\ a \in ReadL /\ a \notin {"close", "delete"}
    BY DEF HeldL, WriteL, ReadL
  <1>3. ASSUME NEW b \in {"read", "request", "body", "start_write"}, pc' = [pc EXCEPT ![w] = b],
               pc[w] \in {"read", "request", "body", "start_write"},
               nested' = nested, Still, Alone, refs_' = refs_, writing_' = writing_
        PROVE  ConnectionInv'
    <2>1. writing_' \in BOOLEAN /\ flag' = flag
      BY <1>1, <1>3 DEF TypeInv, flag
    <2> QED
      BY <1>1, <1>2, <1>3, <2>1, QuietMove
  <1>4. CASE TakeCallback(w)
    BY <1>4, TakeInv
  <1>5. CASE Read(w)
    <2>1. /\ pc[w] = "read" /\ nested' = nested
          /\ Still /\ Alone /\ refs_' = refs_ /\ writing_' = writing_
          /\ \/ pc' = [pc EXCEPT ![w] = "request"]
             \/ pc' = [pc EXCEPT ![w] = "release"] /\ reading' # "on"
      BY <1>5 DEF Read, Goto, Still, Alone, given, poll, frames, client, buffers, reading
    <2> QED
      BY <1>3, <2>1, EndRead
  <1>6. CASE ReadAgain(w)
    <2>1. /\ pc' = [pc EXCEPT ![w] = "wait_read"] /\ pc[w] = "read" /\ nested' = nested
          /\ Still /\ Alone /\ refs_' = refs_ + 1 /\ writing_' = writing_
      BY <1>6 DEF ReadAgain, Goto, Still, Alone, given, socket, poll, frames, client, buffers, reading
    <2> QED
      BY <1>1, <2>1, Waits
  <1>7. CASE readWhenReady(w) \/ ScheduleRead(w)
    BY <1>7, PassRead
  <1>8. CASE ReadDoneReturns(w)
    <2>1. /\ pc' = [pc EXCEPT ![w] = "read"] /\ pc[w] = "request" /\ nested' = nested
          /\ Still /\ Alone /\ refs_' = refs_ /\ writing_' = writing_
      BY <1>8 DEF ReadDoneReturns, Goto, Still, Alone, given, socket, poll, frames, client, buffers, reading
    <2> QED
      BY <1>3, <2>1
  <1>9. CASE ReadDoneFails(w)
    <2>1. /\ pc' = [pc EXCEPT ![w] = "release"] /\ pc[w] = "request" /\ nested' = nested
          /\ Still /\ Alone /\ refs_' = refs_ /\ writing_' = writing_ /\ reading' # "on"
      BY <1>9 DEF ReadDoneFails, Goto, Still, Alone, given, socket, poll, frames, client, buffers, reading
    <2> QED
      BY <1>9, <2>1, EndRead
  <1>10. CASE HandleRequest(w)
    <2>1. /\ pc[w] = "request" /\ nested' = nested
          /\ Still /\ Alone /\ refs_' = refs_ /\ writing_' = writing_
          /\ pc' = [pc EXCEPT ![w] = "body"] \/ pc' = [pc EXCEPT ![w] = "start_write"]
      BY <1>10 DEF HandleRequest, WriteOut, Goto, Still, Alone, given, socket, poll, frames, client, buffers, reading
    <2> QED
      BY <1>3, <2>1
  <1>11. CASE AdvanceOverFile(w)
    <2>1. /\ pc' = [pc EXCEPT ![w] = "start_write"] /\ pc[w] = "body" /\ nested' = nested
          /\ Still /\ Alone /\ refs_' = refs_ /\ writing_' = writing_
      BY <1>11 DEF AdvanceOverFile, Goto, Still, Alone, given, socket, poll, frames, client, buffers, reading
    <2> QED
      BY <1>3, <2>1
  <1> QED
    BY <1>4, <1>5, <1>6, <1>7, <1>8, <1>9, <1>10, <1>11 DEF ReadStep, ServerStep

LEMMA HandleResponseInv ==
  ASSUME ConnectionInv, NEW w \in Worker, HandleResponse(w)
  PROVE  ConnectionInv'
  <1>1. TypeInv /\ w \in Actor /\ w # User
    BY Actors DEF ConnectionInv, TokenInv
  <1>2. /\ pc[w] = "request" /\ pc' = pc /\ nested' = nested /\ Still /\ Alone
        /\ refs_' = refs_ /\ writing_' = writing_
    BY DEF HandleResponse, Still, Alone, given, socket, poll, frames, buffers, reading
  <1>3. pc' = [pc EXCEPT ![w] = "request"]
    BY <1>1, <1>2 DEF TypeInv
  <1>4. "request" \notin HeldL /\ "request" \notin {"close", "delete"}
    BY DEF HeldL
  <1>5. writing_' \in BOOLEAN /\ flag' = flag
    BY <1>1, <1>2 DEF TypeInv, flag
  <1> QED
    BY <1>1, <1>2, <1>3, <1>4, <1>5, QuietMove

LEMMA WorkerInv ==
  ASSUME ConnectionInv, NEW w \in Worker, WorkerStep(w)
  PROVE  ConnectionInv'
  <1>1. w \in Actor
    BY Actors
  <1> QED
    BY <1>1, ReadInv, WriteInv, DestroyInv, DoConnectInv, ConnDoneInv, NotifyInv,
       HandleResponseInv DEF WorkerStep

LEMMA UserStepInv ==
  ASSUME ConnectionInv, UserStep
  PROVE  ConnectionInv'
  <1>1. TypeInv /\ UserInv /\ User \in Actor /\ User \notin Worker
    BY Actors DEF ConnectionInv, TokenInv
  <1> USE <1>1
  <1>2. \A a \in {"connecting", "send", "start_write", "sent", "idle"} :
          /\ a \notin HeldL /\ a \notin WriteL /\ a \notin {"close", "delete"}
          /\ a # "idle" => a \notin LeavingL
    BY DEF HeldL, WriteL, LeavingL
  <1>3. ASSUME NEW b \in {"send", "start_write", "sent", "idle"}, pc' = [pc EXCEPT ![User] = b],
               pc[User] \in {"connecting", "send", "start_write", "sent"}, told # "no",
               b # "idle" => told = "ok", b = "idle" => (load.blocking \/ told # "ok"),
               nested' = nested, Still, Alone, refs_' = refs_, writing_' = writing_
        PROVE  ConnectionInv'
    <2>1. writing_' \in BOOLEAN /\ flag' = flag
      BY <1>3 DEF TypeInv, flag
    <2>2. /\ pc[User] \notin HeldL /\ b \notin HeldL /\ b \notin {"close", "delete"} /\ b # "connecting"
          /\ pc[User] \notin WriteL /\ b \notin WriteL
          /\ load.blocking \/ told # "ok" \/ (pc[User] \notin LeavingL /\ b \notin LeavingL)
      BY <1>2, <1>3
    <2> QED
      BY <1>3, <2>1, <2>2, QuietMove
  <1>4. CASE ConnectReturns
    <2>1. /\ pc[User] = "connecting" /\ told # "no" /\ nested' = nested
          /\ Still /\ Alone /\ refs_' = refs_ /\ writing_' = writing_
          /\ \/ pc' = [pc EXCEPT ![User] = "send"] /\ told = "ok"
             \/ pc' = [pc EXCEPT ![User] = "idle"] /\ told # "ok"
      BY <1>4 DEF ConnectReturns, Goto, Still, Alone, given, socket, poll, frames, client, buffers, reading
    <2> QED
      BY <1>3, <2>1
  <1>5. CASE asyncSend
    <2>1. /\ pc[User] = "send" /\ nested' = nested
          /\ Still /\ Alone /\ refs_' = refs_ /\ writing_' = writing_
          /\ pc' = [pc EXCEPT ![User] = "start_write"]
      BY <1>5 DEF asyncSend, WriteOut, Goto, Still, Alone, given, socket, poll, frames, buffers, reading
    <2>2. told = "ok"
      BY <2>1 DEF UserInv
    <2> QED
      BY <1>3, <2>1, <2>2
  <1>6. CASE SendReturns
    <2>1. /\ pc[User] = "sent" /\ nested' = nested
          /\ Still /\ Alone /\ refs_' = refs_ /\ writing_' = writing_
          /\ \/ pc' = [pc EXCEPT ![User] = "send"]
             \/ pc' = [pc EXCEPT ![User] = "idle"] /\ load.blocking
             \/ pc' = [pc EXCEPT ![User] = "release"] /\ ~load.blocking
      BY <1>6 DEF SendReturns, Goto, Still, Alone, given, socket, poll, frames, client, buffers, reading
    <2>2. told = "ok"
      BY <2>1 DEF UserInv
    <2> QED
      BY <1>3, <2>1, <2>2, UserLeaves
  <1>7. CASE (WriteStep(User) \/ DeleteStep(User)) /\ UNCHANGED client
    BY <1>7, WriteInv, DestroyInv
  <1> QED
    BY <1>4, <1>5, <1>6, <1>7 DEF UserStep

-----------------------------------------------------------------------------
(* The steps of the peer, the poll loop and the creator *)

LEMMA SameActors ==
  ASSUME pc' = pc, nested' = nested
  PROVE  /\ FirstReads' = FirstReads /\ Connects' = Connects /\ Notifies' = Notifies
         /\ Firsts' = Firsts /\ Completing' = Completing
         /\ InWrite' = InWrite /\ InRead' = InRead /\ Held' = Held
  <1>1. \A L : At(L)' = At(L)
    BY DEF At
  <1>2. InRead' = InRead
    BY DEF InRead
  <1>3. /\ FirstReads' = FirstReads /\ Connects' = Connects /\ Notifies' = Notifies
        /\ Firsts' = Firsts /\ InWrite' = InWrite /\ Held' = Held
    BY <1>1 DEF FirstReads, Connects, Notifies, Firsts, InWrite, Held
  <1> QED
    BY <1>2, <1>3, Parts, NextParts

Calm ==
    /\ pc' = pc /\ nested' = nested /\ writing_' = writing_ /\ load' = load /\ write_cb_' = write_cb_
    /\ (reading' = "on") => (reading = "on")

(* What the poll loop hands over, and the creator. *)
Typed ==
    /\ link' \in {"connecting", "up", "refused"} /\ queue' \in Seq({"read", write_cb_})
    /\ readSide' \in [can : BOOLEAN, waiting : BOOLEAN]
    /\ writeSide' \in [can : BOOLEAN, waiting : BOOLEAN]
    /\ edge' \in BOOLEAN /\ refs_' \in Int

Unconnected ==
    (link' = "connecting") =>
      /\ link = "connecting" /\ peer' = peer
      /\ "write" \notin batch' /\ writeSide'.can = FALSE /\ poller' # "push_write"
      /\ creator' # "schedule_write" /\ QueuedWrites' = 0

LEMMA CalmType ==
  ASSUME ConnectionInv, Calm, Typed, told' \in {"no", "ok", "failed"}
  PROVE  TypeInv' /\ NestedInv'
  BY DEF ConnectionInv, TokenInv, TypeInv, NestedInv, Calm, Typed

LEMMA CalmLink ==
  ASSUME ConnectionInv, Calm, Unconnected
  PROVE  LinkInv'
  <1>1. Connects' = Connects /\ write_cb_' = write_cb_
    BY SameActors DEF Calm
  <1> QED
    BY <1>1 DEF ConnectionInv, TokenInv, LinkInv, Unconnected, QueuedWrites

(* A read or a write is passed on, or nothing happens to it. *)
LEMMA CalmStep ==
  ASSUME ConnectionInv, Calm, Typed, Unconnected, told' = told,
         (link' # "refused") => (link # "refused"),
         (creator' = "accept") => (creator = "accept"),
         (creator' \in {"async_connect", "connect"}) => (creator \in {"async_connect", "connect"}),
         (creator' = "acquire") => (creator = "acquire"),
         Readers' = Readers, Writers' = Writers,
         \/ refs_' = refs_ /\ One(creator = "acquire")' = One(creator = "acquire")
         \/ refs_' = refs_ + 1 /\ creator = "acquire" /\ creator' \notin Early,
         fd' = fd, edge' = edge \/ edge' = FALSE \/ fd' = "open",
         descr' \in {"garbage", "freed"} => descr \in {"garbage", "freed"},
         RefsInv => ((descr' = "freed") => (batch' = {} \/ (descr = "freed" /\ batch' = batch)))
  PROVE  ConnectionInv'
  <1>1. TypeInv /\ NestedInv /\ UserInv /\ ConnectInv /\ TrafficInv /\ CreatorInv /\ LinkInv
    BY DEF ConnectionInv, TokenInv
  <1> USE <1>1
  <1>2. /\ pc' = pc /\ nested' = nested /\ writing_' = writing_ /\ load' = load /\ write_cb_' = write_cb_
        /\ (reading' = "on") => (reading = "on")
    BY DEF Calm
  <1> USE <1>2
  <1>3. /\ FirstReads' = FirstReads /\ Connects' = Connects /\ Notifies' = Notifies
        /\ Firsts' = Firsts /\ Completing' = Completing
        /\ InWrite' = InWrite /\ InRead' = InRead /\ Held' = Held
    BY SameActors
  <1>4. TypeInv' /\ NestedInv' /\ LinkInv'
    BY CalmType, CalmLink DEF TypeInv
  <1>5. Counts
    BY Numbers
  <1>6. Progress
    <2>1. /\ Readers + FirstReads <= Readers + FirstReads /\ Writers <= Writers
          /\ Writers + Completing <= Writers + Completing /\ Completing <= Completing
          /\ Connects <= Connects /\ InWrite <= InWrite /\ Notifies <= Notifies
      BY ONLY <1>5 DEF Counts
    <2>2. flag' = flag
      BY DEF flag
    <2> QED
      BY <1>3, <2>1, <2>2 DEF Progress
  <1>7. (told # "no") => (Completing = 0 /\ (write_cb_ = "connect" => Writers = 0))
    BY DEF UserInv
  <1>8. /\ ConnectInv' /\ TrafficInv' /\ CreatorInv'
        /\ (told' # "no") => (Completing' = 0 /\ (write_cb_' = "connect" => Writers' = 0))
    BY <1>4, <1>6, <1>7, ProgressInv
  <1>9. UserInv'
    BY <1>8 DEF UserInv
  <1>10. ASSUME Kept, RefsInv
         PROVE  RefsInv'
    <2>1. UserRef' = UserRef
      BY DEF UserRef
    <2>2. refs_' = Due'
      <3>1. CASE refs_' = refs_ /\ One(creator = "acquire")' = One(creator = "acquire")
        BY <1>3, <1>10, <2>1, <3>1, RefsAreDue DEF Due
      <3>2. CASE refs_' = refs_ + 1 /\ creator = "acquire" /\ creator' \notin Early
        <4>1. One(creator = "acquire") = 1 /\ One(creator = "acquire")' = 0
          BY <3>2 DEF One, Early
        <4>2. DueSum(Readers, Writers, 0, Held, UserRef) = DueSum(Readers, Writers, 1, Held, UserRef) + 1
          BY ONLY <1>5 DEF Counts, DueSum
        <4>3. refs_ = DueSum(Readers, Writers, 1, Held, UserRef)
          BY <1>10, <4>1, RefsAreDue DEF Due
        <4> QED
          BY <1>3, <2>1, <3>2, <4>1, <4>2, <4>3 DEF Due
      <3> QED
        BY <3>1, <3>2
    <2>3. creator' \in Early => (creator \in Early /\ refs_' = 0)
      <3>1. creator' \in Early => (creator \in Early /\ refs_' = refs_)
        BY DEF Early
      <3> QED
        BY <1>10, <3>1 DEF RefsInv
    <2>4. refs_' # refs_ => (refs_ > 0 \/ creator \in Early)
      BY DEF Early
    <2>5. \A v \in Actor : (pc'[v] \in {"close", "delete"}) => (pc'[v] = pc[v])
      OBVIOUS
    <2> QED
      BY <1>10, <2>2, <2>3, <2>4, <2>5, RefsFrame
  <1>11. Kept' => Kept
    BY DEF Kept, side
  <1> QED
    BY <1>4, <1>8, <1>9, <1>10, <1>11 DEF ConnectionInv, TokenInv

(* The peer and the socket: only events, and what becomes of the link. *)
LEMMA PeerInv ==
  ASSUME ConnectionInv, Peer
  PROVE  ConnectionInv'
  <1>1. TypeInv /\ LinkInv
    BY DEF ConnectionInv, TokenInv
  <1>2. /\ Calm /\ told' = told /\ readSide' = readSide /\ writeSide' = writeSide /\ queue' = queue
        /\ batch' = batch /\ poller' = poller /\ descr' = descr /\ creator' = creator
        /\ refs_' = refs_ /\ fd' = fd /\ fd = "open"
    BY DEF Peer, PeerSends, PeerTakes, PeerReceives, PeerCloses, Connected, Calm, given, socket, poll, frames, client, buffers, reading
  <1> USE <1>2
  <1>3. link' = link \/ (link = "connecting" /\ link' \in {"up", "refused"})
    BY DEF Peer, PeerSends, PeerTakes, PeerReceives, PeerCloses, Connected, given
  <1>4. edge' \in BOOLEAN
    <2>1. edge' = TRUE \/ edge' = (edge \/ space = 0)
      BY DEF Peer, PeerSends, PeerTakes, PeerReceives, PeerCloses, Connected
    <2>2. TRUE \in BOOLEAN /\ (edge \/ space = 0) \in BOOLEAN
      OBVIOUS
    <2> QED
      BY <2>1, <2>2
  <1>5. (link = "connecting") => (peer' = peer \/ link' # "connecting")
    BY DEF Peer, PeerSends, PeerTakes, PeerReceives, PeerCloses, Connected
  <1>6. Readers' = Readers /\ Writers' = Writers
    BY SameActors, Sums, PartsFrame DEF Calm
  <1>7. Typed
    BY <1>1, <1>3, <1>4 DEF Typed, TypeInv
  <1>8. Unconnected
    BY <1>1, <1>3, <1>5 DEF Unconnected, LinkInv, QueuedWrites
  <1>9. (link' # "refused") => (link # "refused")
    BY <1>3
  <1>10. One(creator = "acquire")' = One(creator = "acquire")
    BY PartsFrame
  <1> QED
    BY <1>6, <1>7, <1>8, <1>9, <1>10, CalmStep

(* The poll loop passes an event on. *)
LEMMA PollInv ==
  ASSUME ConnectionInv, PollLoop, UNCHANGED client
  PROVE  ConnectionInv'
  <1>1. TypeInv /\ LinkInv /\ Counts
    BY Numbers DEF ConnectionInv, TokenInv
  <1> USE <1>1
  <1>2. /\ Calm /\ told' = told /\ link' = link /\ peer' = peer /\ creator' = creator
        /\ refs_' = refs_ /\ fd' = fd /\ edge' \in {edge, FALSE}
    BY DEF PollLoop, PollReturns, readIfWaiting, writeIfWaiting, PushCallback, CollectDeleted,
                 Calm, given, socket, poll, frames, client, buffers, reading
  <1> USE <1>2
  <1>3. /\ descr' \in {"garbage", "freed"} => descr \in {"garbage", "freed"}
        /\ RefsInv => ((descr' = "freed") => (batch' = {} \/ (descr = "freed" /\ batch' = batch)))
    <2>1. CASE PollReturns
      <3>1. descr' = descr /\ (edge = TRUE \/ batch' = {})
        BY <2>1 DEF PollReturns, TypeInv
      <3>2. (RefsInv /\ edge = TRUE) => descr # "freed"
        BY DEF RefsInv
      <3> QED
        BY <3>1, <3>2
    <2>2. CASE readIfWaiting \/ writeIfWaiting \/ PushCallback
      <3>1. descr' = descr /\ batch' = batch
        BY <2>2 DEF readIfWaiting, writeIfWaiting, PushCallback
      <3> QED
        BY <3>1
    <2>3. CASE CollectDeleted
      <3>1. batch' = {} /\ descr' = IF descr = "garbage" THEN "freed" ELSE descr
        BY <2>3 DEF CollectDeleted
      <3> QED
        BY <3>1
    <2> QED
      BY <2>1, <2>2, <2>3 DEF PollLoop
  <1> DEFINE Polled == /\ Readers' = Readers /\ Writers' = Writers /\ queue' \in Seq({"read", write_cb_})
                       /\ readSide' \in [can : BOOLEAN, waiting : BOOLEAN]
                       /\ writeSide' \in [can : BOOLEAN, waiting : BOOLEAN] /\ Unconnected
  <1>4. /\ Firsts' = Firsts /\ InWrite' = InWrite /\ InRead' = InRead
        /\ CreatorReads' = CreatorReads /\ CreatorWrites' = CreatorWrites
        /\ One(creator = "acquire")' = One(creator = "acquire")
    BY SameActors, PartsFrame DEF Calm
  <1> USE <1>4
  <1>5. /\ queue \in Seq({"read", write_cb_})
        /\ readSide \in [can : BOOLEAN, waiting : BOOLEAN]
        /\ writeSide \in [can : BOOLEAN, waiting : BOOLEAN]
    BY DEF TypeInv
  <1> USE <1>5
  <1>6. (link = "connecting") =>
          /\ peer = "open" /\ "write" \notin batch /\ writeSide.can = FALSE /\ poller # "push_write"
          /\ creator # "schedule_write" /\ QueuedWrites = 0
    BY DEF LinkInv, QueuedWrites
  <1> USE <1>6
  <1>7. ASSUME poller' \notin {"push_read", "push_write"}
        PROVE  PollerReads' = 0 /\ PollerWrites' = 0
    BY <1>7 DEF PollerReads, PollerWrites, One
  <1>8. /\ (poller \notin {"push_read", "push_write"}) => (PollerReads = 0 /\ PollerWrites = 0)
        /\ (poller = "push_read") => (PollerReads = 1 /\ PollerWrites = 0)
        /\ (poller = "push_write") => (PollerReads = 0 /\ PollerWrites = 1)
        /\ (poller' = "push_read") => (PollerReads' = 1 /\ PollerWrites' = 0)
        /\ (poller' = "push_write") => (PollerReads' = 0 /\ PollerWrites' = 1)
    BY DEF PollerReads, PollerWrites, One
  <1>9. CASE PollReturns \/ CollectDeleted
    <2>1. /\ readSide' = readSide /\ writeSide' = writeSide /\ queue' = queue
          /\ poller \in {"poll", "collect"} /\ poller' \in {"read", "collect", "poll"}
      BY <1>9 DEF PollReturns, CollectDeleted
    <2>2. Readers' = Readers /\ Writers' = Writers
      BY <1>7, <1>8, <2>1, Sums, PartsFrame
    <2>3. batch' \in {ReadyNow, {}}
      BY <1>9 DEF PollReturns, CollectDeleted
    <2>4. (link = "connecting") => "write" \notin ReadyNow
      BY DEF ReadyNow
    <2>5. Unconnected
      BY <2>1, <2>3, <2>4, PartsFrame DEF Unconnected
    <2>6. Polled
      BY <2>1, <2>2, <2>5
    <2> QED
      BY <1>3, <2>6, CalmStep DEF Typed, TypeInv
  <1>10. ASSUME readIfWaiting
         PROVE  Polled
    <2>1. /\ poller = "read" /\ writeSide' = writeSide /\ queue' = queue /\ batch' = batch
          /\ readSide' = IF "read" \in batch THEN IfWaiting(readSide) ELSE readSide
          /\ poller' = IF "read" \in batch /\ Schedules(readSide) THEN "push_read" ELSE "write"
      BY <1>10 DEF readIfWaiting
    <2>2. Unconnected
      BY <2>1, PartsFrame DEF Unconnected
    <2>3. readSide' \in [can : BOOLEAN, waiting : BOOLEAN]
      BY <2>1, SideFacts
    <2>4. Writers' = Writers
      <3>1. PollerWrites = 0 /\ PollerWrites' = 0
        BY <2>1 DEF PollerWrites, One
      <3> QED
        BY <2>1, <3>1, Sums, PartsFrame
    <2>5. CASE "read" \in batch /\ Schedules(readSide)
      <3>1. Waiting(readSide) = 1 /\ Waiting(readSide)' = 0
        BY <2>1, <2>5, SideFacts DEF Waiting
      <3>2. PollerReads = 0 /\ PollerReads' = 1
        BY <2>1, <2>5 DEF PollerReads, One
      <3>3. ReadSum(CreatorReads, Firsts, 0, 1, QueuedReads, InRead)
              = ReadSum(CreatorReads, Firsts, 1, 0, QueuedReads, InRead)
        BY ONLY <1>1 DEF Counts, ReadSum
      <3>4. Readers' = Readers
        BY <2>1, <3>1, <3>2, <3>3, Sums, PartsFrame
      <3> QED
        BY <2>1, <2>2, <2>3, <2>4, <3>4
    <2>6. CASE ~("read" \in batch /\ Schedules(readSide))
      <3>1. Waiting(readSide)' = Waiting(readSide)
        BY <2>1, <2>6, SideFacts DEF Waiting
      <3>2. PollerReads = 0 /\ PollerReads' = 0
        BY <2>1, <2>6 DEF PollerReads, One
      <3>3. Readers' = Readers
        BY <2>1, <3>1, <3>2, Sums, PartsFrame
      <3> QED
        BY <2>1, <2>2, <2>3, <2>4, <3>3
    <2> QED
      BY <2>5, <2>6
  <1>11. ASSUME writeIfWaiting
         PROVE  Polled
    <2>1. /\ poller = "write" /\ readSide' = readSide /\ queue' = queue /\ batch' = batch
          /\ writeSide' = IF "write" \in batch THEN IfWaiting(writeSide) ELSE writeSide
          /\ poller' = IF "write" \in batch /\ Schedules(writeSide) THEN "push_write" ELSE "collect"
      BY <1>11 DEF writeIfWaiting
    <2>2. Unconnected
      BY <2>1, PartsFrame DEF Unconnected
    <2>3. writeSide' \in [can : BOOLEAN, waiting : BOOLEAN]
      BY <2>1, SideFacts
    <2>4. Readers' = Readers
      <3>1. PollerReads = 0 /\ PollerReads' = 0
        BY <2>1 DEF PollerReads, One
      <3> QED
        BY <2>1, <3>1, Sums, PartsFrame
    <2>5. CASE "write" \in batch /\ Schedules(writeSide)
      <3>1. Waiting(writeSide) = 1 /\ Waiting(writeSide)' = 0
        BY <2>1, <2>5, SideFacts DEF Waiting
      <3>2. PollerWrites = 0 /\ PollerWrites' = 1
        BY <2>1, <2>5 DEF PollerWrites, One
      <3>3. WriteSum(CreatorWrites, 0, 1, QueuedWrites, InWrite)
              = WriteSum(CreatorWrites, 1, 0, QueuedWrites, InWrite)
        BY ONLY <1>1 DEF Counts, WriteSum
      <3>4. Writers' = Writers
        BY <2>1, <3>1, <3>2, <3>3, Sums, PartsFrame
      <3> QED
        BY <2>1, <2>2, <2>3, <2>4, <3>4
    <2>6. CASE ~("write" \in batch /\ Schedules(writeSide))
      <3>1. Waiting(writeSide)' = Waiting(writeSide)
        BY <2>1, <2>6, SideFacts DEF Waiting
      <3>2. PollerWrites = 0 /\ PollerWrites' = 0
        BY <2>1, <2>6 DEF PollerWrites, One
      <3>3. Writers' = Writers
        BY <2>1, <3>1, <3>2, Sums, PartsFrame
      <3> QED
        BY <2>1, <2>2, <2>3, <2>4, <3>3
    <2> QED
      BY <2>5, <2>6
  <1>12. ASSUME PushCallback
         PROVE  Polled
    <2>1. readSide' = readSide /\ writeSide' = writeSide /\ batch' = batch
      BY <1>12 DEF PushCallback
    <2>2. CASE poller = "push_read" /\ queue' = Append(queue, "read") /\ poller' = "write"
      <3>1. /\ queue' \in Seq({"read", write_cb_})
            /\ QueuedReads' = QueuedReads + 1 /\ QueuedWrites' = QueuedWrites
        BY <2>2, QueueRead
      <3>2. PollerReads = 1 /\ PollerReads' = 0 /\ PollerWrites = 0 /\ PollerWrites' = 0
        BY <2>2 DEF PollerReads, PollerWrites, One
      <3>3. ReadSum(CreatorReads, Firsts, Waiting(readSide), 0, QueuedReads + 1, InRead)
              = ReadSum(CreatorReads, Firsts, Waiting(readSide), 1, QueuedReads, InRead)
        BY ONLY <1>1 DEF Counts, ReadSum
      <3>4. Readers' = Readers /\ Writers' = Writers
        BY <2>1, <3>1, <3>2, <3>3, Sums, PartsFrame
      <3>5. Unconnected
        BY <2>1, <2>2, <3>1 DEF Unconnected
      <3> QED
        BY <2>1, <3>1, <3>4, <3>5
    <2>3. CASE poller = "push_write" /\ queue' = Append(queue, write_cb_) /\ poller' = "collect"
      <3>1. /\ queue' \in Seq({"read", write_cb_})
            /\ QueuedReads' = QueuedReads /\ QueuedWrites' = QueuedWrites + 1
        BY <2>3, QueueWrite
      <3>2. PollerReads = 0 /\ PollerReads' = 0 /\ PollerWrites = 1 /\ PollerWrites' = 0
        BY <2>3 DEF PollerReads, PollerWrites, One
      <3>3. WriteSum(CreatorWrites, Waiting(writeSide), 0, QueuedWrites + 1, InWrite)
              = WriteSum(CreatorWrites, Waiting(writeSide), 1, QueuedWrites, InWrite)
        BY ONLY <1>1 DEF Counts, WriteSum
      <3>4. Readers' = Readers /\ Writers' = Writers
        BY <2>1, <3>1, <3>2, <3>3, Sums, PartsFrame
      <3>5. Unconnected
        BY <2>3 DEF Unconnected
      <3> QED
        BY <2>1, <3>1, <3>4, <3>5
    <2> QED
      BY <1>12, <2>2, <2>3 DEF PushCallback
  <1>13. CASE readIfWaiting \/ writeIfWaiting \/ PushCallback
    <2>1. Polled
      BY <1>10, <1>11, <1>12, <1>13
    <2> QED
      BY <1>3, <2>1, CalmStep DEF Typed, TypeInv
  <1> QED
    BY <1>9, <1>13 DEF PollLoop

(* There is one read and one write at most. *)
LEMMA AtMostOne ==
  ASSUME ConnectionInv
  PROVE  Readers <= 1 /\ Writers <= 1
  <1>1. TypeInv /\ ConnectInv /\ TrafficInv /\ Counts
    BY Numbers DEF ConnectionInv, TokenInv
  <1>2. write_cb_ \in {"write", "connect"}
    BY <1>1 DEF TypeInv
  <1>3. /\ (write_cb_ = "connect") => (Readers + FirstReads = 0 /\ Writers + Completing <= 1)
        /\ (write_cb_ = "write") => (Readers + FirstReads <= 1 /\ Writers <= 1)
    BY <1>1 DEF ConnectInv, TrafficInv
  <1> QED
    BY ONLY <1>1, <1>2, <1>3 DEF Counts

LEMMA CreatorParts ==
  /\ CreatorReads = (IF creator \in ReadingL THEN 1 ELSE 0)
  /\ CreatorReads' = (IF creator' \in ReadingL THEN 1 ELSE 0)
  /\ CreatorWrites = (IF creator \in WritingL THEN 1 ELSE 0)
  /\ CreatorWrites' = (IF creator' \in WritingL THEN 1 ELSE 0)
  /\ (creator # "acquire" /\ creator' # "acquire")
       => One(creator = "acquire")' = One(creator = "acquire")
  BY DEF CreatorReads, CreatorWrites, One

(* startRead and startConnect pass on what they have started, and a        *)
(* creator that gives up starts nothing.                                   *)
LEMMA CreatorPasses ==
  ASSUME ConnectionInv, told' = told,
         \/ StartReadAcquires \/ StartReadWaits \/ StartReadSchedules
         \/ asyncConnect \/ NoSocket \/ ConnectAtOnce \/ ConnectWaits \/ ConnectSchedules
         \/ acceptConnection /\ creator' = "service_stopped"
  PROVE  ConnectionInv'
  <1>1. TypeInv /\ LinkInv /\ Counts /\ Readers <= 1 /\ Writers <= 1
    BY Numbers, AtMostOne DEF ConnectionInv, TokenInv
  <1> USE <1>1
  <1>2. /\ Calm /\ link' = link /\ peer' = peer /\ fd' = fd /\ edge' = edge
        /\ descr' = descr /\ batch' = batch /\ poller' = poller
    BY DEF StartReadAcquires, StartReadWaits, StartReadSchedules, asyncConnect, NoSocket,
                 ConnectAtOnce, ConnectWaits, ConnectSchedules, acceptConnection, newDescriptor,
                 Calm, given, socket, poll, frames, buffers, reading
  <1> USE <1>2
  <1>3. /\ Firsts' = Firsts /\ InWrite' = InWrite /\ InRead' = InRead
        /\ PollerReads' = PollerReads /\ PollerWrites' = PollerWrites
    BY SameActors, PartsFrame DEF Calm
  <1> USE <1>3
  <1>4. /\ queue \in Seq({"read", write_cb_}) /\ refs_ \in Int /\ edge \in BOOLEAN
        /\ readSide \in [can : BOOLEAN, waiting : BOOLEAN]
        /\ writeSide \in [can : BOOLEAN, waiting : BOOLEAN]
        /\ link \in {"connecting", "up", "refused"}
    BY DEF TypeInv
  <1> USE <1>4
  <1>5. (link = "connecting") =>
          /\ peer = "open" /\ "write" \notin batch /\ writeSide.can = FALSE /\ poller # "push_write"
          /\ creator # "schedule_write" /\ QueuedWrites = 0
    BY DEF LinkInv, QueuedWrites
  <1> USE <1>5
  <1> DEFINE Passed == /\ Readers' = Readers /\ Writers' = Writers /\ Typed /\ Unconnected
                       /\ \/ refs_' = refs_ /\ One(creator = "acquire")' = One(creator = "acquire")
                          \/ refs_' = refs_ + 1 /\ creator = "acquire" /\ creator' \notin Early
                       /\ (creator' = "accept") => (creator = "accept")
                       /\ (creator' \in {"async_connect", "connect"}) => (creator \in {"async_connect", "connect"})
                       /\ (creator' = "acquire") => (creator = "acquire")
  <1>6. ASSUME asyncConnect \/ NoSocket \/ ConnectAtOnce \/ (acceptConnection /\ creator' = "service_stopped")
        PROVE  Passed
    <2>1. /\ readSide' = readSide /\ writeSide' = writeSide /\ queue' = queue /\ refs_' = refs_
          /\ creator \in {"async_connect", "connect", "accept"}
          /\ creator' \in {"service_stopped", "no_socket", "crashed", "connect"}
          /\ creator' = "connect" => creator = "async_connect"
      BY <1>6 DEF asyncConnect, connect, NoSocket, ConnectAtOnce, acceptConnection
    <2>2. creator \notin ReadingL /\ creator' \notin ReadingL /\ creator \notin WritingL /\ creator' \notin WritingL
      BY <2>1 DEF ReadingL, WritingL
    <2>3. Readers' = Readers /\ Writers' = Writers
      BY <2>1, <2>2, CreatorParts, Sums, PartsFrame
    <2>4. Typed
      BY <2>1 DEF Typed
    <2>5. Unconnected
      BY <2>1, PartsFrame DEF Unconnected
    <2> QED
      BY <2>1, <2>3, <2>4, <2>5, CreatorParts
  <1>7. ASSUME StartReadAcquires
        PROVE  Passed
    <2>1. /\ readSide' = readSide /\ writeSide' = writeSide /\ queue' = queue /\ refs_' = refs_ + 1
          /\ creator = "acquire" /\ creator' = "wait"
      BY <1>7 DEF StartReadAcquires
    <2>2. creator \in ReadingL /\ creator' \in ReadingL /\ creator \notin WritingL /\ creator' \notin WritingL
      BY <2>1 DEF ReadingL, WritingL
    <2>3. Readers' = Readers /\ Writers' = Writers
      BY <2>1, <2>2, CreatorParts, Sums, PartsFrame
    <2>4. Typed
      <3>1. refs_ + 1 \in Int
        BY ONLY <1>4
      <3> QED
        BY <2>1, <3>1 DEF Typed
    <2>5. Unconnected
      BY <2>1, PartsFrame DEF Unconnected
    <2>6. creator' \notin Early
      BY <2>1 DEF Early
    <2> QED
      BY <2>1, <2>3, <2>4, <2>5, <2>6
  <1>8. ASSUME StartReadWaits
        PROVE  Passed
    <2>1. /\ readSide' = WhenReady(readSide) /\ writeSide' = writeSide /\ queue' = queue /\ refs_' = refs_
          /\ creator = "wait" /\ creator' = IF RunsNow(readSide) THEN "schedule" ELSE "done"
      BY <1>8 DEF StartReadWaits
    <2>2. creator \in ReadingL /\ creator \notin WritingL /\ creator' \notin WritingL
      BY <2>1 DEF ReadingL, WritingL
    <2>3. Writers' = Writers
      BY <2>1, <2>2, CreatorParts, Sums, PartsFrame
    <2>4. Readers' = Readers
      <3>1. CASE RunsNow(readSide)
        <4>1. Waiting(readSide)' = Waiting(readSide) /\ creator' \in ReadingL
          BY <2>1, <3>1, SideFacts DEF Waiting, ReadingL
        <4> QED
          BY <2>1, <2>2, <4>1, CreatorParts, Sums, PartsFrame
      <3>2. CASE ~RunsNow(readSide)
        <4>1. Waiting(readSide)' = 1 /\ creator' \notin ReadingL
          BY <2>1, <3>2, SideFacts DEF Waiting, ReadingL
        <4>2. CreatorReads = 1 /\ CreatorReads' = 0
          BY <2>2, <4>1, CreatorParts
        <4>3. Waiting(readSide) = 0
          BY ONLY <1>1, <4>2, Parts DEF Counts
        <4>4. ReadSum(0, Firsts, 1, PollerReads, QueuedReads, InRead)
                = ReadSum(1, Firsts, 0, PollerReads, QueuedReads, InRead)
          BY ONLY <1>1 DEF Counts, ReadSum
        <4> QED
          BY <2>1, <4>1, <4>2, <4>3, <4>4, Sums, PartsFrame
      <3> QED
        BY <3>1, <3>2
    <2>5. Typed
      BY <2>1, SideFacts DEF Typed
    <2>6. Unconnected
      BY <2>1, PartsFrame DEF Unconnected
    <2> QED
      BY <2>1, <2>3, <2>4, <2>5, <2>6, CreatorParts
  <1>9. ASSUME StartReadSchedules
        PROVE  Passed
    <2>1. /\ readSide' = readSide /\ writeSide' = writeSide /\ queue' = Append(queue, "read") /\ refs_' = refs_
          /\ creator = "schedule" /\ creator' = "done"
      BY <1>9 DEF StartReadSchedules
    <2>2. /\ creator \in ReadingL /\ creator' \notin ReadingL
          /\ creator \notin WritingL /\ creator' \notin WritingL
      BY <2>1 DEF ReadingL, WritingL
    <2>3. /\ queue' \in Seq({"read", write_cb_})
          /\ QueuedReads' = QueuedReads + 1 /\ QueuedWrites' = QueuedWrites
      BY <2>1, QueueRead
    <2>4. ReadSum(0, Firsts, Waiting(readSide), PollerReads, QueuedReads + 1, InRead)
            = ReadSum(1, Firsts, Waiting(readSide), PollerReads, QueuedReads, InRead)
      BY ONLY <1>1 DEF Counts, ReadSum
    <2>5. Readers' = Readers /\ Writers' = Writers
      BY <2>1, <2>2, <2>3, <2>4, CreatorParts, Sums, PartsFrame
    <2>6. Typed
      BY <2>1, <2>3 DEF Typed
    <2>7. Unconnected
      BY <2>1, <2>3 DEF Unconnected
    <2> QED
      BY <2>1, <2>5, <2>6, <2>7, CreatorParts
  <1>10. ASSUME ConnectWaits
         PROVE  Passed
    <2>1. /\ writeSide' = WhenReady(writeSide) /\ readSide' = readSide /\ queue' = queue /\ refs_' = refs_
          /\ creator = "wait_write" /\ creator' = IF RunsNow(writeSide) THEN "schedule_write" ELSE "done"
      BY <1>10 DEF ConnectWaits
    <2>2. creator \in WritingL /\ creator \notin ReadingL /\ creator' \notin ReadingL
      BY <2>1 DEF ReadingL, WritingL
    <2>3. Readers' = Readers
      BY <2>1, <2>2, CreatorParts, Sums, PartsFrame
    <2>4. Writers' = Writers
      <3>1. CASE RunsNow(writeSide)
        <4>1. Waiting(writeSide)' = Waiting(writeSide) /\ creator' \in WritingL
          BY <2>1, <3>1, SideFacts DEF Waiting, WritingL
        <4> QED
          BY <2>1, <2>2, <4>1, CreatorParts, Sums, PartsFrame
      <3>2. CASE ~RunsNow(writeSide)
        <4>1. Waiting(writeSide)' = 1 /\ creator' \notin WritingL
          BY <2>1, <3>2, SideFacts DEF Waiting, WritingL
        <4>2. CreatorWrites = 1 /\ CreatorWrites' = 0
          BY <2>2, <4>1, CreatorParts
        <4>3. Waiting(writeSide) = 0
          BY ONLY <1>1, <4>2, Parts DEF Counts
        <4>4. WriteSum(0, 1, PollerWrites, QueuedWrites, InWrite)
                = WriteSum(1, 0, PollerWrites, QueuedWrites, InWrite)
          BY ONLY <1>1 DEF Counts, WriteSum
        <4> QED
          BY <2>1, <4>1, <4>2, <4>3, <4>4, Sums, PartsFrame
      <3> QED
        BY <3>1, <3>2
    <2>5. Typed
      BY <2>1, SideFacts DEF Typed
    <2>6. Unconnected
      <3>1. writeSide.can = FALSE => (creator' = "done" /\ writeSide'.can = FALSE)
        BY <2>1, SideFacts
      <3> QED
        BY <2>1, <3>1, PartsFrame DEF Unconnected
    <2> QED
      BY <2>1, <2>3, <2>4, <2>5, <2>6, CreatorParts
  <1>11. ASSUME ConnectSchedules
         PROVE  Passed
    <2>1. /\ readSide' = readSide /\ writeSide' = writeSide /\ queue' = Append(queue, write_cb_)
          /\ refs_' = refs_ /\ creator = "schedule_write" /\ creator' = "done"
      BY <1>11 DEF ConnectSchedules
    <2>2. /\ creator \in WritingL /\ creator' \notin WritingL
          /\ creator \notin ReadingL /\ creator' \notin ReadingL
      BY <2>1 DEF ReadingL, WritingL
    <2>3. /\ queue' \in Seq({"read", write_cb_})
          /\ QueuedReads' = QueuedReads /\ QueuedWrites' = QueuedWrites + 1
      BY <2>1, QueueWrite
    <2>4. WriteSum(0, Waiting(writeSide), PollerWrites, QueuedWrites + 1, InWrite)
            = WriteSum(1, Waiting(writeSide), PollerWrites, QueuedWrites, InWrite)
      BY ONLY <1>1 DEF Counts, WriteSum
    <2>5. Readers' = Readers /\ Writers' = Writers
      BY <2>1, <2>2, <2>3, <2>4, CreatorParts, Sums, PartsFrame
    <2>6. Typed
      BY <2>1, <2>3 DEF Typed
    <2>7. Unconnected
      BY <2>1 DEF Unconnected
    <2> QED
      BY <2>1, <2>5, <2>6, <2>7, CreatorParts
  <1>12. Passed
    BY <1>6, <1>7, <1>8, <1>9, <1>10, <1>11
  <1> QED
    BY <1>12, CalmStep

(* The new server connection starts its first read. *)
LEMMA AcceptInv ==
  ASSUME ConnectionInv, acceptConnection, creator' = "acquire", UNCHANGED client
  PROVE  ConnectionInv'
  <1>1. TypeInv /\ NestedInv /\ UserInv /\ ConnectInv /\ TrafficInv /\ CreatorInv /\ LinkInv /\ Counts
    BY Numbers DEF ConnectionInv, TokenInv
  <1> USE <1>1
  <1>2. /\ creator = "accept" /\ fd' = "open" /\ descr' = "live" /\ edge' = (link = "up")
        /\ link' = link /\ peer' = peer /\ batch' = batch /\ poller' = poller /\ queue' = queue
        /\ readSide' = readSide /\ writeSide' = writeSide /\ refs_' = refs_ /\ told' = told
        /\ pc' = pc /\ nested' = nested /\ writing_' = writing_ /\ load' = load /\ write_cb_' = write_cb_
        /\ (reading' = "on") => (reading = "on")
    BY DEF acceptConnection, newDescriptor, given, socket, frames, client, buffers, reading
  <1> USE <1>2
  <1>3. /\ FirstReads' = FirstReads /\ Connects' = Connects /\ Notifies' = Notifies
        /\ Firsts' = Firsts /\ Completing' = Completing
        /\ InWrite' = InWrite /\ InRead' = InRead /\ Held' = Held
    BY SameActors
  <1> USE <1>3
  <1>4. /\ CreatorReads = 0 /\ CreatorReads' = 1 /\ CreatorWrites' = CreatorWrites
        /\ One(creator = "acquire") = 0 /\ One(creator = "acquire")' = 1
    BY DEF CreatorReads, CreatorWrites, One, ReadingL, WritingL
  <1>5. write_cb_ = "write" /\ side = "server" /\ Readers + FirstReads = 0
    BY DEF ConnectInv, CreatorInv, TypeInv
  <1>6. Writers' = Writers
    BY <1>4, Sums, PartsFrame
  <1>7. Readers' = 1 /\ Readers = 0 /\ FirstReads = 0 /\ 1 + 0 <= 1
    <2>1. ReadSum(1, Firsts, Waiting(readSide), PollerReads, QueuedReads, InRead)
            = ReadSum(0, Firsts, Waiting(readSide), PollerReads, QueuedReads, InRead) + 1
      BY ONLY <1>1 DEF Counts, ReadSum
    <2>2. Readers = 0 /\ FirstReads = 0 /\ 1 + 0 <= 1 /\ 0 + 1 = 1
      BY ONLY <1>1, <1>5 DEF Counts
    <2> QED
      BY ZenonT(60), <1>4, <2>1, <2>2, Sums, PartsFrame
  <1>8. TypeInv' /\ NestedInv'
    <2>1. Calm /\ Typed
      BY DEF Calm, Typed, TypeInv
    <2> QED
      BY <2>1, CalmType DEF TypeInv
  <1>9. UserInv' /\ ConnectInv'
    BY <1>5 DEF UserInv, ConnectInv
  <1>10. side' = side /\ flag' = flag
    BY DEF side, flag
  <1>11. TrafficInv'
    BY <1>5, <1>6, <1>7, <1>10 DEF TrafficInv
  <1>12. CreatorInv' /\ LinkInv'
    BY <1>5, <1>10 DEF CreatorInv, LinkInv
  <1>13. ASSUME RefsInv
         PROVE  RefsInv'
    <2>1. UserRef' = UserRef
      BY DEF UserRef
    <2>2. DueSum(1, Writers, 1, Held, UserRef) = DueSum(0, Writers, 0, Held, UserRef)
      BY ONLY <1>1 DEF Counts, DueSum
    <2>3. refs_' = Due'
      BY <1>4, <1>6, <1>7, <1>13, <2>1, <2>2, RefsAreDue DEF Due
    <2>4. creator \in Early /\ refs_' = 0
      BY <1>13 DEF RefsInv, Early
    <2>5. \A v \in Actor : (pc'[v] \in {"close", "delete"}) => (pc'[v] = pc[v])
      OBVIOUS
    <2>6. descr' # "garbage" /\ descr' # "freed"
      OBVIOUS
    <2> QED
      BY <1>13, <2>3, <2>4, <2>5, <2>6, RefsFrame
  <1>14. Kept' => Kept
    BY <1>10 DEF Kept
  <1> QED
    BY <1>8, <1>9, <1>11, <1>12, <1>13, <1>14 DEF ConnectionInv, TokenInv

(* connect() is under way, or failed at once. *)
LEMMA StartConnectInv ==
  ASSUME ConnectionInv, startConnect \/ ConnectFails
  PROVE  ConnectionInv'
  <1>1. TypeInv /\ NestedInv /\ UserInv /\ ConnectInv /\ TrafficInv /\ CreatorInv /\ LinkInv /\ Counts
    BY Numbers DEF ConnectionInv, TokenInv
  <1> USE <1>1
  <1>2. /\ creator = "connect"
        /\ link' = link /\ peer' = peer /\ batch' = batch /\ poller' = poller /\ queue' = queue
        /\ readSide' = readSide /\ writeSide' = writeSide
        /\ pc' = pc /\ nested' = nested /\ writing_' = writing_ /\ load' = load /\ write_cb_' = write_cb_
        /\ (reading' = "on") => (reading = "on")
    BY DEF startConnect, ConnectFails, given, socket, frames, client, poll, buffers, reading
  <1> USE <1>2
  <1>3. \/ /\ creator' = "wait_write" /\ fd' = "open" /\ descr' = "live" /\ edge' = (link = "up")
           /\ refs_' = refs_ + 1 /\ told' = told
        \/ /\ creator' = "done" /\ fd' = fd /\ descr' = descr /\ edge' = edge
           /\ refs_' = refs_ /\ told' = "failed"
    BY DEF startConnect, ConnectFails, newDescriptor, client, poll
  <1> USE <1>3
  <1>4. /\ FirstReads' = FirstReads /\ Connects' = Connects /\ Notifies' = Notifies
        /\ Firsts' = Firsts /\ Completing' = Completing
        /\ InWrite' = InWrite /\ InRead' = InRead /\ Held' = Held
    BY SameActors
  <1> USE <1>4
  <1>5. creator' # "connect" /\ creator' # "async_connect" /\ creator' # "accept" /\ creator' # "acquire"
        /\ creator' # "schedule_write" /\ creator' \notin ReadingL /\ creator \notin ReadingL
        /\ creator' \notin Early /\ creator \in Early
    BY DEF Early, ReadingL
  <1> USE <1>5
  <1>6. /\ write_cb_ = "connect" /\ told = "no" /\ Writers + Completing = 0 /\ side = "client"
        /\ pc[User] = "connecting"
    BY DEF TrafficInv, CreatorInv, TypeInv, UserInv, ConnectInv
  <1> USE <1>6
  <1>7. Writers = 0 /\ Completing = 0 /\ 0 + 0 <= 1 /\ 1 + 0 <= 1
    BY ONLY <1>1, <1>6 DEF Counts
  <1> USE <1>7
  <1>8. /\ Readers' = Readers /\ One(creator = "acquire")' = One(creator = "acquire")
        /\ Writers' = IF creator' \in WritingL THEN 1 ELSE 0
    <2>1. Readers' = Readers /\ One(creator = "acquire")' = One(creator = "acquire")
      BY CreatorParts, PartsFrame, Sums
    <2>2. CreatorWrites = 0
      BY CreatorParts DEF WritingL
    <2>3. WriteSum(1, Waiting(writeSide), PollerWrites, QueuedWrites, InWrite)
            = WriteSum(0, Waiting(writeSide), PollerWrites, QueuedWrites, InWrite) + 1
      BY ONLY <1>1 DEF Counts, WriteSum
    <2>4. 0 + 1 = 1
      BY ONLY SMT
    <2>5. Writers' = WriteSum(CreatorWrites', Waiting(writeSide), PollerWrites, QueuedWrites, InWrite)
      BY Sums, PartsFrame
    <2>6. Writers = WriteSum(0, Waiting(writeSide), PollerWrites, QueuedWrites, InWrite)
      BY <2>2, Sums
    <2>7. CASE creator' \in WritingL
      BY <2>1, <2>3, <2>4, <2>5, <2>6, <2>7, CreatorParts
    <2>8. CASE creator' \notin WritingL
      BY <2>1, <2>5, <2>6, <2>8, CreatorParts
    <2> QED
      BY <2>7, <2>8
  <1>9. /\ (creator' = "wait_write") => (Writers' = 1)
        /\ (creator' = "done") => (Writers' = 0)
    BY <1>8 DEF WritingL
  <1>10. side' = side
    BY DEF side
  <1>11. TypeInv' /\ NestedInv'
    <2>1. refs_' \in Int
      <3>1. refs_ \in Int /\ refs_ + 1 \in Int
        BY ONLY <1>1 DEF TypeInv
      <3> QED
        BY <3>1
    <2>2. Calm /\ Typed /\ told' \in {"no", "ok", "failed"}
      BY <2>1 DEF Calm, Typed, TypeInv
    <2> QED
      BY <2>2, CalmType
  <1>12. UserInv'
    BY <1>9 DEF UserInv
  <1>13. ConnectInv'
    BY <1>8, <1>9, <1>10 DEF ConnectInv
  <1>14. TrafficInv' /\ CreatorInv'
    BY DEF TrafficInv, CreatorInv
  <1>15. LinkInv'
    BY DEF LinkInv
  <1>16. ASSUME RefsInv
         PROVE  RefsInv'
    <2>1. UserRef = 0 /\ UserRef' = 0
      BY DEF UserRef, One
    <2>2. refs_' = Due'
      <3>1. refs_ = DueSum(Readers, 0, One(creator = "acquire"), Held, 0)
        BY <1>16, <2>1, RefsAreDue DEF Due
      <3>2. DueSum(Readers, 1, One(creator = "acquire"), Held, 0)
              = DueSum(Readers, 0, One(creator = "acquire"), Held, 0) + 1
        BY ONLY <1>1 DEF Counts, DueSum
      <3> QED
        BY <1>8, <1>9, <2>1, <3>1, <3>2 DEF Due
    <2>3. \A v \in Actor : (pc'[v] \in {"close", "delete"}) => (pc'[v] = pc[v])
      OBVIOUS
    <2>4. /\ fd' = fd \/ (fd' = "open" /\ creator \in Early)
          /\ edge' = edge \/ edge' = FALSE \/ fd' = "open"
      OBVIOUS
    <2>5. /\ descr' \in {"garbage", "freed"} => descr \in {"garbage", "freed"}
          /\ (descr' = "freed") => (batch' = {} \/ (descr = "freed" /\ batch' = batch))
      OBVIOUS
    <2> QED
      BY <1>16, <2>2, <2>3, <2>4, <2>5, RefsFrame
  <1>17. Kept' => Kept
    BY <1>10 DEF Kept
  <1> QED
    BY <1>11, <1>12, <1>13, <1>14, <1>15, <1>16, <1>17 DEF ConnectionInv, TokenInv

LEMMA CreatorStepInv ==
  ASSUME ConnectionInv, Creator
  PROVE  ConnectionInv'
  <1>1. CASE ServerCreator /\ UNCHANGED client
    <2>1. CASE acceptConnection
      <3>1. creator' = "acquire" \/ creator' = "service_stopped"
        BY <2>1 DEF acceptConnection
      <3>2. told' = told
        BY <1>1 DEF client
      <3> QED
        BY <1>1, <2>1, <3>1, <3>2, AcceptInv, CreatorPasses
    <2>2. CASE StartReadAcquires \/ StartReadWaits \/ StartReadSchedules
      <3>1. told' = told
        BY <1>1 DEF client
      <3> QED
        BY <2>2, <3>1, CreatorPasses
    <2> QED
      BY <1>1, <2>1, <2>2 DEF ServerCreator
  <1>2. CASE startConnect \/ ConnectFails
    BY <1>2, StartConnectInv
  <1>3. CASE asyncConnect \/ NoSocket \/ ConnectAtOnce \/ ConnectWaits \/ ConnectSchedules
    <2>1. told' = told
      BY <1>3 DEF asyncConnect, NoSocket, ConnectAtOnce, ConnectWaits, ConnectSchedules, client
    <2> QED
      BY <1>3, <2>1, CreatorPasses
  <1> QED
    BY <1>1, <1>2, <1>3 DEF Creator

-----------------------------------------------------------------------------
(* The theorems *)

LEMMA InitInv == Init => ConnectionInv
  <1> HAVE Init
  <1>1. /\ load \in Load /\ peer = "open" /\ fd = "none" /\ edge = FALSE /\ told = "no"
        /\ readSide = NotReady /\ writeSide = NotReady /\ descr = "none"
        /\ batch = {} /\ poller = "poll" /\ queue = <<>> /\ refs_ = 0 /\ writing_ = FALSE
        /\ link = (IF side = "server" THEN "up" ELSE "connecting")
        /\ write_cb_ = (IF side = "server" THEN "write" ELSE "connect")
        /\ creator = (IF side = "server" THEN "accept" ELSE "async_connect")
        /\ pc = [w \in Actor |-> IF w = User THEN "connecting" ELSE "idle"]
        /\ nested = [w \in Actor |-> FALSE]
    BY DEF Init, ConnectionInit
  <1> USE <1>1
  <1>2. side = "server" \/ side = "client"
    BY LoadAssumption DEF side
  <1> USE <1>2
  <1>3. User \in Actor /\ \A w \in Worker : w \in Actor
    BY Actors DEF Actor
  <1>4. \A w \in Actor : (pc[w] = "connecting" \/ pc[w] = "idle") /\ nested[w] = FALSE
    OBVIOUS
  <1> USE <1>4
  <1>5. pc[User] = "connecting"
    BY <1>3
  <1>6. ASSUME NEW L, "connecting" \notin L, "idle" \notin L
        PROVE  At(L) = 0
    <2>1. {w \in Actor : pc[w] \in L} = {}
      BY <1>6
    <2> QED
      BY <2>1, FS_EmptySet DEF At
  <1>7. /\ FirstReads = 0 /\ Connects = 0 /\ Notifies = 0 /\ Firsts = 0 /\ InWrite = 0 /\ Held = 0
    BY <1>6 DEF FirstReads, Connects, Notifies, Firsts, InWrite, Held, FirstL, WriteL, HeldL
  <1> USE <1>7
  <1>8. InRead = 0
    <2>1. {w \in Worker : nested[w] \/ pc[w] \in {"read", "wait_read", "schedule_read", "request",
                                                  "body", "start_write"}} = {}
      BY <1>3
    <2> QED
      BY <2>1, FS_EmptySet DEF InRead
  <1>9. QueuedReads = 0 /\ QueuedWrites = 0
    <2>1. \A x : Places(<<>>, x) = {}
      BY ONLY DEF Places
    <2> QED
      BY <2>1, CountIs, FS_EmptySet DEF QueuedReads, QueuedWrites
  <1>10. /\ CreatorReads = 0 /\ CreatorWrites = 0 /\ PollerReads = 0 /\ PollerWrites = 0
         /\ One(creator = "acquire") = 0 /\ UserRef = 0
    BY DEF CreatorReads, CreatorWrites, PollerReads, PollerWrites, One, UserRef, ReadingL, WritingL
  <1>11. /\ readSide.waiting = FALSE /\ writeSide.waiting = FALSE /\ writeSide.can = FALSE
         /\ readSide \in [can : BOOLEAN, waiting : BOOLEAN]
         /\ writeSide \in [can : BOOLEAN, waiting : BOOLEAN]
    <2>1. NotReady.waiting = FALSE /\ NotReady.can = FALSE /\ NotReady \in [can : BOOLEAN, waiting : BOOLEAN]
      BY ONLY DEF NotReady
    <2> QED
      BY <2>1
  <1>12. Waiting(readSide) = 0 /\ Waiting(writeSide) = 0
    BY <1>11 DEF Waiting, One
  <1>13. Readers = 0 /\ Writers = 0 /\ Completing = 0
    BY ONLY <1>7, <1>8, <1>9, <1>10, <1>12, Parts
  <1>14. 0 + 0 = 0 /\ 0 + 0 <= 1 /\ 0 <= 1 /\ 0 \in Int /\ 0 + 0 - 0 + 0 + 0 = 0
    BY ONLY SMT
  <1> USE <1>14
  <1>15. TypeInv
    <2>1. pc = [w \in Actor |-> pc[w]] /\ nested \in [Actor -> BOOLEAN]
      OBVIOUS
    <2>2. <<>> \in Seq({"read", write_cb_})
      BY ONLY SMT
    <2> QED
      BY <1>11, <2>1, <2>2 DEF TypeInv
  <1>16. NestedInv /\ UserInv
    BY <1>5, <1>3 DEF NestedInv, UserInv, WriteL
  <1>17. ConnectInv /\ CreatorInv
    BY <1>13 DEF ConnectInv, CreatorInv
  <1>18. TrafficInv
    BY <1>13 DEF TrafficInv
  <1>19. LinkInv
    BY <1>9, <1>11 DEF LinkInv, QueuedWrites
  <1>20. RefsInv
    <2>1. refs_ = Readers + Writers - One(creator = "acquire") + Held + UserRef
      BY <1>10, <1>13
    <2> QED
      BY <2>1 DEF RefsInv
  <1> QED
    BY <1>15, <1>16, <1>17, <1>18, <1>19, <1>20 DEF ConnectionInv, TokenInv

LEMMA StutterInv ==
  ASSUME ConnectionInv, UNCHANGED vars
  PROVE  ConnectionInv'
  <1>1. /\ load' = load /\ link' = link /\ write_cb_' = write_cb_ /\ peer' = peer /\ fd' = fd
        /\ edge' = edge /\ readSide' = readSide /\ writeSide' = writeSide /\ descr' = descr
        /\ batch' = batch /\ poller' = poller /\ queue' = queue /\ refs_' = refs_
        /\ writing_' = writing_ /\ creator' = creator /\ pc' = pc /\ nested' = nested /\ told' = told
        /\ (reading' = "on") => (reading = "on")
    BY DEF vars, connection, client, reading
  <1> USE <1>1
  <1>2. TypeInv /\ LinkInv
    BY DEF ConnectionInv, TokenInv
  <1>3. Calm /\ Typed /\ Unconnected
    <2>1. QueuedWrites' = QueuedWrites
      BY PartsFrame
    <2> QED
      BY <1>2, <2>1 DEF Calm, Typed, Unconnected, TypeInv, LinkInv, QueuedWrites
  <1>4. Readers' = Readers /\ Writers' = Writers
    BY SameActors, PartsFrame, Sums
  <1> QED
    BY <1>3, <1>4, PartsFrame, CalmStep

LEMMA InvHolds == Spec => []ConnectionInv
  <1>1. ASSUME ConnectionInv, [Next]_vars
        PROVE  ConnectionInv'
    <2>1. CASE Next
      <3>1. CASE \E w \in Worker : WorkerStep(w)
        BY <1>1, <3>1, WorkerInv
      <3>2. CASE PollLoop /\ UNCHANGED client
        BY <1>1, <3>2, PollInv
      <3> QED
        BY <1>1, <2>1, <3>1, <3>2, PeerInv, CreatorStepInv, UserStepInv DEF Next
    <2> QED
      BY <1>1, <2>1, StutterInv
  <1> QED
    BY ONLY <1>1, InitInv, PTL DEF Spec

(* At most one read and one write of a connection are under way: waiting   *)
(* for an event, in the hands of the poll loop or of the pool, or on a     *)
(* thread.  For any number of threads and requests, both sub-classes, both *)
(* kinds of program, and a peer that may close, no two threads are in      *)
(* doRead(), or in doWrite() or doConnect(), of the same connection.       *)
THEOREM OneReaderOneWriterTheorem == Spec => []OneReaderOneWriter
  <1>1. ConnectionInv => OneReaderOneWriter
    BY AtMostOne DEF OneReaderOneWriter
  <1> QED
    BY ONLY <1>1, InvHolds, PTL

(* acquire() and release() balance: refs_ counts exactly what is           *)
(* outstanding, so the last release() closes the socket and deletes the    *)
(* Descriptor when no event, callback or thread can reach them any more.   *)
(* A blocking connect() gives its program no reference, so for such a      *)
(* client the theorem holds as long as its read goes on: the peer has not  *)
(* closed, and every response has parsed.                                  *)
THEOREM RefsTheorem == Spec => [](Kept => RefsExact)
  <1>1. ASSUME ConnectionInv, Kept
        PROVE  RefsExact
    <2>1. TypeInv /\ RefsInv
      BY <1>1 DEF ConnectionInv, TokenInv
    <2>2. refs_ = Readers + Writers - One(creator = "acquire") + Held + UserRef
      BY <2>1 DEF RefsInv
    <2>3. /\ (descr \in {"garbage", "freed"} \/ fd = "closed") => (refs_ = 0)
          /\ (batch # {}) => (descr # "freed")
      BY <2>1 DEF RefsInv
    <2>4. ASSUME write_cb_ = "write"
          PROVE  Count(queue, {"connect"}) = 0
      <3>1. queue \in Seq({"read", "write"})
        BY <2>1, <2>4 DEF TypeInv
      <3>2. \A i \in 1..Len(queue) : queue[i] \in {"read", "write"}
        BY ONLY <3>1
      <3>3. Places(queue, {"connect"}) = {}
        BY <3>2 DEF Places
      <3> QED
        BY <3>3, CountIs, FS_EmptySet
    <2> QED
      BY <2>2, <2>3, <2>4 DEF RefsExact, Held, HeldL, UserRef, LeavingL
  <1> QED
    BY ONLY <1>1, InvHolds, PTL
=============================================================================
