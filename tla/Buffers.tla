------------------------------ MODULE Buffers ------------------------------
(***************************************************************************)
(* Buffers that a producer and a consumer use in any order, as             *)
(* buffer_test.cpp and the connections do: every operation of buffer.cpp.  *)
(***************************************************************************)
EXTENDS Buffer

CONSTANTS
    Name,        \* of the buffers
    MaxBytes,    \* bound on the bytes made
    MaxChunks    \* bound on the chunks of a buffer

ASSUME BuffersAssumption == MaxBytes \in Nat /\ MaxChunks \in Nat \ {0}

VARIABLES
    buffer,   \* the buffers
    made,     \* bytes made so far: the next ones are made + 1, made + 2, ...
    stream    \* the bytes a buffer should hold (history)

vars == <<buffer, made, stream>>

Init ==
    /\ buffer = [x \in Name |-> NewBuffer]
    /\ made = 0
    /\ stream = [x \in Name |-> <<>>]

Set(x, b) == buffer' = [buffer EXCEPT ![x] = b]

(* The next n bytes. *)
Data(n) == [i \in 1..n |-> made + i]
Make(x, n) ==
    /\ made + n <= MaxBytes
    /\ made' = made + n
    /\ stream' = [stream EXCEPT ![x] = @ \o Data(n)]

Write(x, n) ==
    /\ Make(x, n)
    /\ Set(x, write(buffer[x], Data(n)))

(* reserve, store at writePtr() and advance, as doRead does. *)
Fill(x, n) ==
    /\ n <= BlockSize
    /\ Make(x, n)
    /\ Set(x, advance(reserve(buffer[x], n), Data(n)))

(* The consumer takes no more than it saw at readPtr(). *)
Consume(x, n) ==
    /\ n <= readSize(buffer[x])
    /\ Set(x, consume(buffer[x], n))
    /\ stream' = [stream EXCEPT ![x] = SubSeq(@, n + 1, Len(@))]
    /\ UNCHANGED made

(* REQUIRES: "can only append from a buffer that was not consumed yet". *)
AppendFrom(x, y) ==
    /\ ~isConsumed(buffer[y])
    /\ buffer' = [buffer EXCEPT
         ![x] = appendFrom(buffer[x], buffer[y]),
         ![y] = AppendedFrom(buffer[y])]
    /\ stream' = [stream EXCEPT ![x] = @ \o stream[y], ![y] = <<>>]
    /\ UNCHANGED made

CopyFrom(x, y) ==
    /\ ~isConsumed(buffer[y])
    /\ Set(x, copyFrom(buffer[x], buffer[y]))
    /\ stream' = [stream EXCEPT ![x] = @ \o stream[y]]
    /\ UNCHANGED made

(* Whatever a program does with a spoilt buffer, reading its size to begin *)
(* with, is undefined.                                                     *)
Sound(x) == ~Spoilt(buffer[x]) /\ Len(buffer[x].chunks) <= MaxChunks

Produce(x) ==
    \/ \E n \in 1..(2 * BlockSize) : Write(x, n) \/ Fill(x, n)
    \/ \E y \in Name \ {x} : Sound(y) /\ (AppendFrom(x, y) \/ CopyFrom(x, y))

Next == \E x \in Name : Sound(x) /\ (Produce(x) \/ \E n \in 1..BlockSize : Consume(x, n))

Spec == Init /\ [][Next]_vars

-----------------------------------------------------------------------------
(* The bytes an Iterator gives from begin() until next() has no effect. *)
Seen(b) ==
    LET see[it \in Iterator] ==
          IF next(b, it) = it THEN <<>> ELSE <<getChar(b, it, 0)>> \o see[next(b, it)]
    IN  see[begin(b)]

(* A buffer holds the bytes that were written, moved or copied into it and *)
(* not consumed, in their order; all of them can be read by the Iterator,  *)
(* and byteCount() counts them.  The exceptions are a buffer that          *)
(* appendFrom has taken an empty last chunk from, and the two ends of      *)
(* rpos_: on a chunk that was read to its end when write() went on to the  *)
(* next one, nothing can be read; and behind a chunk that appendFrom left  *)
(* in front of it, byteCount() counts too much.                            *)
BuffersAreQueues ==
    \A x \in Name :
      LET b == buffer[x] IN
      ~Spoilt(b) =>
        /\ Contents(b) = stream[x]
        /\ \/ Seen(b) = stream[x]
           \/ readSize(b) = 0 /\ b.rpos_ # b.wpos_
        /\ byteCount(b) = Len(stream[x]) \/ b.rpos_.idx > 1

(* "a consumer can read from that area while a producer is writing new     *)
(* data" (buffer.hpp:52): nothing but consume() takes away or changes what *)
(* is at readPtr().                                                        *)
ReadAreaStable ==
    [][\A x \in Name :
         \/ Spoilt(buffer[x])
         \/ \E y \in Name \ {x} : Sound(y) /\ AppendFrom(y, x)
         \/ \E n \in 1..BlockSize : Consume(x, n)
         \/ IsPrefix(ReadArea(buffer[x]), ReadArea(buffer'[x]))]_vars

(* "'other' will be empty after that" (buffer.hpp:106-107): a buffer that  *)
(* holds nothing can be asked for its size.                                *)
AppendFromEmpties ==
    \A x \in Name : stream[x] = <<>> => buffer[x].rpos_.idx \in DOMAIN buffer[x].chunks
=============================================================================
