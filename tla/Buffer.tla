------------------------------- MODULE Buffer -------------------------------
(***************************************************************************)
(* buffer.cpp: chunks of BlockSize bytes, the positions wpos_ and rpos_,   *)
(* and the Iterator.  sizes_[i] is the length of chunk i.                  *)
(***************************************************************************)
EXTENDS Integers, SequencesExt

CONSTANT BlockSize
ASSUME BlockSizeAssumption == BlockSize \in Nat \ {0}

LOCAL Least(m, n) == IF m < n THEN m ELSE n

Position(i, o) == [idx |-> i, off |-> o]

NewBuffer == [chunks |-> <<<<>>>>, wpos_ |-> Position(1, 0), rpos_ |-> Position(1, 0)]

sizes_(b, i) == Len(b.chunks[i])
writeSize(b) == BlockSize - b.wpos_.off
readSize(b) == sizes_(b, b.rpos_.idx) - b.rpos_.off
(* What readPtr() points to. *)
ReadArea(b) == SubSeq(b.chunks[b.rpos_.idx], b.rpos_.off + 1, sizes_(b, b.rpos_.idx))

(* wpos_ moved to the end of the last chunk. *)
ToEnd(b) == [b EXCEPT !.wpos_ = Position(Len(b.chunks), sizes_(b, Len(b.chunks)))]

(* wpos_ = addChunk() *)
addChunk(b) == ToEnd([b EXCEPT !.chunks = Append(@, <<>>)])
dropChunks(b, n) ==
    [b EXCEPT !.chunks = SubSeq(@, n + 1, Len(@)), !.wpos_.idx = @ - n, !.rpos_.idx = @ - n]

(* Mutant: the reading pointer moves even if its chunk is not all read. *)
reserveMoves(b, bytes) ==
    IF bytes > BlockSize \/ writeSize(b) >= bytes
      THEN b
      ELSE dropChunks([addChunk(b) EXCEPT !.rpos_ = addChunk(b).wpos_], 1)

reserve(b, bytes) ==
    IF bytes > BlockSize \/ writeSize(b) >= bytes
      THEN b
      ELSE LET grown == addChunk(b)
           IN  IF b.rpos_ = b.wpos_
                 THEN dropChunks([grown EXCEPT !.rpos_ = grown.wpos_], 1)
                 ELSE grown

(* advance, after the caller stored data at writePtr(). *)
advance(b, data) ==
    IF Len(data) <= writeSize(b)
      THEN [b EXCEPT !.chunks[b.wpos_.idx] = @ \o data, !.wpos_.off = @ + Len(data)]
      ELSE b

(* write fills the last chunk and adds others, one more when it ends with  *)
(* a full one.                                                             *)
write(b, data) ==
    LET all == Last(b.chunks) \o data
        piece(i) == SubSeq(all, (i - 1) * BlockSize + 1, Least(i * BlockSize, Len(all)))
    IN  IF data = <<>>
          THEN b
          ELSE ToEnd([b EXCEPT !.chunks =
                 Front(@) \o [i \in 1..(Len(all) \div BlockSize + 1) |-> piece(i)]])

(* The loop of consume up to the last chunk, and what it does there: where *)
(* rpos_ is afterwards.                                                    *)
Skip(b, bytes) ==
    LET size(r) == sizes_(b, r.idx) - r.off
        skip[r \in [idx : Nat, off : Nat], left \in Nat] ==
            IF left = 0 \/ r.idx = b.wpos_.idx
              THEN Position(r.idx, r.off + Least(left, size(r)))
            ELSE IF left >= size(r)
              THEN skip[Position(r.idx + 1, 0), left - size(r)]
              ELSE Position(r.idx, r.off + left)
    IN  skip[b.rpos_, bytes]

consume(b, bytes) ==
    LET rpos_ == Skip(b, bytes)
    IN  dropChunks([b EXCEPT !.rpos_ = rpos_], rpos_.idx - b.rpos_.idx)

(* The first chunk is the one being read, the others are unread. *)
byteCount(b) ==
    FoldSeq(LAMBDA c, n : n + Len(c), readSize(b), Tail(b.chunks))

-----------------------------------------------------------------------------
(* Moving and copying between buffers *)

isConsumed(b) == b.rpos_ # Position(1, 0)

maybeRemoveLastChunk(chunks) == IF Last(chunks) = <<>> THEN Front(chunks) ELSE chunks

(* A new, or the saved, chunk behind one that is full. *)
OpenEnd(chunks) == IF Len(Last(chunks)) = BlockSize THEN Append(chunks, <<>>) ELSE chunks

(* Mutant: an empty last chunk is left between the data. *)
appendFromKeepsEmpty(b, other) ==
    LET all == ToEnd([b EXCEPT !.chunks = OpenEnd(@ \o maybeRemoveLastChunk(other.chunks))])
    IN  IF readSize(other) = 0 THEN b
        ELSE IF readSize(all) = 0 THEN [all EXCEPT !.rpos_ = Position(b.rpos_.idx + 1, 0)]
        ELSE all

(* What appendFrom makes of 'this'. *)
appendFrom(b, other) ==
    LET chunks == maybeRemoveLastChunk(b.chunks) \o maybeRemoveLastChunk(other.chunks)
        all == ToEnd([b EXCEPT !.chunks = OpenEnd(chunks)])
    IN  IF readSize(other) = 0 THEN b
        ELSE IF readSize(all) = 0 THEN [all EXCEPT !.rpos_ = Position(b.rpos_.idx + 1, 0)]
        ELSE all

(* What it makes of the other buffer.  Only addChunk sets wpos_, and it is *)
(* skipped when an empty last chunk is put back: then both positions are   *)
(* in a chunk that is gone.                                                *)
AppendedFrom(other) ==
    IF readSize(other) = 0 THEN other
    ELSE IF Last(other.chunks) = <<>>
      THEN [other EXCEPT !.chunks = <<<<>>>>, !.rpos_ = other.wpos_]
      ELSE NewBuffer

Spoilt(b) == b.wpos_.idx > Len(b.chunks)

(* The chunks are copied one by one, the first into the last of 'this' if  *)
(* it fits there.                                                          *)
copyFrom(b, other) ==
    LET fits == Len(Head(other.chunks)) <= writeSize(b)
        copied == IF fits
                    THEN Front(b.chunks) \o <<Last(b.chunks) \o Head(other.chunks)>>
                         \o Tail(other.chunks)
                    ELSE b.chunks \o other.chunks
    IN  IF readSize(other) = 0 THEN b ELSE ToEnd([b EXCEPT !.chunks = OpenEnd(copied)])

-----------------------------------------------------------------------------
(* Buffer::Iterator.  budget_ is always what getBudget() returns. *)

Iterator == [pos_ : [idx : Nat, off : Nat], bytes_read_ : Nat]

begin(b) == [pos_ |-> b.rpos_, bytes_read_ |-> 0]
getBudget(b, it) == sizes_(b, it.pos_.idx) - it.pos_.off
eob(b, it) == getBudget(b, it) = 0 /\ it.pos_ = b.wpos_

(* Past the last byte is whatever the memory holds, which the caller gives. *)
getChar(b, it, stale) ==
    IF getBudget(b, it) = 0 THEN stale ELSE b.chunks[it.pos_.idx][it.pos_.off + 1]

(* next, with slowNext for the last byte of a chunk. *)
next(b, it) ==
    IF getBudget(b, it) = 0
      THEN it
      ELSE [pos_ |-> IF getBudget(b, it) = 1 /\ it.pos_.idx < b.wpos_.idx
                       THEN Position(it.pos_.idx + 1, 0)
                       ELSE Position(it.pos_.idx, it.pos_.off + 1),
            bytes_read_ |-> it.bytes_read_ + 1]

-----------------------------------------------------------------------------
(* What a Buffer stands for: the bytes written and not yet consumed. *)
Contents(b) ==
    ReadArea(b) \o FlattenSeq(SubSeq(b.chunks, b.rpos_.idx + 1, Len(b.chunks)))
=============================================================================
