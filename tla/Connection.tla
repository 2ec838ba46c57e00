----------------------------- MODULE Connection -----------------------------
(***************************************************************************)
(* connection.cpp: a connection with its Descriptor, the poll loop of the  *)
(* IOManager, the worker pool that runs its callbacks, and the readDone()  *)
(* of HTTPServerConnection as its sub-class.  The other sub-class is in    *)
(* ClientConnection, with the specification of both.                       *)
(*                                                                         *)
(* A step is one critical section, one system call, or one call of another *)
(* component.  Data is counted: a request, and a piece of a response that  *)
(* is written to out_ at once, is one unit.  The socket and the peer are   *)
(* external, modelled by what the code sees of them; epoll reports every   *)
(* direction that is ready when an edge has occurred.  The worker pool is  *)
(* the queue that ThreadPoolFast was shown to implement.                   *)
(***************************************************************************)
EXTENDS Integers, Sequences, FiniteSetsExt, Descriptor

CONSTANTS
    Load,         \* the connections, each with the bounds on what happens to it
    SendSpace     \* units the send buffer of the socket holds

(* A connection is a "server", or a "client" whose program uses blocking   *)
(* or asynchronous calls; it is served by num_workers threads, a number of *)
(* requests are sent on it, and the peer may close it.  One of them has    *)
(* the most threads.                                                       *)
ASSUME LoadAssumption ==
    /\ \A l \in Load :
         /\ l.side \in {"server", "client"}
         /\ l.workers \in Nat \ {0} /\ l.requests \in Nat \ {0}
         /\ l.closes \in BOOLEAN /\ l.blocking \in BOOLEAN
    /\ \E l \in Load : \A m \in Load : m.workers <= l.workers
    /\ SendSpace \in Nat \ {0}

MaxWorkers == Max({l.workers : l \in Load})
Worker == 1..MaxWorkers
NoOne == 0
User == MaxWorkers + 1         \* a thread of the program that uses a client connection
Actor == Worker \cup {User}

VARIABLES
    load,               \* the member of Load that this connection is
    link,               \* of the socket: "connecting", "up" or "refused"
    write_cb_,          \* of the Descriptor: doConnect or doWrite
    inbox, requests,    \* requests in the receive buffer, requests sent so far
    space,              \* room in the send buffer
    peer,               \* "open" or "closed"
    fd, edge,           \* is the socket open, and has it an unreported event
    readSide, writeSide,\* the Descriptor
    descr,              \* "none" yet, "live", "garbage" (in deleted_desc_) or "freed"
    batch, poller,      \* the events the poll loop handles, and where it is
    queue,              \* callbacks in the worker pool
    refs_, writing_,    \* of the Connection
    m_write_,           \* the worker that holds it over more than one step
    in_, out_,          \* units in the two buffers
    tail,               \* of out_: how its last chunk was left
    parse,              \* "ok", or "failed" once readDone() has failed (history)
    creator,            \* where the thread that made the connection is
    pc, nested,         \* where a worker is, and is its doWrite inside of doRead
    size, result        \* of socketWrite

side == load.side
workers == load.workers

given == <<load, link, write_cb_>>
socket == <<inbox, requests, space, peer>>
poll == <<batch, poller, descr>>
buffers == <<in_, out_, tail, parse>>
frames == <<nested, size, result>>
connection == <<load, link, write_cb_, inbox, requests, space, peer, fd, edge,
                readSide, writeSide, descr, batch, poller, queue, refs_, writing_, m_write_,
                in_, out_, tail, parse, creator, pc, nested, size, result>>

Again == -1
Error == -2

ConnectionInit ==
    /\ load \in Load
    /\ link = IF side = "server" THEN "up" ELSE "connecting"
    /\ write_cb_ = IF side = "server" THEN "write" ELSE "connect"
    /\ inbox = 0 /\ requests = 0
    /\ space = SendSpace
    /\ peer = "open"
    /\ fd = "none" /\ edge = FALSE
    /\ readSide = NotReady /\ writeSide = NotReady
    /\ descr = "none"
    /\ batch = {} /\ poller = "poll"
    /\ queue = <<>>
    /\ refs_ = 0 /\ writing_ = FALSE
    /\ m_write_ = NoOne
    /\ in_ = 0 /\ out_ = 0 /\ tail = "open" /\ parse = "ok"
    /\ creator = IF side = "server" THEN "accept" ELSE "async_connect"
    /\ pc = [w \in Actor |-> IF w = User THEN "connecting" ELSE "idle"]
    /\ nested = [w \in Actor |-> FALSE]
    /\ size = [w \in Actor |-> 0]
    /\ result = [w \in Actor |-> 0]

Goto(w, label) == pc' = [pc EXCEPT ![w] = label]

-----------------------------------------------------------------------------
(* The peer, and the socket *)

PeerSends(most) ==
    /\ link = "up" /\ peer = "open" /\ fd = "open" /\ requests < most
    /\ requests' = requests + 1
    /\ inbox' = inbox + 1
    /\ edge' = TRUE
    /\ UNCHANGED <<given, space, peer, fd, readSide, writeSide, poll, queue, refs_,
                   writing_, m_write_, buffers, creator, pc, frames>>

(* The peer takes everything that was sent; the kernel reports room in a   *)
(* send buffer that was full.                                              *)
PeerReceives ==
    /\ peer = "open" /\ fd = "open" /\ space < SendSpace
    /\ space' = SendSpace
    /\ edge' = (edge \/ space = 0)
    /\ UNCHANGED <<given, inbox, requests, peer, fd, readSide, writeSide, poll,
                   queue, refs_, writing_, m_write_, buffers, creator, pc, frames>>

PeerCloses ==
    /\ load.closes
    /\ link = "up" /\ peer = "open" /\ fd = "open"
    /\ peer' = "closed"
    /\ edge' = TRUE
    /\ UNCHANGED <<given, inbox, requests, space, fd, readSide, writeSide, poll,
                   queue, refs_, writing_, m_write_, buffers, creator, pc, frames>>

-----------------------------------------------------------------------------
(* acceptConnection, and startRead in the constructor *)

(* The Descriptor is registered with epoll, which reports at once what the *)
(* socket is ready for: a connected one can be written.                    *)
newDescriptor ==
    /\ fd' = "open"
    /\ descr' = "live"
    /\ edge' = (link = "up")

(* A service that is stopped drops the socket.  The peer is let in only    *)
(* when the Descriptor is registered, which is when its first event shows. *)
acceptConnection ==
    /\ creator = "accept"
    /\ \/ creator' = "service_stopped" /\ UNCHANGED <<fd, descr, edge>>
       \/ creator' = "acquire" /\ newDescriptor
    /\ UNCHANGED <<given, socket, readSide, writeSide, batch, poller, queue, refs_,
                   writing_, m_write_, buffers, pc, frames>>

StartReadAcquires ==
    /\ creator = "acquire"
    /\ refs_' = refs_ + 1
    /\ creator' = "wait"
    /\ UNCHANGED <<given, socket, fd, edge, readSide, writeSide, poll, queue, writing_,
                   m_write_, buffers, pc, frames>>

StartReadWaits ==
    /\ creator = "wait"
    /\ readSide' = WhenReady(readSide)
    /\ creator' = IF RunsNow(readSide) THEN "schedule" ELSE "done"
    /\ UNCHANGED <<given, socket, fd, edge, writeSide, poll, queue, refs_, writing_,
                   m_write_, buffers, pc, frames>>

StartReadSchedules ==
    /\ creator = "schedule"
    /\ queue' = Append(queue, "read")
    /\ creator' = "done"
    /\ UNCHANGED <<given, socket, fd, edge, readSide, writeSide, poll, refs_, writing_,
                   m_write_, buffers, pc, frames>>

-----------------------------------------------------------------------------
(* IOManager::pollBody *)

ReadyNow ==
    {d \in {"read", "write"} :
       \/ peer = "closed" \/ link = "refused"
       \/ d = "read" /\ inbox > 0
       \/ d = "write" /\ link = "up" /\ space > 0}

(* A poll that times out is a step only if there is something to collect.  *)
PollReturns ==
    /\ poller = "poll"
    /\ edge \/ descr = "garbage"
    /\ batch' = IF edge THEN ReadyNow ELSE {}
    /\ edge' = FALSE
    /\ poller' = IF edge THEN "read" ELSE "collect"
    /\ UNCHANGED <<given, socket, fd, readSide, writeSide, descr, queue, refs_, writing_,
                   m_write_, buffers, creator, pc, frames>>

readIfWaiting ==
    /\ poller = "read"
    /\ readSide' = IF "read" \in batch THEN IfWaiting(readSide) ELSE readSide
    /\ poller' = IF "read" \in batch /\ Schedules(readSide) THEN "push_read" ELSE "write"
    /\ UNCHANGED <<given, socket, fd, edge, writeSide, descr, batch, queue, refs_,
                   writing_, m_write_, buffers, creator, pc, frames>>

writeIfWaiting ==
    /\ poller = "write"
    /\ writeSide' = IF "write" \in batch THEN IfWaiting(writeSide) ELSE writeSide
    /\ poller' = IF "write" \in batch /\ Schedules(writeSide) THEN "push_write" ELSE "collect"
    /\ UNCHANGED <<given, socket, fd, edge, readSide, descr, batch, queue, refs_,
                   writing_, m_write_, buffers, creator, pc, frames>>

PushCallback ==
    /\ \/ poller = "push_read" /\ queue' = Append(queue, "read") /\ poller' = "write"
       \/ poller = "push_write" /\ queue' = Append(queue, write_cb_) /\ poller' = "collect"
    /\ UNCHANGED <<given, socket, fd, edge, readSide, writeSide, descr, batch, refs_,
                   writing_, m_write_, buffers, creator, pc, frames>>

(* The end of a turn of the loop: deleted descriptors are freed. *)
CollectDeleted ==
    /\ poller = "collect"
    /\ descr' = IF descr = "garbage" THEN "freed" ELSE descr
    /\ batch' = {}
    /\ poller' = "poll"
    /\ UNCHANGED <<given, socket, fd, edge, readSide, writeSide, queue, refs_, writing_,
                   m_write_, buffers, creator, pc, frames>>

-----------------------------------------------------------------------------
(* doRead, on a worker *)

(* Idle workers are alike, and the first takes the callback. *)
TakeCallback(w) ==
    /\ w <= workers
    /\ pc[w] = "idle"
    /\ \A v \in 1..(w - 1) : pc[v] # "idle"
    /\ queue # <<>>
    /\ queue' = Tail(queue)
    /\ Goto(w, CASE Head(queue) = "read" -> "read"
                 [] Head(queue) = "write" -> "size"
                 [] Head(queue) = "connect" -> "connect")
    /\ UNCHANGED <<given, socket, fd, edge, readSide, writeSide, poll, refs_, writing_,
                   m_write_, buffers, creator, frames>>

(* socketRead returns what has arrived, nothing for now, or the end. *)
Read(w) ==
    /\ pc[w] = "read"
    /\ inbox > 0 \/ peer = "closed"
    /\ in_' = in_ + inbox
    /\ inbox' = 0
    /\ Goto(w, IF inbox > 0 THEN "request" ELSE "release")
    /\ UNCHANGED <<given, requests, space, peer, fd, edge, readSide, writeSide, poll,
                   queue, refs_, writing_, m_write_, out_, tail, parse, creator, frames>>

(* Mutant: the read that waits for the next event holds no reference. *)
ReadAgainUncounted(w) ==
    /\ pc[w] = "read"
    /\ inbox = 0 /\ peer = "open"
    /\ Goto(w, "wait_read")
    /\ UNCHANGED <<given, socket, fd, edge, readSide, writeSide, poll, queue, refs_,
                   writing_, m_write_, buffers, creator, frames>>

ReadAgain(w) ==
    /\ pc[w] = "read"
    /\ inbox = 0 /\ peer = "open"
    /\ refs_' = refs_ + 1
    /\ Goto(w, "wait_read")
    /\ UNCHANGED <<given, socket, fd, edge, readSide, writeSide, poll, queue, writing_,
                   m_write_, buffers, creator, frames>>

readWhenReady(w) ==
    /\ pc[w] = "wait_read"
    /\ readSide' = WhenReady(readSide)
    /\ Goto(w, IF RunsNow(readSide) THEN "schedule_read" ELSE "release")
    /\ UNCHANGED <<given, socket, fd, edge, writeSide, poll, queue, refs_, writing_,
                   m_write_, buffers, creator, frames>>

ScheduleRead(w) ==
    /\ pc[w] = "schedule_read"
    /\ queue' = Append(queue, "read")
    /\ Goto(w, "release")
    /\ UNCHANGED <<given, socket, fd, edge, readSide, writeSide, poll, refs_, writing_,
                   m_write_, buffers, creator, frames>>

-----------------------------------------------------------------------------
(* HTTPServerConnection::readDone and handleRequest.  The client's         *)
(* readDone returns and fails in the same way.                             *)

(* No complete request is left in in_: back to socketRead. *)
ReadDoneReturns(w) ==
    /\ pc[w] = "request"
    /\ in_ = 0
    /\ Goto(w, "read")
    /\ UNCHANGED <<given, socket, fd, edge, readSide, writeSide, poll, queue, refs_,
                   writing_, m_write_, buffers, creator, frames>>

(* A request or response that does not parse ends the reading; the client *)
(* runs no callback for it.                                               *)
ReadDoneFails(w) ==
    /\ pc[w] = "request"
    /\ in_ > 0
    /\ parse' = "failed"
    /\ Goto(w, "release")
    /\ UNCHANGED <<given, socket, fd, edge, readSide, writeSide, poll, queue, refs_,
                   writing_, m_write_, in_, out_, tail, creator, frames>>

(* Buffer::write on out_.  It never ends with a full chunk, but when the   *)
(* last one was filled by advance() and all of it is read, it starts the   *)
(* next one and leaves rpos_ behind: readSize() is 0 from then on.         *)
WriteOut ==
    /\ out_' = out_ + 1
    /\ tail' = IF tail = "left" \/ (tail = "full" /\ out_ = 0) THEN "left" ELSE "open"

(* The header of the answer, or the whole of it when no file is read. *)
HandleRequest(w) ==
    /\ pc[w] = "request"
    /\ in_ > 0
    /\ m_write_ = NoOne
    /\ in_' = in_ - 1
    /\ WriteOut
    /\ \/ Goto(w, "body")
       \/ Goto(w, "start_write")
    /\ UNCHANGED <<given, socket, fd, edge, readSide, writeSide, poll, queue, refs_,
                   writing_, m_write_, parse, creator, frames>>

(* The file was read into the reserved area without m_write_.  It may fill *)
(* the chunk, as one that is larger than a chunk always does.              *)
AdvanceOverFile(w) ==
    /\ pc[w] = "body"
    /\ m_write_ = NoOne
    /\ out_' = out_ + 1
    /\ tail' \in IF tail = "left" THEN {"left"} ELSE {"open", "full"}
    /\ Goto(w, "start_write")
    /\ UNCHANGED <<given, socket, fd, edge, readSide, writeSide, poll, queue, refs_,
                   writing_, m_write_, in_, parse, creator, frames>>

-----------------------------------------------------------------------------
(* startWrite and doWrite *)

(* startWrite returns: to readDone, or to the thread that sends. *)
AfterWrite(w) == IF w = User THEN "sent" ELSE "request"

(* Mutant: a write is started beside the one under way. *)
startWriteAlways(w) ==
    /\ pc[w] = "start_write"
    /\ m_write_ = NoOne
    /\ writing_' = TRUE
    /\ refs_' = refs_ + 1
    /\ nested' = [nested EXCEPT ![w] = TRUE]
    /\ Goto(w, "size")
    /\ UNCHANGED <<given, socket, fd, edge, readSide, writeSide, poll, queue, m_write_,
                   buffers, creator, size, result>>

startWrite(w) ==
    /\ pc[w] = "start_write"
    /\ m_write_ = NoOne
    /\ writing_' = TRUE
    /\ IF writing_
         THEN Goto(w, AfterWrite(w)) /\ UNCHANGED <<refs_, nested>>
         ELSE /\ refs_' = refs_ + 1
              /\ nested' = [nested EXCEPT ![w] = TRUE]
              /\ Goto(w, "size")
    /\ UNCHANGED <<given, socket, fd, edge, readSide, writeSide, poll, queue, m_write_,
                   buffers, creator, size, result>>

(* readSize() is the contiguous part: at least one unit if there is any,   *)
(* unless rpos_ was left behind.                                           *)
TakeSize(w) ==
    /\ pc[w] = "size"
    /\ m_write_ = NoOne
    /\ \E n \in 0..out_ :
         /\ (n = 0) <=> (out_ = 0 \/ tail = "left")
         /\ size' = [size EXCEPT ![w] = n]
    /\ Goto(w, "write")
    /\ UNCHANGED <<given, socket, fd, edge, readSide, writeSide, poll, queue, refs_,
                   writing_, m_write_, buffers, creator, nested, result>>

(* What socketWrite may return for n bytes: a full send buffer would       *)
(* block, there may be room for a part only, and zero bytes are written at *)
(* once.  After the peer closed, the kernel may still take a write before  *)
(* the error is known.  SIGPIPE is taken to be ignored.                    *)
WriteOutcomes(n) ==
    LET fits == IF n < space THEN n ELSE space
    IN  IF peer = "closed" THEN {Error} \cup (IF n > 0 /\ space = 0 THEN {} ELSE {fits})
        ELSE IF n > 0 /\ space = 0 THEN {Again} ELSE {fits}

Write(w) ==
    /\ pc[w] = "write"
    /\ \E r \in WriteOutcomes(size[w]) :
         /\ result' = [result EXCEPT ![w] = r]
         /\ space' = IF r > 0 THEN space - r ELSE space
    /\ Goto(w, "wrote")
    /\ UNCHANGED <<given, inbox, requests, peer, fd, edge, readSide, writeSide, poll,
                   queue, refs_, writing_, m_write_, buffers, creator, nested, size>>

WriteAgain(w) ==
    /\ pc[w] = "wrote"
    /\ m_write_ = NoOne
    /\ result[w] = Again
    /\ m_write_' = w
    /\ refs_' = refs_ + 1
    /\ Goto(w, "wait_write")
    /\ UNCHANGED <<given, socket, fd, edge, readSide, writeSide, poll, queue, writing_,
                   buffers, creator, frames>>

writeWhenReady(w) ==
    /\ pc[w] = "wait_write"
    /\ writeSide' = WhenReady(writeSide)
    /\ IF RunsNow(writeSide)
         THEN Goto(w, "schedule_write") /\ UNCHANGED m_write_
         ELSE Goto(w, "release_write") /\ m_write_' = NoOne
    /\ UNCHANGED <<given, socket, fd, edge, readSide, poll, queue, refs_, writing_,
                   buffers, creator, frames>>

ScheduleWrite(w) ==
    /\ pc[w] = "schedule_write"
    /\ queue' = Append(queue, write_cb_)
    /\ m_write_' = NoOne
    /\ Goto(w, "release_write")
    /\ UNCHANGED <<given, socket, fd, edge, readSide, writeSide, poll, refs_, writing_,
                   buffers, creator, frames>>

(* An error, and a write of nothing, end doWrite() with writing_ set. *)
WriteFails(w) ==
    /\ pc[w] = "wrote"
    /\ m_write_ = NoOne
    /\ result[w] \in {Error, 0}
    /\ Goto(w, "release_write")
    /\ UNCHANGED <<given, socket, fd, edge, readSide, writeSide, poll, queue, refs_,
                   writing_, m_write_, buffers, creator, frames>>

(* Mutant: the write is over when what was taken has been written. *)
ConsumeForgetsRest(w) ==
    /\ pc[w] = "wrote"
    /\ m_write_ = NoOne
    /\ result[w] > 0
    /\ out_' = out_ - result[w]
    /\ IF size[w] = result[w]
         THEN writing_' = FALSE /\ Goto(w, "release_write")
         ELSE Goto(w, "size") /\ UNCHANGED writing_
    /\ size' = [size EXCEPT ![w] = 0]
    /\ result' = [result EXCEPT ![w] = 0]
    /\ UNCHANGED <<given, socket, fd, edge, readSide, writeSide, poll, queue, refs_,
                   m_write_, in_, tail, parse, creator, nested>>

Consume(w) ==
    /\ pc[w] = "wrote"
    /\ m_write_ = NoOne
    /\ result[w] > 0
    /\ out_' = out_ - result[w]
    /\ IF size[w] = result[w] /\ out_' = 0
         THEN writing_' = FALSE /\ Goto(w, "release_write")
         ELSE Goto(w, "size") /\ UNCHANGED writing_
    /\ size' = [size EXCEPT ![w] = 0]
    /\ result' = [result EXCEPT ![w] = 0]
    /\ UNCHANGED <<given, socket, fd, edge, readSide, writeSide, poll, queue, refs_,
                   m_write_, in_, tail, parse, creator, nested>>

-----------------------------------------------------------------------------
(* release and the destructor *)

(* After a nested doWrite() the worker goes on in readDone(). *)
Release(w) ==
    /\ pc[w] \in {"release", "release_write"}
    /\ refs_' = refs_ - 1
    /\ Goto(w, IF refs_ = 1 THEN "close"
               ELSE IF pc[w] = "release_write" /\ nested[w] THEN AfterWrite(w) ELSE "idle")
    /\ nested' = [nested EXCEPT ![w] = FALSE]
    /\ size' = [size EXCEPT ![w] = 0]
    /\ result' = [result EXCEPT ![w] = 0]
    /\ UNCHANGED <<given, socket, fd, edge, readSide, writeSide, poll, queue, writing_,
                   m_write_, buffers, creator>>

(* Closing the socket takes it out of the epoll set. *)
CloseSocket(w) ==
    /\ pc[w] = "close"
    /\ fd' = "closed"
    /\ edge' = FALSE
    /\ Goto(w, "delete")
    /\ UNCHANGED <<given, socket, readSide, writeSide, poll, queue, refs_, writing_,
                   m_write_, buffers, creator, frames>>

(* A program whose send() held the last reference goes on to wait. *)
delDescriptor(w) ==
    /\ pc[w] = "delete"
    /\ descr' = "garbage"
    /\ Goto(w, IF w = User /\ load.blocking THEN "sent" ELSE "idle")
    /\ UNCHANGED <<given, socket, fd, edge, readSide, writeSide, batch, poller, queue,
                   refs_, writing_, m_write_, buffers, creator, frames>>

-----------------------------------------------------------------------------
ServerCreator == acceptConnection \/ StartReadAcquires \/ StartReadWaits \/ StartReadSchedules

PollLoop == PollReturns \/ readIfWaiting \/ writeIfWaiting \/ PushCallback \/ CollectDeleted

ReadStep(w) ==
    \/ TakeCallback(w) \/ Read(w) \/ ReadAgain(w) \/ readWhenReady(w)
    \/ ScheduleRead(w) \/ ReadDoneReturns(w) \/ ReadDoneFails(w)

ServerStep(w) == side = "server" /\ (HandleRequest(w) \/ AdvanceOverFile(w))

WriteStep(w) ==
    \/ startWrite(w) \/ TakeSize(w)
    \/ Write(w) \/ WriteAgain(w) \/ writeWhenReady(w) \/ ScheduleWrite(w)
    \/ WriteFails(w) \/ Consume(w) \/ Release(w)

DeleteStep(w) == CloseSocket(w) \/ delDescriptor(w)

=============================================================================
