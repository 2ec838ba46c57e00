-------------------------- MODULE ClientConnection --------------------------
(***************************************************************************)
(* Either sub-class of Connection: HTTPServerConnection, whose steps are   *)
(* in Connection, or HTTPClientConnection, which a thread of the program   *)
(* makes with HTTPService::asyncConnect and sends requests on.             *)
(*                                                                         *)
(* The program is external.  It uses the blocking connect() and send(), or *)
(* the asynchronous ones; then its callback keeps the connection with      *)
(* acquire() (connection.hpp:81), wakes the thread that waits for it, and  *)
(* that thread calls release() in the end.                                 *)
(***************************************************************************)
EXTENDS Connection

VARIABLES
    told,      \* what the callback of asyncConnect was told: "no", "ok" or "failed"
    sends,     \* requests sent: callbacks that were put into response_cbs_
    received,  \* requests that the peer of a client has received
    answered   \* callbacks that were taken out and run

client == <<told, sends, received, answered>>
vars == <<connection, client>>

Init ==
    /\ ConnectionInit
    /\ told = "no"
    /\ sends = 0 /\ received = 0 /\ answered = 0

One(b) == IF b THEN 1 ELSE 0

-----------------------------------------------------------------------------
(* asyncConnect and connect, in the thread of the program *)

(* The connection is made, and startConnect called. *)
connect == creator' = "connect"

(* A service that is stopped makes no connection, and tells nobody. *)
asyncConnect ==
    /\ creator = "async_connect"
    /\ connect \/ creator' = "service_stopped"
    /\ UNCHANGED <<given, socket, fd, edge, readSide, writeSide, poll, queue, refs_, writing_,
                   m_write_, buffers, pc, frames, client>>

(* socket() fails: nobody is told. *)
NoSocket ==
    /\ creator = "connect"
    /\ creator' = "no_socket"
    /\ UNCHANGED <<given, socket, fd, edge, readSide, writeSide, poll, queue, refs_, writing_,
                   m_write_, buffers, pc, frames, client>>

(* connect() fails at once: connDone() and the last release() right here,  *)
(* with no Descriptor to delete.                                           *)
ConnectFails ==
    /\ creator = "connect"
    /\ told' = "failed"
    /\ creator' = "done"
    /\ UNCHANGED <<given, socket, fd, edge, readSide, writeSide, poll, queue, refs_, writing_,
                   m_write_, buffers, pc, frames, sends, received, answered>>

(* connect() succeeds at once: doConnect() is called with no Descriptor,   *)
(* and calls its setUpCalls.                                               *)
ConnectAtOnce ==
    /\ creator = "connect"
    /\ creator' = "crashed"
    /\ UNCHANGED <<given, socket, fd, edge, readSide, writeSide, poll, queue, refs_, writing_,
                   m_write_, buffers, pc, frames, client>>

(* EINPROGRESS: acquire, and the Descriptor is registered with epoll. *)
startConnect ==
    /\ creator = "connect"
    /\ newDescriptor
    /\ refs_' = refs_ + 1
    /\ creator' = "wait_write"
    /\ UNCHANGED <<given, socket, readSide, writeSide, batch, poller, queue, writing_,
                   m_write_, buffers, pc, frames, client>>

ConnectWaits ==
    /\ creator = "wait_write"
    /\ writeSide' = WhenReady(writeSide)
    /\ creator' = IF RunsNow(writeSide) THEN "schedule_write" ELSE "done"
    /\ UNCHANGED <<given, socket, fd, edge, readSide, poll, queue, refs_, writing_,
                   m_write_, buffers, pc, frames, client>>

ConnectSchedules ==
    /\ creator = "schedule_write"
    /\ queue' = Append(queue, write_cb_)
    /\ creator' = "done"
    /\ UNCHANGED <<given, socket, fd, edge, readSide, writeSide, poll, refs_, writing_,
                   m_write_, buffers, pc, frames, client>>

(* The peer answers the connection. *)
Connected(how) ==
    /\ link = "connecting" /\ fd = "open"
    /\ link' = how
    /\ edge' = TRUE
    /\ UNCHANGED <<load, write_cb_, socket, fd, readSide, writeSide, poll, queue,
                   refs_, writing_, m_write_, buffers, creator, pc, frames, client>>

-----------------------------------------------------------------------------
(* doConnect, on a worker, and connDone *)

(* The old callbacks are deleted, doConnect's own while it runs: neither   *)
(* it nor the worker uses the callback afterwards.                         *)
setUpCalls(write_cb) == write_cb_' = write_cb

(* Mutant: no read is started on the new connection. *)
doConnectReadsNothing(w) ==
    /\ pc[w] = "connect"
    /\ IF link = "up" THEN setUpCalls("write") ELSE UNCHANGED write_cb_
    /\ Goto(w, "notify")
    /\ UNCHANGED <<load, link, socket, fd, edge, readSide, writeSide, poll, queue,
                   refs_, writing_, m_write_, buffers, creator, frames, client>>

(* SO_ERROR tells how it went; setUpCalls if well. *)
doConnect(w) ==
    /\ pc[w] = "connect"
    /\ IF link = "up" THEN setUpCalls("write") ELSE UNCHANGED write_cb_
    /\ Goto(w, IF link = "up" THEN "first_read" ELSE "notify")
    /\ UNCHANGED <<load, link, socket, fd, edge, readSide, writeSide, poll, queue,
                   refs_, writing_, m_write_, buffers, creator, frames, client>>

ConnDoneAcquires(w) ==
    /\ pc[w] = "first_read"
    /\ refs_' = refs_ + 1
    /\ Goto(w, "wait_first")
    /\ UNCHANGED <<given, socket, fd, edge, readSide, writeSide, poll, queue, writing_,
                   m_write_, buffers, creator, frames, client>>

ConnDoneWaits(w) ==
    /\ pc[w] = "wait_first"
    /\ readSide' = WhenReady(readSide)
    /\ Goto(w, IF RunsNow(readSide) THEN "schedule_first" ELSE "notify")
    /\ UNCHANGED <<given, socket, fd, edge, writeSide, poll, queue, refs_, writing_,
                   m_write_, buffers, creator, frames, client>>

ConnDoneSchedules(w) ==
    /\ pc[w] = "schedule_first"
    /\ queue' = Append(queue, "read")
    /\ Goto(w, "notify")
    /\ UNCHANGED <<given, socket, fd, edge, readSide, writeSide, poll, refs_, writing_,
                   m_write_, buffers, creator, frames, client>>

Tell == told' = IF link = "up" THEN "ok" ELSE "failed"

(* connect_cb_ of the blocking connect(): it notifies, and keeps nothing.  *)
connectInternal(w) ==
    /\ load.blocking
    /\ pc[w] = "notify"
    /\ Tell
    /\ Goto(w, "release")
    /\ UNCHANGED <<given, socket, fd, edge, readSide, writeSide, poll, queue, refs_, writing_,
                   m_write_, buffers, creator, frames, sends, received, answered>>

(* connect_cb_ of a program that connects asynchronously. *)
IssueCallback(w) ==
    /\ ~load.blocking
    /\ pc[w] = "notify"
    /\ Tell
    /\ refs_' = refs_ + One(link = "up")
    /\ Goto(w, "release")
    /\ UNCHANGED <<given, socket, fd, edge, readSide, writeSide, poll, queue, writing_,
                   m_write_, buffers, creator, frames, sends, received, answered>>

-----------------------------------------------------------------------------
(* The program *)

(* The end of the wait in connect(), or of that of the program. *)
ConnectReturns ==
    /\ pc[User] = "connecting"
    /\ told # "no"
    /\ Goto(User, IF told = "ok" THEN "send" ELSE "idle")
    /\ UNCHANGED <<given, socket, fd, edge, readSide, writeSide, poll, queue, refs_, writing_,
                   m_write_, buffers, creator, frames, client>>

(* asyncSend up to startWrite. *)
asyncSend ==
    /\ pc[User] = "send"
    /\ m_write_ = NoOne
    /\ sends' = sends + 1
    /\ WriteOut
    /\ Goto(User, "start_write")
    /\ UNCHANGED <<given, socket, fd, edge, readSide, writeSide, poll, queue, refs_, writing_,
                   m_write_, in_, parse, creator, frames, told, received, answered>>

(* send() waits for its response, asyncSend() does not. *)
SendReturns ==
    /\ pc[User] = "sent"
    /\ load.blocking => (answered = sends)
    /\ \/ sends < load.requests /\ Goto(User, "send")
       \/ answered = sends /\ Goto(User, IF load.blocking THEN "idle" ELSE "release")
    /\ UNCHANGED <<given, socket, fd, edge, readSide, writeSide, poll, queue, refs_, writing_,
                   m_write_, buffers, creator, frames, client>>

(* The callback of send(); that of a program does the same. *)
receiveInternal == answered' = answered + 1

(* HTTPClientConnection::readDone and handleResponse. *)
HandleResponse(w) ==
    /\ side = "client"
    /\ pc[w] = "request"
    /\ in_ > 0
    /\ in_' = in_ - 1
    /\ receiveInternal
    /\ UNCHANGED <<given, socket, fd, edge, readSide, writeSide, poll, queue, refs_, writing_,
                   m_write_, out_, tail, parse, creator, pc, frames, told, sends,
                   received>>

-----------------------------------------------------------------------------
(* The peer of a client answers what it has received, which may be before  *)
(* the write returns.                                                      *)
PeerTakes ==
    /\ PeerReceives
    /\ received' = IF side = "client" THEN received + (SendSpace - space) ELSE received
    /\ UNCHANGED <<told, sends, answered>>

Peer ==
    \/ PeerSends(IF side = "server" THEN load.requests ELSE received) /\ UNCHANGED client
    \/ PeerTakes
    \/ PeerCloses /\ UNCHANGED client
    \/ \E how \in {"up", "refused"} : Connected(how)

Creator ==
    \/ ServerCreator /\ UNCHANGED client
    \/ asyncConnect \/ NoSocket \/ ConnectFails \/ ConnectAtOnce
    \/ startConnect \/ ConnectWaits \/ ConnectSchedules

UserStep ==
    \/ ConnectReturns \/ asyncSend \/ SendReturns
    \/ (WriteStep(User) \/ DeleteStep(User)) /\ UNCHANGED client

WorkerStep(w) ==
    \/ (ReadStep(w) \/ ServerStep(w) \/ WriteStep(w) \/ DeleteStep(w)) /\ UNCHANGED client
    \/ doConnect(w) \/ ConnDoneAcquires(w) \/ ConnDoneWaits(w) \/ ConnDoneSchedules(w)
    \/ connectInternal(w) \/ IssueCallback(w) \/ HandleResponse(w)

Next ==
    \/ Peer
    \/ Creator
    \/ UserStep
    \/ PollLoop /\ UNCHANGED client
    \/ \E w \in Worker : WorkerStep(w)

Spec == Init /\ [][Next]_vars

(* The peer of a client serves it. *)
Serves ==
    \/ PeerTakes
    \/ side = "client" /\ PeerSends(received) /\ UNCHANGED client
    \/ \E how \in {"up", "refused"} : Connected(how)

(* Threads are scheduled; the peer receives what it is sent, and answers a *)
(* client.                                                                 *)
FairSpec ==
    /\ Spec
    /\ WF_vars(Serves)
    /\ WF_vars(Creator \/ UserStep)
    /\ WF_vars(PollLoop /\ UNCHANGED client)
    /\ \A w \in Worker : WF_vars(WorkerStep(w))

-----------------------------------------------------------------------------
(* Properties *)

Count(s, x) == Cardinality({i \in 1..Len(s) : s[i] \in x})
At(labels) == Cardinality({w \in Actor : pc[w] \in labels})

(* Workers inside of doRead, those in a nested doWrite included. *)
InRead ==
    Cardinality({w \in Worker : \/ nested[w]
                                \/ pc[w] \in {"read", "wait_read", "schedule_read", "request",
                                              "body", "start_write"}})

(* The read, or the write or connect, that is under way: waiting for an    *)
(* event, in the hands of the poll loop, in the pool, or on a thread.      *)
Readers ==
    One(creator \in {"acquire", "wait", "schedule"}) + At({"wait_first", "schedule_first"})
      + One(readSide.waiting) + One(poller = "push_read") + Count(queue, {"read"}) + InRead
Writers ==
    One(creator \in {"wait_write", "schedule_write"})
      + One(writeSide.waiting) + One(poller = "push_write") + Count(queue, {"write", "connect"})
      + At({"size", "write", "wrote", "wait_write", "schedule_write"})

(* "There's only one outstanding read operation" (connection.hpp:36), and  *)
(* one write: however events, the pool, startWrite() and the completion of *)
(* connect() interleave, no two threads read or write the socket, or run   *)
(* readDone(), at once.                                                    *)
OneReaderOneWriter == Readers <= 1 /\ Writers <= 1

(* refs_ counts what is outstanding, including a call that has passed its  *)
(* work on and not yet released; so the connection is deleted by the last  *)
(* one, and no callback, event or step ever meets a deleted connection or  *)
(* a freed Descriptor, and no upcall that setUpCalls deleted is run.       *)
RefsExact ==
    /\ refs_ = Readers + Writers - One(creator = "acquire")
                 + At({"wait_read", "schedule_read", "wait_write", "schedule_write",
                       "connect", "first_read", "wait_first", "schedule_first", "notify",
                       "release", "release_write"})
                 + One(~load.blocking /\ told = "ok" /\ pc[User] \notin {"release", "close", "delete", "idle"})
    /\ (descr \in {"garbage", "freed"} \/ fd = "closed") => (refs_ = 0)
    /\ (batch # {}) => (descr # "freed")
    /\ (write_cb_ = "write") => (Count(queue, {"connect"}) = 0)

(* "The client will be destroyed if the peer closes the socket()"          *)
(* (http_service.cpp:36), and a connection that was refused as well:       *)
(* connection and Descriptor are freed, whatever was waiting, unless the   *)
(* program is waiting for an answer that will not come.                    *)
ReclaimedWhenClosed ==
    (peer = "closed" \/ link = "refused") ~> (descr = "freed" \/ pc[User] = "sent")

(* doWrite gave up, with writing_ set: no later startWrite will write. *)
Stuck == writing_ /\ Writers = 0

(* "An ongoing write will flush to the underlying socket all the contents  *)
(* of 'out_'" (connection.hpp:150-151): unless doWrite() gives up.  That   *)
(* takes two threads, or a file that filled its chunk and was sent before  *)
(* the next response was written.                                          *)
Flushed ==
    (out_ > 0) ~> \/ out_ = 0 \/ peer = "closed"
                  \/ Stuck /\ (workers > 1 \/ side = "client" \/ tail = "left")

(* The comment as it stands. *)
FlushesAll == (out_ > 0) ~> (out_ = 0 \/ peer = "closed")

(* A program that asks for a connection gets it or an error, and then an   *)
(* answer to all that it sends: no notification is lost, however early the *)
(* event, the response or the completion comes.  Not so if the service was *)
(* stopped, no socket could be made or connect() succeeds at once, if the  *)
(* peer closes, once doWrite() has given up, or once a response has not    *)
(* parsed: readDone() then ends the reading and no callback is run.        *)
ClientAnswered ==
    (side = "client") ~> \/ pc[User] = "idle"
                         \/ creator \in {"service_stopped", "no_socket", "crashed"}
                         \/ peer = "closed" \/ Stuck \/ parse = "failed"

(* "has a pending/ongoing write request" (connection.hpp:103): as long as  *)
(* the peer is there, writing_ is set only if some thread will write.      *)
WritingHasWriter ==
    (writing_ /\ peer = "open") => (Writers > 0)
=============================================================================
