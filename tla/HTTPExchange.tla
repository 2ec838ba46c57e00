---------------------------- MODULE HTTPExchange ----------------------------
(***************************************************************************)
(* An HTTPClientConnection and an HTTPServerConnection (http_connection.cpp)*)
(* over one socket: requests and responses byte by byte, through the four  *)
(* Buffers, doRead and doWrite (connection.cpp) and the parser.            *)
(*                                                                         *)
(* Who runs a callback, and what else may run meanwhile, is in Connection; *)
(* here a read, a round of readDone and a round of doWrite are one step,   *)
(* and the cuts of the byte stream come from the socket, which holds       *)
(* SocketSize bytes in each direction.                                     *)
(***************************************************************************)
EXTENDS HTTPParser

CONSTANTS
    File,         \* a function from the addresses that are files to their bytes
    BadRequest,   \* the page sent for any other address
    Address,      \* addresses the client asks for
    MaxRequests,  \* bound on the requests sent
    ReadSize,     \* what doRead reserves, 1024 in the code
    SocketSize

ASSUME ExchangeAssumption ==
    /\ MaxRequests \in Nat /\ ReadSize \in 1..BlockSize /\ SocketSize \in Nat \ {0}
    \* "This is going to break with files bigger than Buffer::Blocksize bytes"
    /\ \A a \in DOMAIN File : Len(File[a]) <= BlockSize

Client == "client"
Server == "server"
Side == {Client, Server}
Peer(s) == IF s = Client THEN Server ELSE Client

VARIABLES
    in_, out_,      \* the buffers of a connection
    socket,         \* bytes on the way to a connection
    writing_,       \* of a connection; "stuck" once doWrite gave up with it set
    reader,         \* what doRead does: "read", "parse" or "failed"
    response_cbs_,  \* callbacks of the client, by the number of the request
    sent, handled,  \* addresses asked for, and parsed by the server (history)
    answers,        \* callbacks run, with the body they were given (history)
    consumed        \* bytes parsed by a connection (history)

vars == <<in_, out_, socket, writing_, reader, response_cbs_, sent, handled, answers,
          consumed>>

Init ==
    /\ in_ = [s \in Side |-> NewBuffer]
    /\ out_ = [s \in Side |-> NewBuffer]
    /\ socket = [s \in Side |-> <<>>]
    /\ writing_ = [s \in Side |-> "no"]
    /\ reader = [s \in Side |-> "read"]
    /\ response_cbs_ = <<>>
    /\ sent = <<>> /\ handled = <<>> /\ answers = <<>>
    /\ consumed = [s \in Side |-> 0]

-----------------------------------------------------------------------------
(* Messages on the wire *)

LengthWord(n) == CHOOSE word \in DOMAIN Length : Length[word] = n

(* toBuffer: what its writes add up to. *)
RequestBytes(a) == <<"GET", SP, Slash>> \o a \o <<SP, "HTTP/1.1", CR, LF, CR, LF>>

ResponseHeader(body) ==
    <<"HTTP/1.1 200 OK", CR, LF, LengthWord(Len(body)), CR, LF, CR, LF>>

(* The root document is index.html. *)
FileOf(a) == IF a = <<>> THEN <<"index.html">> ELSE a
Body(a) == IF FileOf(a) \in DOMAIN File THEN File[FileOf(a)] ELSE BadRequest
ResponseBytes(a) == ResponseHeader(Body(a)) \o Body(a)

-----------------------------------------------------------------------------
(* connection.cpp *)

(* A callback that doWrite left waiting, or that is running, goes on. *)
startWrite(s) ==
    writing_' = [writing_ EXCEPT ![s] = IF @ = "no" THEN "yes" ELSE @]

(* Mutant: the whole chunk is consumed, also after a short write. *)
doWriteConsumesAll(s) ==
    LET size == readSize(out_[s])
        room == SocketSize - Len(socket[Peer(s)])
        n == IF size < room THEN size ELSE room
        rest == consume(out_[s], size)
    IN  /\ writing_[s] = "yes"
        /\ room > 0
        /\ socket' = [socket EXCEPT ![Peer(s)] = @ \o SubSeq(ReadArea(out_[s]), 1, n)]
        /\ out_' = [out_ EXCEPT ![s] = rest]
        /\ writing_' = [writing_ EXCEPT ![s] = CASE n = 0 -> "stuck"
                                                 [] n > 0 /\ n = size /\ readSize(rest) = 0 -> "no"
                                                 [] OTHER -> "yes"]
        /\ UNCHANGED <<in_, reader, response_cbs_, sent, handled, answers, consumed>>

(* One round of doWrite: as much as fits of the contiguous part of out_.   *)
(* A write of nothing returns zero, which is taken for a closed socket.    *)
doWrite(s) ==
    LET size == readSize(out_[s])
        room == SocketSize - Len(socket[Peer(s)])
        n == IF size < room THEN size ELSE room
        rest == consume(out_[s], n)
    IN  /\ writing_[s] = "yes"
        /\ room > 0
        /\ socket' = [socket EXCEPT ![Peer(s)] = @ \o SubSeq(ReadArea(out_[s]), 1, n)]
        /\ out_' = [out_ EXCEPT ![s] = rest]
        /\ writing_' = [writing_ EXCEPT ![s] = CASE n = 0 -> "stuck"
                                                 [] n > 0 /\ n = size /\ readSize(rest) = 0 -> "no"
                                                 [] OTHER -> "yes"]
        /\ UNCHANGED <<in_, reader, response_cbs_, sent, handled, answers, consumed>>

(* A read returns any part of what was written: the rest has not arrived. *)
doRead(s, n) ==
    LET reserved == reserve(in_[s], ReadSize)
    IN  /\ reader[s] = "read"
        /\ n <= Len(socket[s]) /\ n <= writeSize(reserved)
        /\ in_' = [in_ EXCEPT ![s] = advance(reserved, SubSeq(socket[s], 1, n))]
        /\ socket' = [socket EXCEPT ![s] = SubSeq(@, n + 1, Len(@))]
        /\ reader' = [reader EXCEPT ![s] = "parse"]
        /\ UNCHANGED <<out_, writing_, response_cbs_, sent, handled, answers, consumed>>

Consume(s, it) ==
    /\ in_' = [in_ EXCEPT ![s] = consume(@, it.bytes_read_)]
    /\ consumed' = [consumed EXCEPT ![s] = @ + it.bytes_read_]

(* readDone returns, to read on or to end the connection. *)
ReadDoneReturns(s, rc) ==
    /\ rc # 0
    /\ reader' = [reader EXCEPT ![s] = IF rc > 0 THEN "read" ELSE "failed"]
    /\ UNCHANGED <<in_, out_, socket, writing_, response_cbs_, sent, handled, answers, consumed>>

-----------------------------------------------------------------------------
(* The server *)

(* handleRequest: header and file, or a page that is not a file.  The file *)
(* is read at writePtr(), past what was reserved for it.                   *)
Respond(out, a) ==
    IF FileOf(a) \in DOMAIN File
      THEN advance(reserve(write(out, ResponseHeader(Body(a))), Len(Body(a))), Body(a))
      ELSE write(out, ResponseBytes(a))

serverReadDone(stale) ==
    LET r == parseRequest(in_[Server], stale)
    IN  /\ reader[Server] = "parse"
        /\ \/ ReadDoneReturns(Server, r.rc)
           \/ /\ r.rc = 0
              /\ Consume(Server, r.it)
              /\ handled' = Append(handled, r.address)
              /\ out_' = [out_ EXCEPT ![Server] = Respond(@, r.address)]
              /\ startWrite(Server)
              /\ UNCHANGED <<socket, reader, response_cbs_, sent, answers>>

-----------------------------------------------------------------------------
(* The client *)

asyncSend(a) ==
    /\ Len(sent) < MaxRequests
    /\ response_cbs_' = Append(response_cbs_, Len(sent) + 1)
    /\ sent' = Append(sent, a)
    /\ out_' = [out_ EXCEPT ![Client] = write(@, RequestBytes(a))]
    /\ startWrite(Client)
    /\ UNCHANGED <<in_, socket, reader, handled, answers, consumed>>

(* it.eob() after the buffer dropped the chunks that it was read from. *)
AtEnd(it) == getBudget(in_[Client], it) = 0 /\ it.pos_ = in_'[Client].wpos_

(* Mutant: one response per read. *)
clientReadDoneOnce(stale) ==
    LET r == parseResponse(in_[Client], stale)
    IN  /\ reader[Client] = "parse"
        /\ \/ ReadDoneReturns(Client, r.rc)
           \/ /\ r.rc = 0
              /\ Consume(Client, r.it)
              /\ IF response_cbs_ # <<>>
                   THEN /\ answers' = Append(answers, [cb |-> Head(response_cbs_), body |-> r.body])
                        /\ response_cbs_' = Tail(response_cbs_)
                   ELSE UNCHANGED <<answers, response_cbs_>>
              /\ reader' = [reader EXCEPT ![Client] = "read"]
              /\ UNCHANGED <<out_, socket, writing_, sent, handled>>

clientReadDone(stale) ==
    LET r == parseResponse(in_[Client], stale)
    IN  /\ reader[Client] = "parse"
        /\ \/ ReadDoneReturns(Client, r.rc)
           \/ /\ r.rc = 0
              /\ Consume(Client, r.it)
              /\ IF response_cbs_ # <<>>
                   THEN /\ answers' = Append(answers, [cb |-> Head(response_cbs_), body |-> r.body])
                        /\ response_cbs_' = Tail(response_cbs_)
                   ELSE UNCHANGED <<answers, response_cbs_>>
              /\ reader' = [reader EXCEPT ![Client] = IF AtEnd(r.it) THEN "read" ELSE "parse"]
              /\ UNCHANGED <<out_, socket, writing_, sent, handled>>

-----------------------------------------------------------------------------
Run(s) ==
    \/ doWrite(s)
    \/ \E n \in 1..BlockSize : doRead(s, n)

(* The byte past the end is a newline, or it is not. *)
Stale == {LF, "?"}

ReadDone(stale) ==
    \/ serverReadDone(stale)
    \/ clientReadDone(stale)

Next ==
    \/ \E a \in Address : asyncSend(a)
    \/ \E s \in Side : Run(s)
    \/ \E stale \in Stale : ReadDone(stale)

Spec == Init /\ [][Next]_vars

-----------------------------------------------------------------------------
(* However the stream is cut, the server sees the addresses that were      *)
(* asked for in their order, and a callback is given the page of its own   *)
(* request: callbacks are matched with responses by their order alone.     *)
ResponsesMatch ==
    /\ IsPrefix(handled, sent)
    /\ \A i \in DOMAIN answers : answers[i] = [cb |-> i, body |-> Body(sent[i])]

Written(s) ==
    IF s = Client THEN FlattenSeq([i \in DOMAIN sent |-> RequestBytes(sent[i])])
                  ELSE FlattenSeq([i \in DOMAIN handled |-> ResponseBytes(handled[i])])

(* No byte is lost, repeated or moved between the write of one side and    *)
(* the parser of the other: what the buffers and the socket hold is the    *)
(* rest of the stream.  byteCount(), from which parseResponse decides      *)
(* whether a body is complete, is the number of bytes in the buffer, and   *)
(* what was received can be read at rpos_.                                 *)
StreamIntact ==
    \A s \in Side :
        /\ Contents(in_[Peer(s)]) \o socket[Peer(s)] \o Contents(out_[s])
             = SubSeq(Written(s), consumed[Peer(s)] + 1, Len(Written(s)))
        /\ byteCount(in_[s]) = Len(Contents(in_[s]))
        /\ readSize(in_[s]) = 0 => Contents(in_[s]) = <<>>

(* When nothing is on its way any more, every request has been answered:   *)
(* no byte is left in a buffer that nobody will look at again, and no      *)
(* complete message waits for input to come.  A reader that took a line    *)
(* cut between its two end characters for an error, and a writer that is   *)
(* stuck, are the exceptions: they are not quiet.                          *)
Quiet == \A s \in Side : socket[s] = <<>> /\ reader[s] = "read" /\ writing_[s] = "no"

QuietMeansAnswered == Quiet => Len(answers) = Len(sent)

(* buffer.hpp: write() "is equivalent to calling reserve() for the size of *)
(* data to be written, writing to the resulting WritePtr() area, and       *)
(* calling advance() for that size": so what it wrote can be read.         *)
OutputReadable == \A s \in Side : writing_[s] # "stuck"
=============================================================================
