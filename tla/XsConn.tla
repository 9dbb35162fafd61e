------------------------------- MODULE XsConn -------------------------------
(***************************************************************************)
(* One connection of the server, from the first byte received to its close: *)
(* the reader (XsHttpRead) and the writer (XsConnWrite), which share       *)
(* errnum; the loop of server_handler that reads, dispatches and answers;  *)
(* xs_async_handler, which arms the poll events from what is left; and a   *)
(* peer that sends a script of messages in pieces of any size, takes what  *)
(* it likes, and may close or reset the connection at any moment.          *)
(*                                                                         *)
(* All of it runs on the connection's poll thread.  pc is where it is:     *)
(* waiting in poll, about to read, writing what the reader has to write    *)
(* (control), dispatching, writing a response, at the end of the callback, *)
(* or done with the connection.                                            *)
(***************************************************************************)
EXTENDS XsConnWrite, XsHttpRead

CONSTANTS
  Scripts,     \* the sequences of messages a peer may send
  HandlerBuf,  \* the length server_handler reads at a time (1023)
  Piece        \* how much of a file is written at a time (256 << 12)

ASSUME ConnAssumption == HandlerBuf \in Nat \ {0} /\ Piece \in Nat \ {0}
ASSUME ScriptsAssumption == Scripts \subseteq Seq(Messages)

VARIABLES
  script,      \* the messages of this connection
  arrived,     \* how many tokens of them have reached the socket
  taken,       \* how many of these have been received
  fin, gone,   \* the peer has closed its side; the connection is reset
  pc,
  conn,        \* the read side: a record of XsHttpRead
  writer,      \* the write side: a record of XsConnWrite (its err is conn.errnum)
  pollout,     \* whether the events of the socket include POLLOUT
  last,        \* the return of xs_conn_httpread, and whether a request is handled
  close,       \* the callback's result is exs_Conn_Close
  todo,        \* what is still to be written: [data, file] in order
  body,        \* history: the body of the current request so far
  delivered,   \* history: the requests and frames seen complete, [m, body]
  accepted     \* history: what write calls have accepted, in order

peer == <<script, arrived, fin, gone>>
vars == <<script, arrived, taken, fin, gone, pc, conn, writer, pollout, last, close, todo,
          body, delivered, accepted>>

-----------------------------------------------------------------------------
(***************************************************************************)
(* What the peer sends, and what the server answers.                       *)
(***************************************************************************)
Token(i, p, k) == [m |-> i, p |-> p, k |-> k]
Body(i, from, n) == [k \in 1 .. n |-> Token(i, "body", from + k)]

\* Each chunk is its size, its data and a line end; then come the last chunk,
\* of size 0, and the empty trailer.  UpTo(chunks)[j] is the size of the first
\* j chunks together.
UpTo(chunks) ==
  LET upTo[j \in 0 .. Len(chunks)] == IF j = 0 THEN 0 ELSE upTo[j - 1] + chunks[j] IN upTo
Total(chunks) == UpTo(chunks)[Len(chunks)]
Chunk(i, from, n) ==
  <<Token(i, "size", n), Token(i, "crlf", 0)>> \o Body(i, from, n) \o <<Token(i, "crlf", 0)>>
Chunked(i, chunks) ==
  FlattenSeq([j \in DOMAIN chunks |-> Chunk(i, UpTo(chunks)[j - 1], chunks[j])])
  \o Chunk(i, 0, 0)

Encode(i, msg) ==
  IF msg.kind = "frame" THEN <<Token(i, "fhdr", 0), Token(i, "flen", 0)>> \o Body(i, 0, msg.len)
  ELSE <<Token(i, "line", 0), Token(i, "end", 0)>> \o
       (IF msg.kind = "chunked" THEN Chunked(i, msg.chunks)
        ELSE IF msg.kind = "post" THEN Body(i, 0, msg.len) ELSE <<>>)

Streams == [s \in Scripts |-> FlattenSeq([i \in DOMAIN s |-> Encode(i, s[i])])]
Stream == Streams[script]

Net == [data |-> SubSeq(Stream, taken + 1, arrived), fin |-> fin, gone |-> gone]

\* The writes of a response: the head, then a file from its mapping ("get") or
\* a short body ("missing", as for 404).  Other methods are only logged.
Response(i) ==
  LET head == [data |-> <<Token(i, "head", 0)>>, file |-> FALSE]
  IN  CASE script[i].kind = "get" ->
             <<head, [data |-> [k \in 1 .. script[i].len |-> Token(i, "file", k)], file |-> TRUE]>>
        [] script[i].kind = "missing" ->
             <<head, [data |-> <<Token(i, "text", 0)>>, file |-> FALSE]>>
        [] OTHER -> <<>>

\* xs_conn_write_websocket: the frame's header, then its data.
Frame(i, name, data) ==
  <<[data |-> <<Token(i, name, Len(data))>>, file |-> FALSE], [data |-> data, file |-> FALSE]>>

\* The write side between two calls: errnum is kept in conn.
Settled(w) == [w EXCEPT !.err = "ok", !.ret = 0]

-----------------------------------------------------------------------------
Init ==
  /\ script \in Scripts
  /\ arrived = 0 /\ taken = 0 /\ fin = FALSE /\ gone = FALSE
  /\ pc = "poll"
  /\ conn = NewReader /\ writer = NewWriter
  /\ pollout = FALSE /\ close = FALSE
  /\ last = [n |-> 0, reread |-> FALSE, handled |-> FALSE]
  /\ todo = <<>> /\ body = <<>> /\ delivered = <<>> /\ accepted = <<>>

-----------------------------------------------------------------------------
(***************************************************************************)
(* The peer.                                                               *)
(***************************************************************************)
Arrive(k) ==
  /\ ~fin /\ ~gone
  /\ arrived + k <= Len(Stream)
  /\ arrived' = arrived + k
  /\ UNCHANGED <<script, taken, fin, gone, pc, conn, writer, pollout, last, close, todo, body,
                 delivered, accepted>>

PeerCloses ==
  /\ ~fin /\ fin' = TRUE
  /\ UNCHANGED <<script, arrived, taken, gone, pc, conn, writer, pollout, last, close, todo,
                 body, delivered, accepted>>

PeerResets ==
  /\ ~gone /\ gone' = TRUE
  /\ UNCHANGED <<script, arrived, taken, fin, pc, conn, writer, pollout, last, close, todo,
                 body, delivered, accepted>>

-----------------------------------------------------------------------------
(***************************************************************************)
(* The callback's loop, server_handler.                                    *)
(***************************************************************************)

\* poll reports POLLIN and xs_async_handler calls the server's handler.
PollRead ==
  /\ pc = "poll" /\ ~gone
  /\ arrived > taken \/ fin
  /\ pc' = "read"
  /\ UNCHANGED <<peer, taken, conn, writer, pollout, last, close, todo, body, delivered, accepted>>

\* xs_conn_read writes out the cache first, unless it waits for POLLOUT.
PurgedFirst(asked) ==
  IF asked /\ ~writer.blocked THEN {Settled(w) : w \in PurgeOutcomes(writer, gone)} ELSE {writer}

\* One call of xs_conn_httpread.  Its own writes follow in the next step.
ReadCall ==
  /\ pc = "read"
  /\ \E r \in {HttpRead(conn, HandlerBuf, Net, script)} :
         /\ conn' = r.c
         /\ taken' = taken + r.taken
         /\ last' = [n |-> r.n, reread |-> r.reread, handled |-> FALSE]
         /\ body' = (IF r.c.req.consumed = 0 THEN <<>> ELSE body) \o r.out
         /\ writer' \in PurgedFirst(r.asked)
         /\ todo' = CASE r.control = "none" -> <<>>
                      [] r.control = "101" ->
                           <<[data |-> <<Token(r.c.req.m, "101", 0)>>, file |-> FALSE]>>
                      [] OTHER -> Frame(r.c.req.m, r.control, <<>>)
  /\ pc' = IF todo' = <<>> THEN "dispatch" ELSE "control"
  /\ UNCHANGED <<peer, pollout, close, delivered, accepted>>

\* One write of those in todo.
WriteNext ==
  /\ todo # <<>> /\ ~Head(todo).file
  /\ \E w \in WriteOutcomes(writer, Head(todo).data, gone) :
       /\ writer' = Settled(w)
       /\ conn' = [conn EXCEPT !.errnum = w.err]
       /\ accepted' = accepted \o Before(Head(todo).data, w.ret)
  /\ todo' = Tail(todo)

Control ==
  /\ pc = "control" /\ WriteNext
  /\ pc' = IF todo' = <<>> THEN "dispatch" ELSE "control"
  /\ UNCHANGED <<peer, taken, pollout, last, close, body, delivered>>

\* The callback looks at errnum and the state: an error ends the connection,
\* a complete request is handled, the data of a frame is echoed.
Completed == last.n >= 0 /\ ConnState(conn) = "complete"
LastRead == SubSeq(body, Len(body) - last.n + 1, Len(body))

Dispatch ==
  /\ pc = "dispatch" /\ pc' = "respond"
  /\ close' = (conn.errnum # "ok")
  /\ last' = [last EXCEPT !.handled = Completed /\ conn.upgrade = 0]
  /\ todo' = IF last'.handled THEN Response(conn.req.m)
             ELSE IF conn.upgrade = 2 /\ ~close' /\ last.n > 0 THEN Frame(conn.req.m, "text", LastRead)
             ELSE <<>>
  /\ delivered' = IF Completed THEN Append(delivered, [m |-> conn.req.m, body |-> body])
                  ELSE delivered
  /\ UNCHANGED <<peer, taken, conn, writer, pollout, body, accepted>>

Respond ==
  /\ pc = "respond" /\ WriteNext
  /\ UNCHANGED <<peer, taken, pc, pollout, last, close, body, delivered>>

\* One turn of the loop of xs_conn_write_filedata.  When the socket is busy it
\* is made blocking and the cache is purged, then the loop goes on.  On an
\* error the rest is given up and the request loses its keep-alive.
WriteFile ==
  /\ pc = "respond" /\ todo # <<>> /\ Head(todo).file
  /\ \E w \in WriteOutcomes(writer, Before(Head(todo).data, Piece), gone) :
       LET rest == After(Head(todo).data, w.ret)
           failed == w.err \notin {"ok", "busy"} \/ (w.err = "ok" /\ w.ret = 0)
       IN  /\ \E p \in (IF w.err = "busy" THEN PurgeOutcomes(w, gone) ELSE {w}) :
                /\ writer' = Settled(p)
                /\ conn' = [conn EXCEPT !.errnum = p.err, !.req.keepalive = @ /\ ~failed]
           /\ accepted' = accepted \o Before(Head(todo).data, w.ret)
           /\ todo' = IF failed \/ rest = <<>> THEN Tail(todo)
                      ELSE <<[Head(todo) EXCEPT !.data = rest]>> \o Tail(todo)
  /\ UNCHANGED <<peer, taken, pc, pollout, last, close, body, delivered>>

\* The end of a turn of the handler's loop: keep-alive, then reread.
EndTurn ==
  /\ pc = "respond" /\ todo = <<>>
  /\ close' = (close \/ (last.handled /\ ~conn.req.keepalive))
  /\ pc' = IF last.reread /\ ~close' THEN "read" ELSE "end"
  /\ UNCHANGED <<peer, taken, conn, writer, pollout, last, todo, body, delivered, accepted>>

\* The end of xs_async_handler.  Cached data arms POLLOUT.  Closing the
\* connection tries once to send what is cached; the rest is freed with it.
End ==
  /\ pc = "end" /\ pc' = IF close THEN "closed" ELSE "poll"
  /\ IF close
       THEN writer' \in {Settled(w) : w \in PurgeOutcomes(writer, gone)} /\ UNCHANGED pollout
       ELSE /\ writer' = [writer EXCEPT !.blocked = @ \/ writer.cache # <<>>]
            /\ pollout' = (pollout \/ writer.cache # <<>>)
  /\ UNCHANGED <<peer, taken, conn, last, close, todo, body, delivered, accepted>>

PollWriteDisarms ==
  /\ pc = "poll" /\ pollout /\ ~gone
  /\ \E w \in PurgeOutcomes(writer, gone) :
       /\ writer' = [Settled(w) EXCEPT !.blocked = @ \/ w.cache # <<>>]
       /\ conn' = [conn EXCEPT !.errnum = w.err]
       /\ pollout' = FALSE
  /\ UNCHANGED <<peer, taken, pc, last, close, todo, body, delivered, accepted>>

\* poll reports POLLOUT: the cache is sent; while some of it is left POLLOUT
\* stays armed.
PollWrite ==
  /\ pc = "poll" /\ pollout /\ ~gone
  /\ \E w \in PurgeOutcomes(writer, gone) :
       /\ writer' = [Settled(w) EXCEPT !.blocked = @ \/ w.cache # <<>>]
       /\ conn' = [conn EXCEPT !.errnum = IF writer.cache = <<>> THEN @ ELSE w.err]
       /\ pollout' = (w.cache # <<>>)
  /\ UNCHANGED <<peer, taken, pc, last, close, todo, body, delivered, accepted>>

\* poll reports POLLERR or POLLHUP: the callback is told and the connection closed.
PollError ==
  /\ pc = "poll" /\ gone
  /\ close' = TRUE
  /\ pc' = "end"
  /\ UNCHANGED <<peer, taken, conn, writer, pollout, last, todo, body, delivered, accepted>>

Thread ==
  \/ PollRead \/ PollWrite \/ PollError \/ Control \/ Dispatch \/ Respond \/ WriteFile
  \/ EndTurn \/ End

Next ==
  \/ Thread \/ ReadCall \/ PeerCloses \/ PeerResets
  \/ \E k \in 1 .. Len(Stream) : Arrive(k)

\* The thread goes on, poll reports what is ready each time round, and a peer
\* that stays takes something of what is sent sooner or later.  ReadCall is
\* the only step from "read" and can always be taken there; its fairness is
\* said of pc, where whether it can be taken is seen without parsing.
Fairness ==
  /\ WF_vars(Thread)
  /\ WF_pc(pc = "read" /\ pc' \in {"control", "dispatch"})
  /\ SF_vars(PollRead)
  /\ SF_vars(PollWrite /\ writer'.cache = <<>>)
  /\ SF_vars(WriteFile /\ accepted' # accepted)

Spec == Init /\ [][Next]_vars /\ Fairness

-----------------------------------------------------------------------------
(***************************************************************************)
(* Properties.                                                             *)
(***************************************************************************)

\* Every variable has its type: buffer and cache keep to their sizes, and the
\* request being handled is one the peer has sent.
Answers == {"head", "file", "text", "101", "pong", "ping"}
Tokens == [m : Nat, p : Parts \union Answers, k : Nat]
TypeOK ==
  /\ script \in Scripts
  /\ taken \in 0 .. arrived /\ arrived \in 0 .. Len(Stream)
  /\ {fin, gone, pollout, close} \subseteq BOOLEAN
  /\ pc \in {"poll", "read", "control", "dispatch", "respond", "end", "closed"}
  /\ conn \in Readers(script) /\ writer \in Writers(Tokens)
  /\ last \in [n : Int, reread : BOOLEAN, handled : BOOLEAN]
  /\ todo \in Seq([data : Seq(Tokens), file : BOOLEAN])
  /\ body \in Seq(Arriving(script)) /\ accepted \in Seq(Tokens)

\* The body of message i as the peer means it, without framing.
BodyOf(i) ==
  Body(i, 0, IF script[i].kind = "chunked" THEN Total(script[i].chunks)
             ELSE IF script[i].kind \in {"post", "frame"} THEN script[i].len ELSE 0)

\* However the stream is cut into segments, the handler sees the messages in
\* the order sent, none twice and none left out, each with exactly its body
\* (xs_conn_httpread, its buffer and its reread answer).
RequestsIntact ==
  \A j \in DOMAIN delivered : delivered[j] = [m |-> j, body |-> BodyOf(j)]

\* While the thread waits in poll, cached data is waiting for POLLOUT: no data
\* is forgotten until the peer says something (xs_async_handler).
CachedIsArmed == pc = "poll" /\ writer.cache # <<>> => pollout /\ writer.blocked

\* A peer that is there and has asked for nothing unusual is not cut off, with
\* these exceptions in the code: the line end after a last chunk that comes in
\* a later segment than the chunk spoils the next request, continuation frames
\* are refused, the writes xs_conn_httpread makes by itself close the
\* connection when they are cached, and what has been pipelined behind a head
\* counts against the limit of the head.
AfterChunked == delivered # <<>> /\ script[Len(delivered)].kind = "chunked"
SplitTrailer == conn.errnum = "invalid" /\ AfterChunked
BadFrame ==
  LET msg == script[Len(delivered) + 1]
  IN  conn.errnum = "invalid" /\ msg.kind = "frame" /\ msg.op \notin Opcodes
ControlCached ==
  /\ conn.errnum \in {"busy", "full"}
  /\ conn.req.upgrade = 1 \/ conn.req.opcode \in {9, 10}
Crowded == conn.errnum = "toolarge" /\ HeadLength(conn) \in 1 .. MaxHeader
AskedToClose == last.handled /\ ~conn.req.keepalive
NotCutOff ==
  pc = "closed" =>
    fin \/ gone \/ AskedToClose \/ BadFrame \/ SplitTrailer \/ ControlCached \/ Crowded

\* Frames come after an upgrade and only then, as a browser sends them.
Orderly(msgs) ==
  \A k \in DOMAIN msgs :
    msgs[k].kind = "frame" <=> \E j \in 1 .. k - 1 : msgs[j].kind = "upgrade"

\* The write side implements a byte stream until the cache overflows
\* (xs_conn_write_, xs_conn_cachefill, xs_conn_cachepurge).
ByteStream == INSTANCE XsByteStream WITH
  wire <- writer.wire, waiting <- writer.cache, intact <- writer.intact
StreamInOrder == ByteStream!Spec

(***************************************************************************)
(* The inductive invariant behind TypeOK, CachedIsArmed and StreamInOrder. *)
(***************************************************************************)

\* What the last call of xs_conn_httpread says it has read is in body.
LastReadOK ==
  /\ pc = "control" => last.n <= Len(body)
  /\ pc = "dispatch" /\ conn.errnum = "ok" => last.n <= Len(body)

\* What was accepted is on the wire or in the cache, in this order.
StreamOK == writer.intact => accepted = writer.wire \o writer.cache

ConnInv == TypeOK /\ LastReadOK /\ StreamOK /\ CachedIsArmed

\* Message i has been handled and everything written for it is on the wire.
InStream(i) == Len(FlattenSeq([j \in 1 .. i |-> Encode(j, script[j])]))
Answer(i) ==
  IF script[i].kind = "frame" THEN ToSet(Body(i, 0, script[i].len))
  ELSE UNION {ToSet(w.data) : w \in ToSet(Response(i))}
Answered(i) ==
  /\ \E j \in DOMAIN delivered : delivered[j].m = i
  /\ Answer(i) \subseteq ToSet(writer.wire)

\* Every message that has arrived is answered or the connection is closed: no
\* request stays in the buffer and no answer in the cache, whatever the
\* segments and however slow the peer.
EveryMessageAnswered ==
  \A i \in 1 .. 4 :
    (i <= Len(script) /\ arrived >= InStream(i))
      ~> (Answered(i) \/ pc = "closed" \/ ~writer.intact)
=============================================================================
