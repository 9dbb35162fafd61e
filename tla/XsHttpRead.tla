----------------------------- MODULE XsHttpRead -----------------------------
(***************************************************************************)
(* The read side of an xs_conn in the server: xs_conn_httpread and what it *)
(* calls, as operators on the state of the read side.  One call of         *)
(* xs_conn_httpread finds what it finds in the socket: nothing arrives     *)
(* between the two calls of recv it makes at most.                         *)
(*                                                                         *)
(* What arrives is a sequence of tokens [m |-> message, p |-> part,        *)
(* k |-> number].  The parts are the request line with its headers         *)
(* ("line"), the blank line ("end"), a unit of body ("body", numbered), a  *)
(* chunk size ("size", k is the size), a line end ("crlf"), and the two    *)
(* halves of a frame's header ("fhdr", "flen").  A message is a record     *)
(* [kind, len, keep, op, chunks]; the token carries its number in msgs.    *)
(* Masking, names and values of headers are data and left out; so is the   *)
(* reuse of request structures (freereq).                                  *)
(*                                                                         *)
(* The state is a record                                                   *)
(*   buf       the first datalen bytes of buf                              *)
(*   consumed, bufsize, upgrade, errnum   as in the code                   *)
(*   req       conn->req, or NoReq                                         *)
(***************************************************************************)
EXTENDS Integers, Sequences, SequencesExt

CONSTANTS
  InitBuf,    \* the first size of buf (1024)
  MaxHeader   \* maxheaderlen

ASSUME BufAssumption == InitBuf \in Nat \ {0} /\ MaxHeader \in Nat

NoReq == [m |-> 0, reqlen |-> 0, contentlen |-> 0, consumed |-> 0, chunked |-> FALSE,
          header |-> FALSE, upgrade |-> 0, opcode |-> 0, keepalive |-> FALSE]

NewReader == [buf |-> <<>>, consumed |-> 0, bufsize |-> 0, upgrade |-> 0, errnum |-> "ok",
              req |-> NoReq]

\* The types: messages, what arrives of them, requests, and the state.  A
\* request that has a length is one of the messages.
Kinds == {"get", "missing", "post", "chunked", "upgrade", "frame"}
Messages == [kind : Kinds, len : Nat, keep : BOOLEAN, op : Nat, chunks : Seq(Nat \ {0})]
Parts == {"line", "end", "body", "size", "crlf", "fhdr", "flen"}
Arriving(msgs) == [m : DOMAIN msgs, p : Parts, k : Nat]
Errors == {"ok", "busy", "full", "io", "close", "invalid", "toolarge"}

Requests(msgs) ==
  {r \in [m : Nat, reqlen : Nat, contentlen : Nat, consumed : Nat, chunked : BOOLEAN,
          header : BOOLEAN, upgrade : 0 .. 2, opcode : Nat, keepalive : BOOLEAN] :
   r.reqlen # 0 => r.m \in DOMAIN msgs}
Readers(msgs) ==
  {c \in [buf : Seq(Arriving(msgs)), consumed : Nat, bufsize : Nat, upgrade : {0, 2},
          errnum : Errors, req : Requests(msgs)] : Len(c.buf) <= c.bufsize}

BufferedForgotten(c) == FALSE

\* datalen > consumed: buffered bytes are left.
Buffered(c) == Len(c.buf) > c.consumed

-----------------------------------------------------------------------------
(***************************************************************************)
(* xs_http_state and xs_conn_state, without the mask that only says that   *)
(* the connection is a websocket.                                          *)
(***************************************************************************)
HttpState(r) ==
  IF r.reqlen = 0 THEN "pending"
  ELSE IF r.contentlen > 0 /\ ~r.chunked /\ r.consumed >= r.contentlen THEN "complete"
  ELSE IF r.contentlen > 0 \/ r.chunked THEN IF r.consumed > 0 THEN "response" ELSE "header"
  ELSE IF r.header THEN "header" ELSE "complete"

ConnState(c) == IF c.errnum # "ok" THEN "error" ELSE HttpState(c.req)

\* _xschr_retvalue_: -1 says that the state has not changed.
RetValue(s, c) == IF s = ConnState(c) THEN -1 ELSE 0

-----------------------------------------------------------------------------
(***************************************************************************)
(* The buffer and recv.                                                    *)
(***************************************************************************)
ShiftKeepsData(c) == [c EXCEPT !.consumed = 0]
Shift(c) == [c EXCEPT !.buf = SubSeq(@, c.consumed + 1, Len(@)), !.consumed = 0]

BufResize(c) ==
  IF c.bufsize = 0 THEN [c EXCEPT !.bufsize = InitBuf]
  ELSE IF c.consumed >= Len(c.buf) THEN [c EXCEPT !.buf = <<>>, !.consumed = 0]
  ELSE IF c.consumed > (c.bufsize \div 4) * 3 THEN Shift(c)
  ELSE IF Len(c.buf) = c.bufsize THEN [c EXCEPT !.bufsize = 2 * @]
  ELSE c

Smaller(a, b) == IF a < b THEN a ELSE b

RecvMustNotBlock(net, len) ==
  IF net.gone \/ (net.data = <<>> /\ ~net.fin) THEN [n |-> -1, err |-> "io"]
  ELSE IF net.data # <<>> THEN [n |-> Smaller(len, Len(net.data)), err |-> "ok"]
  ELSE [n |-> 0, err |-> "close"]

\* recv of at most len tokens.  net is what the socket holds: [data, fin, gone].
Recv(net, len) ==
  IF net.gone THEN [n |-> -1, err |-> "io"]
  ELSE IF net.data # <<>> THEN [n |-> Smaller(len, Len(net.data)), err |-> "ok"]
  ELSE IF net.fin THEN [n |-> 0, err |-> "close"] ELSE [n |-> -1, err |-> "ok"]

Got(net, r) == SubSeq(net.data, 1, r.n)   \* the data received
Left(net, k) == [net EXCEPT !.data = SubSeq(@, k + 1, Len(@))]

\* xs_conn_read at the end of buf, unless what buf holds is enough (ready).
\* asked says that recv was called, n is its result, taken what came out of it.
Received(c, r, net) ==
  [c |-> [c EXCEPT !.errnum = r.err, !.buf = @ \o Got(net, r)], n |-> r.n, asked |-> TRUE,
   taken |-> Len(Got(net, r))]

Fill(c, ready, net) ==
  IF ready THEN [c |-> c, n |-> -1, asked |-> FALSE, taken |-> 0]
  ELSE Received(c, Recv(net, c.bufsize - Len(c.buf)), net)

-----------------------------------------------------------------------------
(***************************************************************************)
(* Finding and parsing the head of a request or of a frame.                *)
(***************************************************************************)

\* xs_http_validrequest: the length up to the first blank line, 0 if there is none.
ValidRequest(buf) == SelectInSeq(buf, LAMBDA t : t.p = "end")

\* xs_websocket_framevalid.
FrameValid(buf) == IF Len(buf) >= 2 THEN 2 ELSE 0

HeadLength(c) == IF c.upgrade = 0 THEN ValidRequest(c.buf) ELSE FrameValid(c.buf)

\* xs_conn_headerready: [c, n, asked, taken].
FillHead(c, net) == Fill(c, HeadLength(c) > 0, net)
HeadFound(f) ==
  LET rlen == HeadLength(f.c)
  IN  [c |-> IF rlen > MaxHeader \/ Len(f.c.buf) > MaxHeader THEN [f.c EXCEPT !.errnum = "toolarge"]
             ELSE f.c,
       n |-> IF rlen > 0 THEN rlen ELSE IF f.n = 0 THEN 0 ELSE -1,
       asked |-> f.asked, taken |-> f.taken]
HeaderReady(c, net) == HeadFound(FillHead(BufResize(c), net))

Opcodes == {1, 2, 8, 9, 10}

\* xs_http_parse and xs_http_parseheaders: the head must begin with a request line.
HttpParse(c, rlen, msgs) ==
  LET msg == msgs[c.buf[1].m]
  IN  [NoReq EXCEPT !.m = c.buf[1].m, !.reqlen = rlen, !.keepalive = msg.keep,
                    !.contentlen = IF msg.kind = "post" THEN msg.len ELSE 0,
                    !.chunked = msg.kind = "chunked",
                    !.upgrade = IF msg.kind = "upgrade" THEN 1 ELSE 0]

\* xs_websocket_frameparse: the opcode of the frame before is cleared before
\* it is looked at, so a continuation is never accepted.
FrameParse(c, msgs) ==
  LET msg == msgs[c.buf[1].m]
  IN  [NoReq EXCEPT !.m = c.buf[1].m, !.reqlen = 2, !.keepalive = msg.op # 8,
                    !.contentlen = msg.len, !.opcode = msg.op, !.upgrade = c.upgrade]

ParseFails(c, msgs) ==
  IF c.upgrade = 0 THEN c.buf[1].p # "line"
  ELSE c.buf[1].p # "fhdr" \/ msgs[c.buf[1].m].op \notin Opcodes

\* xs_http_createreq and, for an upgrade, conn->upgrade = 2 of xs_websocket_response.
TakeReq(c, rlen, req) ==
  [c EXCEPT !.req = [req EXCEPT !.header = req.upgrade = 0 /\ req.contentlen = 0 /\ ~req.chunked],
            !.consumed = @ + rlen,
            !.upgrade = IF req.upgrade = 1 THEN 2 ELSE @]

CreateReq(c, rlen, msgs) ==
  IF ParseFails(c, msgs) THEN [c EXCEPT !.errnum = "invalid"]
  ELSE TakeReq(c, rlen, IF c.upgrade = 0 THEN HttpParse(c, rlen, msgs) ELSE FrameParse(c, msgs))

\* What the parsing writes by itself.
ControlReply(c) ==
  IF c.req.upgrade = 1 THEN "101"
  ELSE IF c.req.opcode = 9 THEN "pong" ELSE IF c.req.opcode = 10 THEN "ping" ELSE "none"

-----------------------------------------------------------------------------
(***************************************************************************)
(* Chunked bodies.                                                         *)
(***************************************************************************)

\* xs_scan_chunk from position i: the size line ends with a line end.
\* [n, next] with n = -1 when it is not there yet; after the last chunk the
\* line end that follows is skipped too, whether it has come or not.
ScanChunk(buf, i) ==
  LET rest == SubSeq(buf, i + 1, Len(buf))
      size == SelectInSeq(rest, LAMBDA t : t.p = "size")
  IN  IF size = 0 \/ size = Len(rest) THEN [n |-> -1, next |-> i]
      ELSE [n |-> rest[size].k, next |-> i + size + 1 + (IF rest[size].k = 0 THEN 1 ELSE 0)]

\* xs_conn_chunkready: [c, n, asked, taken].
FillChunk(c, net) == Fill(c, ScanChunk(c.buf, c.consumed).n >= 0, net)
ChunkFound(f) ==
  LET scan == ScanChunk(f.c.buf, f.c.consumed)
  IN  [c |-> IF scan.n < 0 THEN f.c
             ELSE [f.c EXCEPT !.consumed = scan.next, !.req.contentlen = @ + scan.n],
       n |-> scan.n, asked |-> f.asked, taken |-> f.taken]
ChunkReady(c, net) == ChunkFound(FillChunk(BufResize(c), net))

-----------------------------------------------------------------------------
(***************************************************************************)
(* xs_conn_httpread: [c, n, reread, out, asked, taken, control], where out *)
(* is what it puts into the caller's buffer of length len, asked and taken *)
(* are about recv, and control is what it has to write before it returns.  *)
(***************************************************************************)
Returned(c, n, reread, recv) ==
  [c |-> c, n |-> n, reread |-> reread, out |-> <<>>, asked |-> recv.asked, taken |-> recv.taken,
   control |-> "none"]

NotAsked == [asked |-> FALSE, taken |-> 0]

\* A new request or frame; h is the answer of xs_conn_headerready.
NewRequest(h, s, msgs) ==
  LET c == CreateReq([h.c EXCEPT !.req = NoReq], h.n, msgs)
  IN  IF h.n <= 0 \/ h.c.errnum # "ok"
        THEN Returned(h.c, IF h.n # 0 THEN h.n ELSE RetValue(s, h.c), FALSE, h)
      ELSE IF c.errnum # "ok" THEN Returned(c, -1, FALSE, h)
      ELSE [Returned(c, RetValue(s, c), c.req.header \/ Buffered(c), h)
              EXCEPT !.control = ControlReply(c)]
ReadHead(c, s, net, msgs) == NewRequest(HeaderReady(c, net), s, msgs)

\* A piece of the body, from the buffer or, if that is empty, from the socket;
\* recv is what the call has received before.
ReadBody(c, len, net, recv) ==
  LET want == Smaller(len, c.req.contentlen - c.req.consumed)
      n == Smaller(want, Len(c.buf) - c.consumed)
      buffered == [c EXCEPT !.consumed = @ + n, !.req.consumed = @ + n]
      r == Recv(net, want)
      got == Got(net, r)
      received == [c EXCEPT !.errnum = r.err, !.req.consumed = @ + Len(got)]
  IN  IF n > 0
        THEN [Returned(buffered, n, Buffered(buffered), recv)
                EXCEPT !.out = SubSeq(c.buf, c.consumed + 1, c.consumed + n)]
        ELSE [Returned(received, r.n, r.n = want, [asked |-> TRUE, taken |-> recv.taken + Len(got)])
                EXCEPT !.out = got]

\* The next chunk, k being the answer of xs_conn_chunkready, or a piece of the
\* chunk being read.
NextChunk(k, s, len, net) ==
  LET ended == [k.c EXCEPT !.req.chunked = (k.n # 0)]
  IN  IF k.n > 0 THEN ReadBody(k.c, len, Left(net, k.taken), k)
      ELSE Returned(ended, RetValue(s, ended), Buffered(ended), k)
ReadChunked(c, s, len, net) ==
  IF c.req.consumed < c.req.contentlen THEN ReadBody(c, len, net, NotAsked)
  ELSE NextChunk(ChunkReady(c, net), s, len, net)

\* What is done depends on the state the last call has left.
ReadOn(c, len, net, msgs) ==
  LET s == ConnState(c)
  IN  IF s = "complete" THEN ReadHead([Shift(c) EXCEPT !.req.reqlen = 0], "last", net, msgs)
      ELSE IF s = "header" /\ c.req.header
        THEN Returned([c EXCEPT !.req.header = FALSE], 0, Buffered(c), NotAsked)
      ELSE IF c.req.reqlen = 0 THEN ReadHead(c, s, net, msgs)
      ELSE IF c.req.chunked THEN ReadChunked(c, s, len, net)
      ELSE ReadBody(c, len, net, NotAsked)
HttpRead(c, len, net, msgs) == ReadOn([c EXCEPT !.errnum = "ok"], len, net, msgs)
=============================================================================
