------------------------- MODULE HttpRequest_proofs -------------------------
(***************************************************************************)
(* Proofs about HttpRequest for any clients and any sizes of buffers.      *)
(***************************************************************************)
EXTENDS HttpRequest, SequenceTheorems, WellFoundedInduction, TLAPS

-----------------------------------------------------------------------------
(* The inductive invariant. Consistent speaks of the moments between two    *)
(* events; IInv says what each function finds when it runs: which handlers, *)
(* timers and gauges the functions before it left, by the handler of the   *)
(* read event.                                                             *)

\* What the variables are.
EvFields == {"handler", "active", "ready", "timer", "timedout"}
EvOK(e) ==
  /\ DOMAIN e = EvFields
  /\ e.active \in BOOLEAN /\ e.ready \in BOOLEAN
  /\ e.timer \in BOOLEAN /\ e.timedout \in BOOLEAN
ConnOK ==
  /\ DOMAIN c = {"open", "data", "rev", "wev"}
  /\ c.open \in BOOLEAN /\ c.data \in {"none", "request", "hc"}
  /\ EvOK(c.rev) /\ EvOK(c.wev)
  /\ DOMAIN call = {"fn", "rc"}

RFields ==
  {"pool", "at", "state", "old", "parsed", "length", "rest", "pre", "buf", "cap", "file",
   "keepalive", "lingering", "closed", "timeout", "reading", "writing", "out", "headers",
   "pipeline"}
Tokens_ == Seq(1 .. sent)
ReqOK ==
  /\ DOMAIN r = RFields
  /\ r.pool \in BOOLEAN /\ r.reading \in BOOLEAN /\ r.writing \in BOOLEAN
  /\ r.keepalive \in BOOLEAN /\ r.lingering \in BOOLEAN /\ r.closed \in BOOLEAN
  /\ r.at \in Nat /\ r.old \in Nat /\ r.state \in {"start", "partial"}
  /\ r.parsed \in Tokens_ /\ r.length \in Int /\ r.out \in Nat
  /\ r.rest \in Nat /\ r.cap \in Nat /\ r.buf \in Tokens_ /\ Len(r.buf) <= r.cap

\* The buffers of n tokens at most; hc.nfree counts the large ones on the free list.
Bufs(n) ==
  {b \in [data : Tokens_, pos : Nat] : b.pos <= Len(b.data) /\ Len(b.data) <= n}
HcOK ==
  /\ DOMAIN hc = {"buffer", "busy", "nfree", "pipeline", "unread"}
  /\ hc.buffer \in Bufs(Small) /\ hc.busy \in Seq(Bufs(Large))
  /\ hc.nfree \in Nat /\ Len(hc.busy) + hc.nfree <= Num

EnvOK ==
  /\ script \in Scripts /\ mode \in Modes /\ gone \in BOOLEAN /\ exiting \in BOOLEAN
  /\ sent \in 0 .. Len(Stream) /\ room \in 0 .. Room /\ wire \in Tokens_
  /\ DOMAIN stat = {"reading", "writing"}

\* A request reads into a buffer that is there, and an incomplete line begins in it.
Pointed == r.pool => /\ r.at <= Len(hc.busy)
                     /\ r.state = "partial" => r.old <= HeaderIn.pos

Shape == EnvOK /\ ConnOK /\ ReqOK /\ HcOK /\ Pointed

fn == call.fn
h == c.rev.handler
Reads == {"line", "headers"}
OfRequest == {"none", "line", "headers", "handler", "discard", "read_discarded", "read_body",
              "body", "upstream", "send", "writer", "writer_event", "finalize", "close",
              "set_keepalive", "set_lingering", "lingering"}

\* Which function runs with which data of the connection.
Begun ==
  \/ /\ c.open = FALSE /\ fn = "none" /\ r.pool = FALSE /\ c.wev.timer = FALSE
  \/ /\ fn = "init_connection" /\ c.open = TRUE /\ c.data = "none" /\ r.pool = FALSE
     /\ h = "empty" /\ c.rev.timer = FALSE /\ c.rev.timedout = FALSE
     /\ c.rev.active = FALSE /\ c.rev.ready = FALSE
     /\ c.wev.handler = "empty" /\ c.wev.timer = FALSE
  \/ /\ c.open = TRUE /\ c.data = "none" /\ fn \in {"none", "init_request", "close_connection"}
     /\ r.pool = FALSE /\ h = "init_request"
     /\ c.wev.handler = "empty" /\ c.wev.timer = FALSE
     /\ fn = "none" => c.rev.timer = TRUE /\ c.rev.timedout = FALSE
     /\ fn = "init_request" /\ c.rev.timedout = FALSE => c.rev.timer = TRUE
  \/ /\ c.open = TRUE /\ c.data = "hc"
     /\ fn \in {"none", "keepalive", "init_request", "close_connection"}
     /\ r.pool = FALSE /\ c.wev.handler = "empty" /\ c.wev.timer = FALSE
     /\ fn \in {"none", "keepalive"} => h = "keepalive"
     /\ fn = "none" => c.rev.timer = TRUE
     /\ fn = "keepalive" /\ c.rev.timedout = FALSE => c.rev.timer = TRUE
     /\ fn = "init_request" => c.rev.timedout = FALSE /\ c.rev.timer = TRUE
  \/ /\ c.open = TRUE /\ c.data = "request" /\ fn \in OfRequest /\ r.pool = TRUE

\* What the handler of the read event says of a request: what may run, which timers
\* it has, and whether an expired one is still to be seen. The line and the headers
\* are read with a timer, or an error page that was not sent has one.
LineState ==
  /\ r.reading = TRUE /\ r.writing = FALSE /\ r.keepalive = FALSE /\ r.lingering = FALSE
  /\ r.buf = <<>>
  /\ h = "headers" => r.parsed # <<>>
  /\ fn \in {"none", h, "finalize", "discard", "send", "writer_event", "writer", "close"}
  /\ c.rev.timedout = TRUE => fn = "close" \/ (fn = h /\ call.rc = "event")
  /\ fn \in {"none", h} /\ c.rev.timedout = FALSE => c.rev.timer = TRUE \/ c.wev.timer = TRUE
  /\ c.wev.timer = TRUE => c.wev.handler = "writer"
  /\ fn = "finalize" => call.rc \in {"ok", "again", "error", "bad", "too_long"}
\* ngx_http_block_read(): the request is complete but for its body.
BlockState ==
  /\ c.rev.timedout = FALSE /\ r.buf = <<>>
  /\ fn \in OfRequest \ {"line", "headers", "read_discarded", "body", "lingering"}
  /\ c.rev.timer = TRUE => \/ fn \in {"handler", "discard", "read_body", "upstream"}
                           \/ fn = "finalize" /\ call.rc = "forbidden"
  /\ fn = "finalize" => call.rc \in {"ok", "again", "error", "forbidden"}
  /\ fn = "read_body" => r.length > 0 /\ c.wev.handler = "empty"
\* ngx_http_read_client_request_body_handler(): the header buffer is used up.
BodyState ==
  /\ c.wev.handler = "empty" /\ Unread = 0 /\ r.length > 0
  /\ fn \in {"none", "body", "upstream", "finalize", "discard", "close"}
  /\ fn = "finalize" => call.rc = "timeout" \/ (call.rc = "bad" /\ r.closed = TRUE)
  /\ c.rev.timedout = TRUE => \/ fn = "body" /\ call.rc = "event"
                              \/ fn = "finalize" /\ call.rc = "timeout"
                              \/ fn \in {"discard", "close"}
\* The upstream has the request and looks for a client that leaves.
BrokenState ==
  /\ c.rev.timedout = FALSE /\ c.rev.timer = FALSE
  /\ fn \in {"none", "send", "writer", "writer_event", "finalize", "close", "set_keepalive",
             "set_lingering"}
  /\ fn = "finalize" => call.rc \in {"ok", "again", "error", "closed"}
\* ngx_http_read_discarded_body_event_handler(); a body may have timed out before.
DiscardState ==
  /\ c.rev.timer = FALSE /\ (c.rev.timedout = TRUE => Unread = 0)
  /\ fn \in {"none", "read_discarded", "send", "writer", "writer_event", "finalize", "close",
             "set_keepalive", "set_lingering"}
  /\ fn = "finalize" => call.rc \in {"ok", "again", "error"}
\* ngx_http_lingering_close_handler().
LingeringState ==
  /\ c.wev.handler = "empty" /\ fn \in {"none", "lingering", "close"}
  /\ fn = "none" => c.rev.timer = TRUE
Phase ==
  c.open = TRUE /\ c.data = "request" =>
    \/ h \in Reads /\ LineState
    \/ h = "block" /\ BlockState
    \/ h = "body" /\ BodyState
    \/ h = "broken" /\ BrokenState
    \/ h = "discard" /\ DiscardState
    \/ h = "lingering" /\ LingeringState
\* ngx_http_finalize_request() deletes the timers of a connection it keeps.
Ended == fn \in {"set_keepalive", "set_lingering"} => c.wev.timer = FALSE

\* ngx_http_writer() has a timer whenever it is not what runs.
Writes ==
  c.wev.handler = "writer" /\ c.wev.timer = FALSE =>
    \/ fn \in {"writer_event", "writer", "send", "finalize", "discard", "close",
               "set_keepalive", "set_lingering"}
    \/ fn = "read_discarded" /\ call.rc # "event"
\* Epoll never forgets the socket.
Watched == mode = "clear" /\ c.open = TRUE /\ fn # "init_connection" => c.rev.active = TRUE

\* ngx_stat_reading and ngx_stat_writing while the functions run.
Counted ==
  /\ stat \in [reading : Int, writing : Int]
  /\ stat.reading = IF \/ r.reading = TRUE
                       \/ /\ c.open = TRUE /\ c.data = "none"
                          /\ fn \notin {"init_connection", "close_connection"}
                    THEN 1 ELSE 0
  /\ stat.writing = IF r.writing = TRUE THEN 1 ELSE 0
  /\ r.pool = FALSE => r.reading = FALSE /\ r.writing = FALSE

IInv == Shape /\ Begun /\ Phase /\ Ended /\ Writes /\ Watched /\ Counted

-----------------------------------------------------------------------------
(* Sequences of tokens and buffers.                                        *)

LEMMA LeastExists ==
  ASSUME NEW T, T \subseteq Nat, T # {}
  PROVE  \E x \in T : \A y \in T : x <= y
<1>1. PICK x \in T : \A y \in T : <<y, x>> \notin OpToRel(<, Nat)
  BY WFMin, NatLessThanWellFounded, Zenon
<1>2. \A y \in T : ~(y < x)
  BY <1>1, Zenon DEF OpToRel
<1> QED
  BY <1>2

\* What recv() returns and leaves, with room for n tokens.
LEMMA RecvIs ==
  ASSUME wire \in Tokens_, sent \in Nat, NEW n \in Nat
  PROVE  /\ Received(n) \in Tokens_ /\ Len(Received(n)) = Least(n, Len(wire))
         /\ SubSeq(wire, Least(n, Len(wire)) + 1, Len(wire)) \in Tokens_
<1>1. Len(wire) \in Nat /\ \A j \in 1 .. Len(wire) : wire[j] \in 1 .. sent
  BY DEF Tokens_
<1>2. Least(n, Len(wire)) \in 0 .. Len(wire)
  BY <1>1 DEF Least
<1> QED
  BY <1>1, <1>2, SubSeqProperties DEF Received, Tokens_

LEMMA PartOfTokens ==
  ASSUME NEW S, NEW s \in Seq(S), NEW a \in Nat, NEW b \in Nat, b <= Len(s)
  PROVE  /\ SubSeq(s, a + 1, b) \in Seq(S)
         /\ Len(SubSeq(s, a + 1, b)) = IF a <= b THEN b - a ELSE 0
<1>1. Len(s) \in Nat /\ \A j \in 1 .. Len(s) : s[j] \in S
  OBVIOUS
<1> QED
  BY <1>1, SubSeqProperties

LEMMA BufIs ==
  ASSUME NEW b, NEW n \in Nat, b \in Bufs(n)
  PROVE  /\ DOMAIN b = {"data", "pos"} /\ b.data \in Tokens_
         /\ b.pos \in 0 .. Len(b.data) /\ Len(b.data) \in Nat /\ Len(b.data) <= n
         /\ \A k \in 0 .. Len(b.data) : [b EXCEPT !.pos = k] \in Bufs(n)
         /\ \A d \in Tokens_ : Len(d) >= b.pos /\ Len(d) <= n => [b EXCEPT !.data = d] \in Bufs(n)
BY DEF Bufs, Tokens_

LEMMA BufMade ==
  ASSUME NEW n \in Nat, NEW d \in Tokens_, NEW k \in 0 .. Len(d), Len(d) <= n
  PROVE  [data |-> d, pos |-> k] \in Bufs(n)
BY DEF Bufs, Tokens_

LEMMA Sizes == {Small, Large, Num, BodyBuf, Response, Room} \subseteq Nat \ {0}
BY HttpRequestAssumption DEF HttpRequestAssumption

LEMMA EmptyBuf ==
  /\ Empty \in Bufs(Small) /\ Empty \in Bufs(Large)
<1>1. <<>> \in Tokens_ /\ Len(<<>>) = 0
  BY DEF Tokens_
<1> QED
  BY <1>1, Sizes, BufMade DEF Empty

\* The buffer in use, and one put in its place.
LEMMA HeaderInIs ==
  ASSUME HcOK, ReqOK, r.at <= Len(hc.busy)
  PROVE  HeaderIn \in Bufs(Capacity) /\ Capacity \in Nat /\ Unread \in Nat
<1>1. hc.buffer \in Bufs(Small) /\ hc.busy \in Seq(Bufs(Large)) /\ Small \in Nat /\ Large \in Nat
  BY Sizes DEF HcOK
<1>2. r.at # 0 => r.at \in 1 .. Len(hc.busy) /\ hc.busy[r.at] \in Bufs(Large)
  BY <1>1 DEF ReqOK
<1>3. HeaderIn \in Bufs(Capacity) /\ Capacity \in Nat
  BY <1>1, <1>2 DEF HeaderIn, Capacity
<1> QED
  BY <1>3, BufIs DEF Unread

\* hc' is hc with b for the buffer in use.
Put(b) == hc' = SetHeaderIn(hc, b)
LEMMA PutKeeps ==
  ASSUME HcOK, ReqOK, r.at <= Len(hc.busy), NEW b \in Bufs(Capacity), Put(b),
         sent' = sent, r'.at = r.at
  PROVE  HcOK' /\ r'.at <= Len(hc'.busy) /\ HeaderIn' = b
<1>1. hc.buffer \in Bufs(Small) /\ hc.busy \in Seq(Bufs(Large)) /\ Small \in Nat /\ Large \in Nat
  BY Sizes DEF HcOK
<1>2. \A n : Bufs(n)' = Bufs(n)
  BY DEF Bufs, Tokens_
<1>3. CASE r.at = 0
  <2>1. hc' = [hc EXCEPT !.buffer = b] /\ b \in Bufs(Small)
    BY <1>3 DEF Put, SetHeaderIn, Capacity
  <2> QED
    BY <1>1, <1>2, <1>3, <2>1 DEF HcOK, HeaderIn
<1>4. CASE r.at # 0
  <2>1. hc' = [hc EXCEPT !.busy[r.at] = b] /\ b \in Bufs(Large) /\ r.at \in 1 .. Len(hc.busy)
    BY <1>4 DEF Put, SetHeaderIn, Capacity, ReqOK
  <2> DEFINE busy == [hc.busy EXCEPT ![r.at] = b]
  <2>2. busy \in Seq(Bufs(Large)) /\ Len(busy) = Len(hc.busy) /\ busy[r.at] = b
    BY <1>1, <2>1, ExceptSeq
  <2>3. hc' = [hc EXCEPT !.busy = busy]
    BY <2>1 DEF HcOK
  <2> HIDE DEF busy
  <2> QED
    BY <1>1, <1>2, <1>4, <2>2, <2>3 DEF HcOK, HeaderIn
<1> QED
  BY <1>3, <1>4

\* Nothing of the buffers moves.
LEMMA SameBuffers ==
  ASSUME HcOK, hc' = hc, sent' = sent
  PROVE  HcOK' /\ (r'.at = r.at => HeaderIn' = HeaderIn)
<1>1. \A n : Bufs(n)' = Bufs(n)
  BY DEF Bufs, Tokens_
<1> QED
  BY <1>1 DEF HcOK, HeaderIn

\* The first token that is no piece of the line.
LEMMA StopIs ==
  ASSUME HcOK, ReqOK, r.at <= Len(hc.busy), Stop # 0
  PROVE  Stop \in HeaderIn.pos + 1 .. Len(HeaderIn.data)
<1> DEFINE I == {k \in HeaderIn.pos + 1 .. Len(HeaderIn.data) : Stream[HeaderIn.data[k]].part # Piece}
<1>1. HeaderIn.pos \in Nat /\ Len(HeaderIn.data) \in Nat
  BY HeaderInIs, BufIs
<1>2. Stop = IF I # {} THEN Min(I) ELSE 0
  BY DEF Stop, SelectInSubSeq
<1>3. I # {}
  BY <1>2
<1>4. I \subseteq Nat
  BY <1>1
<1> HIDE DEF I
<1>5. \E x \in I : \A y \in I : x <= y
  BY <1>3, <1>4, LeastExists
<1>6. Min(I) \in I
  BY <1>5, Zenon DEF Min
<1>7. Stop \in I
  BY <1>2, <1>3, <1>6
<1> QED
  BY <1>7 DEF I

\* The request that a token belongs to.
LEMMA AskedIs ==
  ASSUME EnvOK, NEW t \in 1 .. sent
  PROVE  script.asks[Request(t)].body \in Nat
<1>1. /\ Stream \in Seq([part : Parts, of : DOMAIN script.asks])
      /\ \A k \in DOMAIN script.asks : script.asks[k].body \in Nat
  BY HttpRequestAssumption DEF HttpRequestAssumption, EnvOK, Stream
<1>2. sent \in Nat /\ sent <= Len(Stream) /\ Len(Stream) \in Nat
  BY <1>1 DEF EnvOK
<1>3. t \in 1 .. Len(Stream)
  BY <1>2
<1>4. Stream[t] \in [part : Parts, of : DOMAIN script.asks]
  BY <1>1, <1>3, ElementOfSeq
<1> QED
  BY <1>1, <1>4 DEF Request

LEMMA ParsedIs ==
  ASSUME EnvOK, ReqOK, r.parsed # <<>>
  PROVE  script.asks[Request(r.parsed[1])].body \in Nat
<1>1. r.parsed \in Seq(1 .. sent)
  BY DEF ReqOK, Tokens_
<1>2. Len(r.parsed) \in Nat /\ Len(r.parsed) # 0
  BY <1>1, EmptySeq, LenProperties
<1>3. 1 \in 1 .. Len(r.parsed)
  BY <1>2
<1>4. r.parsed[1] \in 1 .. sent
  BY <1>1, <1>3, ElementOfSeq, Zenon
<1> QED
  BY <1>4, AskedIs

-----------------------------------------------------------------------------
(* Steps that move no token.                                               *)

\* The request and the buffers stay as they are.
LEMMA Frame ==
  ASSUME IInv, hc' = hc, r' = r, env' = env, wire' \in Tokens_, room' \in 0 .. Room,
         DOMAIN stat' = DOMAIN stat
  PROVE  /\ EnvOK' /\ ReqOK' /\ HcOK' /\ Pointed'
         /\ (r.pool = TRUE => Unread' = Unread)
<1>1. /\ sent' = sent /\ script' = script /\ mode' = mode /\ gone' = gone
      /\ exiting' = exiting
  BY DEF env
<1>2. HcOK' /\ HeaderIn' = HeaderIn
  BY <1>1, SameBuffers DEF IInv, Shape
<1>3. EnvOK' /\ ReqOK'
  BY <1>1 DEF IInv, Shape, EnvOK, ReqOK, Tokens_, Stream
<1>4. Pointed'
  BY <1>2 DEF IInv, Shape, Pointed
<1> QED
  BY <1>2, <1>3, <1>4 DEF Unread

LEMMA CallIs == \A f, x : [fn |-> f, rc |-> x].fn = f /\ [fn |-> f, rc |-> x].rc = x
OBVIOUS

LEMMA FinalizeKeeps == IInv /\ Finalize => IInv'
<1> SUFFICES ASSUME IInv, Finalize PROVE IInv'
  OBVIOUS
<1>1. /\ hc' = hc /\ r' = r /\ env' = env /\ wire' = wire /\ room' = room /\ stat' = stat
      /\ script' = script /\ mode' = mode /\ fn = "finalize" /\ call.rc \notin Special
  BY DEF Finalize, env, fn
<1>2. c.open = TRUE /\ c.data = "request" /\ r.pool = TRUE
  BY <1>1 DEF IInv, Begun
<1>3. call.rc \in {"error", "again", "ok"}
  BY <1>1, <1>2 DEF IInv, Phase, LineState, BlockState, BodyState, BrokenState, DiscardState,
     LingeringState, Special, Reads
<1>4. ConnOK /\ ReqOK
  BY DEF IInv, Shape
<1>8. /\ EnvOK' /\ ReqOK' /\ HcOK' /\ Pointed'
      /\ (r.pool = TRUE => Unread' = Unread)
  BY <1>1, Frame DEF IInv, Shape, EnvOK
<1>5. CASE call.rc = "error"
  <2>1. c' = c /\ call' = [fn |-> "close", rc |-> "ok"]
    BY <1>5 DEF Finalize, Call
  <2>2. h' = h /\ fn' = "close"
    BY <2>1 DEF h, fn
  <2>3. ConnOK' /\ Begun' /\ Ended' /\ Writes' /\ Watched' /\ Counted'
    BY <1>1, <1>2, <2>1 DEF IInv, Shape, ConnOK, Begun, Ended, Writes, Watched, Counted, h, fn, OfRequest
  <2>4. Phase'
    BY <1>1, <1>2, <1>5, <1>8, <2>1, <2>2 DEF IInv, Phase, LineState, BlockState, BodyState, BrokenState, DiscardState,
     LingeringState, Reads, OfRequest
  <2> QED
    BY <1>8, <2>3, <2>4 DEF IInv, Shape
<1>6. CASE call.rc = "again"
  <2>1. c' = [c EXCEPT !.wev = WriteHandler(@)] /\ call' = [fn |-> "none", rc |-> "ok"]
    BY <1>6 DEF Finalize, Call, Return
  <2>2. /\ ConnOK' /\ c'.open = c.open /\ c'.data = c.data /\ c'.rev = c.rev
        /\ c'.wev.handler = "writer" /\ c'.wev.timer = TRUE
        /\ h' = h /\ fn' = "none"
    BY <1>4, <2>1 DEF ConnOK, EvOK, EvFields, WriteHandler, Handled, AddTimer, h, fn
  <2>3. Begun' /\ Ended' /\ Writes' /\ Watched' /\ Counted'
    BY <1>1, <1>2, <2>2 DEF IInv, Begun, Ended, Writes, Watched, Counted, h, fn, OfRequest
  <2>4. Phase'
    BY <1>1, <1>2, <1>6, <1>8, <2>2 DEF IInv, Phase, LineState, BlockState, BodyState, BrokenState, DiscardState,
     LingeringState, Reads, OfRequest
  <2> QED
    BY <1>8, <2>2, <2>3, <2>4 DEF IInv, Shape
<1>7. CASE call.rc = "ok"
  <2> DEFINE next == IF r.keepalive /\ ~exiting THEN "set_keepalive"
                     ELSE IF r.lingering THEN "set_lingering" ELSE "close"
  <2>1. /\ c' = [c EXCEPT !.rev = DelTimer(@), !.wev = DelTimer(@)]
        /\ call' = [fn |-> next, rc |-> "ok"]
    BY <1>7 DEF Finalize, Call
  <2>2. /\ ConnOK' /\ c'.open = c.open /\ c'.data = c.data
        /\ c'.rev.timer = FALSE /\ c'.rev.timedout = c.rev.timedout /\ c'.rev.active = c.rev.active
        /\ c'.wev.handler = c.wev.handler /\ c'.wev.timer = FALSE
        /\ h' = h /\ fn' \in {"close", "set_keepalive", "set_lingering"}
        /\ fn' # "close" => r.keepalive = TRUE \/ r.lingering = TRUE
    BY <1>4, <2>1 DEF ConnOK, ReqOK, EvOK, EvFields, DelTimer, h, fn
  <2>3. Begun' /\ Ended' /\ Writes' /\ Watched' /\ Counted'
    BY <1>1, <1>2, <2>2 DEF IInv, Begun, Ended, Writes, Watched, Counted, h, fn, OfRequest
  <2>4. Phase'
    BY <1>1, <1>2, <1>7, <1>8, <2>2 DEF IInv, Phase, LineState, BlockState, BodyState, BrokenState, DiscardState,
     LingeringState, Reads, OfRequest
  <2> QED
    BY <1>8, <2>2, <2>3, <2>4 DEF IInv, Shape
<1> QED
  BY <1>3, <1>5, <1>6, <1>7

\* A function of a request calls another one and touches nothing itself.
LEMMA CallsKeeps ==
  ASSUME IInv, c.open = TRUE, c.data = "request", NEW f \in OfRequest, NEW x,
         call' = [fn |-> f, rc |-> x], f \notin {"set_keepalive", "set_lingering"},
         c' = c, hc' = hc, r' = r, env' = env, wire' = wire, room' \in 0 .. Room, stat' = stat,
         Writes', Phase'
  PROVE  IInv'
<1>1. r.pool = TRUE /\ script' = script /\ mode' = mode
  BY DEF IInv, Begun, env
<1>2. EnvOK' /\ ReqOK' /\ HcOK' /\ Pointed'
  BY Frame DEF IInv, Shape, EnvOK
<1>3. ConnOK' /\ fn' = f
  BY DEF IInv, Shape, ConnOK, fn
<1>4. fn \notin {"init_connection", "close_connection"}
  BY DEF IInv, Begun, OfRequest
<1>5. Begun' /\ Ended' /\ Watched' /\ Counted'
  BY <1>1, <1>3, <1>4 DEF IInv, Begun, Ended, Watched, Counted, OfRequest
<1> QED
  BY <1>2, <1>3, <1>5 DEF IInv, Shape

\* The connection is open and has a request when its functions run.
LEMMA RequestIs ==
  ASSUME IInv, fn \in OfRequest \ {"none"}
  PROVE  c.open = TRUE /\ c.data = "request" /\ r.pool = TRUE /\ r.at <= Len(hc.busy)
BY DEF IInv, Begun, OfRequest, Shape, Pointed

LEMMA TimeoutKeeps == IInv /\ (HeaderTimeout \/ WriterTimeout) => IInv'
<1> SUFFICES ASSUME IInv, HeaderTimeout \/ WriterTimeout PROVE IInv'
  OBVIOUS
<1>1. /\ c' = c /\ hc' = hc /\ r' = r /\ env' = env /\ wire' = wire /\ room' = room
      /\ stat' = stat /\ call' = [fn |-> "close", rc |-> "ok"]
      /\ fn \in {"line", "headers", "writer_event"}
  BY DEF HeaderTimeout, WriterTimeout, Call, fn
<1>2. c.open = TRUE /\ c.data = "request" /\ r.pool = TRUE
  BY <1>1, RequestIs DEF OfRequest
<1>3. h' = h /\ fn' = "close" /\ room' \in 0 .. Room /\ Unread' = Unread
  BY <1>1, <1>2, Frame DEF h, fn, IInv, Shape, EnvOK
<1>4. Writes'
  BY <1>1, <1>3 DEF Writes
<1>5. Phase'
  BY <1>1, <1>2, <1>3 DEF IInv, Phase, LineState, BlockState, BodyState, BrokenState, DiscardState,
     LingeringState, Reads, OfRequest
<1> QED
  BY <1>1, <1>2, <1>3, <1>4, <1>5, CallsKeeps DEF OfRequest

LEMMA WriterKeeps == IInv /\ Writer => IInv'
<1> SUFFICES ASSUME IInv, Writer PROVE IInv'
  OBVIOUS
<1>1. /\ c' = c /\ hc' = hc /\ r' = r /\ env' = env /\ wire' = wire /\ room' = room
      /\ stat' = stat /\ call' = [fn |-> "writer", rc |-> "ok"] /\ fn = "writer_event"
  BY DEF Writer, Call, fn
<1>2. c.open = TRUE /\ c.data = "request" /\ r.pool = TRUE
  BY <1>1, RequestIs DEF OfRequest
<1>3. h' = h /\ fn' = "writer" /\ room' \in 0 .. Room /\ Unread' = Unread
  BY <1>1, <1>2, Frame DEF h, fn, IInv, Shape, EnvOK
<1>4. Writes'
  BY <1>1, <1>3 DEF Writes
<1>5. Phase'
  BY <1>1, <1>2, <1>3 DEF IInv, Phase, LineState, BlockState, BodyState, BrokenState, DiscardState,
     LingeringState, Reads, OfRequest
<1> QED
  BY <1>1, <1>2, <1>3, <1>4, <1>5, CallsKeeps DEF OfRequest

LEMMA BodyTimeoutKeeps == IInv /\ BodyTimeout => IInv'
<1> SUFFICES ASSUME IInv, BodyTimeout PROVE IInv'
  OBVIOUS
<1>1. /\ c' = c /\ hc' = hc /\ r' = r /\ env' = env /\ wire' = wire /\ room' = room
      /\ stat' = stat /\ call' = [fn |-> "finalize", rc |-> "timeout"] /\ fn = "body"
  BY DEF BodyTimeout, CallWith, fn
<1>2. c.open = TRUE /\ c.data = "request" /\ r.pool = TRUE
  BY <1>1, RequestIs DEF OfRequest
<1>3. h' = h /\ fn' = "finalize" /\ call'.rc = "timeout" /\ room' \in 0 .. Room /\ Unread' = Unread
  BY <1>1, <1>2, Frame DEF h, fn, IInv, Shape, EnvOK
<1>4. Writes'
  BY <1>1, <1>3 DEF Writes
<1>5. Phase'
  BY <1>1, <1>2, <1>3 DEF IInv, Phase, LineState, BlockState, BodyState, BrokenState, DiscardState,
     LingeringState, Reads, OfRequest
<1> QED
  BY <1>1, <1>2, <1>3, <1>4, <1>5, CallsKeeps DEF OfRequest

LEMMA UpstreamAnswersKeeps == IInv /\ UpstreamAnswers => IInv'
<1> SUFFICES ASSUME IInv, UpstreamAnswers PROVE IInv'
  OBVIOUS
<1>1. /\ c' = c /\ hc' = hc /\ r' = r /\ env' = env /\ wire' = wire /\ room' = room
      /\ stat' = stat /\ call' = [fn |-> "send", rc |-> "ok"] /\ fn = "none" /\ h = "broken"
      /\ c.open
  BY DEF UpstreamAnswers, Call, fn, h
<1>2. c.open = TRUE /\ c.data = "request" /\ r.pool = TRUE
  BY <1>1 DEF IInv, Begun, Shape, ConnOK
<1>3. h' = h /\ fn' = "send" /\ room' \in 0 .. Room /\ Unread' = Unread
  BY <1>1, <1>2, Frame DEF h, fn, IInv, Shape, EnvOK
<1>4. Writes'
  BY <1>1, <1>3 DEF Writes
<1>5. Phase'
  BY <1>1, <1>2, <1>3 DEF IInv, Phase, BrokenState, Reads
<1> QED
  BY <1>1, <1>2, <1>3, <1>4, <1>5, CallsKeeps DEF OfRequest

LEMMA ParseErrorKeeps == IInv /\ ParseError => IInv'
<1> SUFFICES ASSUME IInv, ParseError PROVE IInv'
  OBVIOUS
<1>1. /\ c' = c /\ hc' = hc /\ r' = r /\ env' = env /\ wire' = wire /\ room' = room
      /\ stat' = stat /\ call' = [fn |-> "finalize", rc |-> "bad"] /\ fn \in Reads
      /\ ~(c.rev.timedout /\ call.rc = "event")
  BY DEF ParseError, Parsing, InHead, CallWith, fn, Reads
<1>2. c.open = TRUE /\ c.data = "request" /\ r.pool = TRUE
  BY <1>1, RequestIs DEF OfRequest, Reads
<1>3. /\ h' = h /\ fn' = "finalize" /\ call'.rc = "bad" /\ room' \in 0 .. Room
      /\ Unread' = Unread
  BY <1>1, <1>2, Frame DEF h, fn, IInv, Shape, EnvOK
<1>4. Writes'
  BY <1>1, <1>3 DEF Writes
<1>5. Phase'
  BY <1>1, <1>2, <1>3 DEF IInv, Phase, LineState, BlockState, BodyState, BrokenState, DiscardState,
     LingeringState, Reads, OfRequest
<1> QED
  BY <1>1, <1>2, <1>3, <1>4, <1>5, CallsKeeps DEF OfRequest

-----------------------------------------------------------------------------
(* Steps that change the events of the connection only.                    *)

LEMMA InitConnectionKeeps == IInv /\ InitConnection => IInv'
<1> SUFFICES ASSUME IInv, InitConnection PROVE IInv'
  OBVIOUS
<1>1. /\ hc' = hc /\ r' = r /\ env' = env /\ wire' = wire /\ room' = room
      /\ script' = script /\ mode' = mode
      /\ fn = "init_connection" /\ call' = [fn |-> "none", rc |-> "ok"]
      /\ c' = [c EXCEPT !.rev = Handled(AddTimer([@ EXCEPT !.handler = "init_request"]))]
      /\ stat' = [stat EXCEPT !.reading = @ + 1]
  BY DEF InitConnection, env, fn, Return, Call
<1>2. /\ c.open = TRUE /\ c.data = "none" /\ r.pool = FALSE /\ c.wev.handler = "empty"
      /\ c.wev.timer = FALSE /\ c.rev.timedout = FALSE /\ c.rev.active = FALSE
      /\ c.rev.ready = FALSE
  BY <1>1 DEF IInv, Begun, OfRequest
<1>3. EnvOK' /\ ReqOK' /\ HcOK' /\ Pointed'
  BY <1>1, Frame DEF IInv, Shape, EnvOK
<1>4. ConnOK
  BY DEF IInv, Shape
<1>5. /\ ConnOK' /\ c'.open = TRUE /\ c'.data = "none" /\ c'.wev = c.wev
      /\ c'.rev.handler = "init_request" /\ c'.rev.timer = TRUE
      /\ c'.rev.timedout = FALSE /\ c'.rev.active = TRUE /\ fn' = "none"
  BY <1>1, <1>2, <1>4 DEF ConnOK, EvOK, EvFields, Handled, AddTimer, fn
<1>6. stat'.reading = stat.reading + 1 /\ stat'.writing = stat.writing
  BY <1>1 DEF IInv, Shape, EnvOK
<1>7. Begun' /\ Ended' /\ Writes' /\ Watched' /\ Counted' /\ Phase'
  BY <1>1, <1>2, <1>5, <1>6 DEF IInv, Begun, Ended, Writes, Watched, Counted, Phase, h, fn
<1> QED
  BY <1>3, <1>5, <1>7 DEF IInv, Shape

LEMMA UpstreamKeeps == IInv /\ Upstream => IInv'
<1> SUFFICES ASSUME IInv, Upstream PROVE IInv'
  OBVIOUS
<1>1. /\ hc' = hc /\ r' = r /\ env' = env /\ wire' = wire /\ room' = room /\ stat' = stat
      /\ script' = script /\ mode' = mode
      /\ fn = "upstream" /\ call' = [fn |-> "none", rc |-> "ok"]
      /\ c' = [c EXCEPT !.rev = DelTimer([@ EXCEPT !.handler = "broken"])]
  BY DEF Upstream, env, fn, Return, Call
<1>2. c.open = TRUE /\ c.data = "request" /\ r.pool = TRUE
  BY <1>1, RequestIs DEF OfRequest
<1>3. EnvOK' /\ ReqOK' /\ HcOK' /\ Pointed'
  BY <1>1, Frame DEF IInv, Shape, EnvOK
<1>4. ConnOK
  BY DEF IInv, Shape
<1>5. /\ ConnOK' /\ c'.open = TRUE /\ c'.data = "request" /\ c'.wev = c.wev
      /\ h' = "broken" /\ c'.rev.timer = FALSE
      /\ c'.rev.timedout = c.rev.timedout /\ c'.rev.active = c.rev.active /\ fn' = "none"
  BY <1>1, <1>2, <1>4 DEF ConnOK, EvOK, EvFields, DelTimer, fn, h
<1>6. c.rev.timedout = FALSE
  BY <1>1, <1>2, <1>4 DEF IInv, Phase, LineState, BlockState, BodyState, BrokenState, DiscardState,
     LingeringState, Reads, ConnOK, EvOK
<1>7. Begun' /\ Ended' /\ Writes' /\ Watched' /\ Counted' /\ Phase'
  BY <1>1, <1>2, <1>5, <1>6
  DEF IInv, Begun, Ended, Writes, Watched, Counted, Phase, BrokenState, fn, OfRequest
<1> QED
  BY <1>3, <1>5, <1>7 DEF IInv, Shape

\* What the end of a request does to the events, with select and poll or without.
LEMMA LevelIs ==
  ASSUME NEW ev, EvOK(ev)
  PROVE  /\ EvOK(Handled(ev)) /\ EvOK(LevelHandled(ev))
         /\ \A x \in {Handled(ev), LevelHandled(ev)} :
              /\ x.handler = ev.handler /\ x.timer = ev.timer /\ x.timedout = ev.timedout
              /\ mode = "clear" /\ ev.active = TRUE => x.active = TRUE
BY DEF EvOK, EvFields, Handled, LevelHandled

LEMMA SetLingeringKeeps == IInv /\ SetLingering => IInv'
<1> SUFFICES ASSUME IInv, SetLingering PROVE IInv'
  OBVIOUS
<1> DEFINE rev == LevelHandled(AddTimer([c.rev EXCEPT !.handler = "lingering"]))
           wev == WevEmptied(c.wev)
           wev2 == IF mode = "level" THEN [wev EXCEPT !.active = FALSE] ELSE wev
<1>1. /\ hc' = hc /\ r' = r /\ env' = env /\ wire' = wire /\ room' = room /\ stat' = stat
      /\ script' = script /\ mode' = mode /\ fn = "set_lingering"
      /\ call' = [fn |-> IF rev.ready THEN "lingering" ELSE "none", rc |-> "ok"]
      /\ c' = [c EXCEPT !.rev = rev, !.wev = wev2]
  BY DEF SetLingering, env, fn, Call
<1>2. c.open = TRUE /\ c.data = "request" /\ r.pool = TRUE
  BY <1>1, RequestIs DEF OfRequest
<1>3. EnvOK' /\ ReqOK' /\ HcOK' /\ Pointed'
  BY <1>1, Frame DEF IInv, Shape, EnvOK
<1>4. ConnOK
  BY DEF IInv, Shape
<1> DEFINE ev == AddTimer([c.rev EXCEPT !.handler = "lingering"])
<1>5. /\ EvOK(ev) /\ ev.handler = "lingering" /\ ev.timer = TRUE
      /\ ev.active = c.rev.active /\ ev.timedout = c.rev.timedout
  BY <1>4 DEF ConnOK, EvOK, EvFields, AddTimer
<1>6. /\ EvOK(rev) /\ rev.handler = "lingering" /\ rev.timer = TRUE
      /\ mode = "clear" /\ c.rev.active = TRUE => rev.active = TRUE
  BY <1>5, LevelIs
<1>7. EvOK(wev2) /\ wev2.handler = "empty"
  BY <1>4 DEF ConnOK, EvOK, EvFields, WevEmptied
<1> HIDE DEF rev, wev2
<1>8. /\ ConnOK' /\ c'.open = TRUE /\ c'.data = "request" /\ c'.wev = wev2 /\ c'.rev = rev
      /\ h' = "lingering" /\ fn' \in {"none", "lingering"}
  BY <1>1, <1>2, <1>4, <1>6, <1>7 DEF ConnOK, fn, h
<1>9. Begun' /\ Ended' /\ Writes' /\ Watched' /\ Counted' /\ Phase'
  BY <1>1, <1>2, <1>6, <1>7, <1>8
  DEF IInv, Begun, Ended, Writes, Watched, Counted, Phase, LingeringState, fn, OfRequest
<1> QED
  BY <1>3, <1>8, <1>9 DEF IInv, Shape

LEMMA LingeringKeeps == IInv /\ Lingering => IInv'
<1> SUFFICES ASSUME IInv, Lingering PROVE IInv'
  OBVIOUS
<1>1. /\ hc' = hc /\ r' = r /\ env' = env /\ room' = room /\ stat' = stat
      /\ script' = script /\ mode' = mode /\ fn = "lingering"
  BY DEF Lingering, env, fn
<1>2. c.open = TRUE /\ c.data = "request" /\ r.pool = TRUE
  BY <1>1, RequestIs DEF OfRequest
<1>3. h = "lingering" /\ c.wev.handler = "empty"
  BY <1>1, <1>2 DEF IInv, Phase, LineState, BlockState, BodyState, BrokenState, DiscardState,
     LingeringState, Reads
<1>4. ConnOK /\ wire \in Tokens_ /\ sent \in Nat
  BY DEF IInv, Shape, EnvOK
<1> DEFINE ev == AfterRecv(c.rev, DiscardBuf)
           rev == IF ev.ready THEN ev ELSE AddTimer(ev)
<1>5. /\ EvOK(ev) /\ ev.handler = h /\ ev.timer = c.rev.timer /\ ev.active = c.rev.active
  BY <1>4 DEF ConnOK, EvOK, EvFields, AfterRecv, h
<1>6. \/ c' = c /\ wire' = wire /\ call' = [fn |-> "close", rc |-> "ok"]
      \/ /\ c' = [c EXCEPT !.rev = rev] /\ Taken(DiscardBuf)
         /\ \/ ev.ready = TRUE /\ call' = call
            \/ ev.ready = FALSE /\ call' = [fn |-> "none", rc |-> "ok"]
  BY <1>1, <1>5 DEF Lingering, Call, Return, EvOK
<1>7. /\ EvOK(rev) /\ rev.handler = h /\ rev.active = c.rev.active
      /\ ev.ready = FALSE => rev.timer = TRUE
  BY <1>5 DEF EvOK, EvFields, AddTimer
<1>8. wire' \in Tokens_
  BY <1>4, <1>6, RecvIs DEF Taken, DiscardBuf
<1>9. EnvOK' /\ ReqOK' /\ HcOK' /\ Pointed'
  BY <1>1, <1>8, Frame DEF IInv, Shape, EnvOK
<1> HIDE DEF ev, rev
<1>10. /\ ConnOK' /\ c'.open = TRUE /\ c'.data = "request" /\ c'.wev = c.wev /\ h' = h
       /\ c'.rev.active = c.rev.active /\ fn' \in {"none", "lingering", "close"}
       /\ fn' = "none" => c'.rev.timer = TRUE
  BY <1>1, <1>2, <1>4, <1>6, <1>7 DEF ConnOK, fn, h
<1>11. Begun' /\ Ended' /\ Writes' /\ Watched' /\ Counted' /\ Phase'
  BY <1>1, <1>2, <1>3, <1>10
  DEF IInv, Begun, Ended, Writes, Watched, Counted, Phase, LingeringState, fn, OfRequest
<1> QED
  BY <1>9, <1>10, <1>11 DEF IInv, Shape

\* The handler that an event or a timer calls.
LEMMA DispatchIs ==
  ASSUME NEW rev, Dispatch(rev)
  PROVE  /\ rev.handler = "init_request" => call' = [fn |-> "init_request", rc |-> "ok"]
         /\ rev.handler \in {"line", "headers", "body"} =>
              call' = [fn |-> rev.handler, rc |-> "event"]
         /\ rev.handler = "discard" => call' = [fn |-> "read_discarded", rc |-> "event"]
         /\ rev.handler \in {"keepalive", "lingering"} =>
              call' = [fn |-> rev.handler, rc |-> "ok"]
         /\ rev.handler = "broken" =>
              \/ call' = [fn |-> "finalize", rc |-> "closed"]
              \/ call' = [fn |-> "none", rc |-> "ok"]
         /\ rev.handler = "block" => call' = [fn |-> "none", rc |-> "ok"]
BY DEF Dispatch, Call, CallWith, Return

\* Nothing runs: the connection waits for a request, for the next one, or has one.
LEMMA IdleIs ==
  ASSUME IInv, Idle
  PROVE  /\ fn = "none" /\ c.open = TRUE
         /\ \/ /\ c.data = "none" /\ h = "init_request" /\ c.rev.timer = TRUE
               /\ c.rev.timedout = FALSE /\ c.wev.handler = "empty" /\ c.wev.timer = FALSE
            \/ /\ c.data = "hc" /\ h = "keepalive" /\ c.rev.timer = TRUE
               /\ c.wev.handler = "empty" /\ c.wev.timer = FALSE
            \/ c.data = "request" /\ r.pool = TRUE
BY DEF IInv, Begun, Idle, fn, Shape, ConnOK

LEMMA ReadCalledKeeps ==
  ASSUME IInv, Idle, hc' = hc, r' = r, env' = env, wire' = wire, room' = room, stat' = stat,
         NEW rev, EvOK(rev), rev.handler = h, rev.active = c.rev.active,
         \/ rev.timer = c.rev.timer /\ rev.timedout = c.rev.timedout
         \/ c.rev.timer = TRUE /\ rev.timer = FALSE /\ rev.timedout = TRUE,
         c' = [c EXCEPT !.rev = Blocked(rev)], Dispatch(rev)
  PROVE  IInv'
<1>1. fn = "none" /\ c.open = TRUE /\ script' = script /\ mode' = mode
  BY IdleIs DEF env
<1>2. /\ EnvOK' /\ ReqOK' /\ HcOK' /\ Pointed' /\ (r.pool = TRUE => Unread' = Unread)
  BY Frame DEF IInv, Shape, EnvOK
<1>3. ConnOK
  BY DEF IInv, Shape
<1> DEFINE b == Blocked(rev)
<1>4. /\ EvOK(b) /\ b.handler = h /\ b.timer = rev.timer /\ b.timedout = rev.timedout
      /\ mode = "clear" => b.active = c.rev.active
  BY DEF Blocked, EvOK, EvFields
<1>5. /\ h \in {"init_request", "line", "headers", "block", "body", "broken", "discard",
                "keepalive", "lingering"}
      /\ DOMAIN call' = {"fn", "rc"}
  <2>1. h \in {"init_request", "line", "headers", "block", "body", "broken", "discard",
                "keepalive", "lingering"}
    BY IdleIs DEF IInv, Phase, Reads
  <2>2. \/ call' = [fn |-> "init_request", rc |-> "ok"]
        \/ call' = [fn |-> h, rc |-> "event"]
        \/ call' = [fn |-> h, rc |-> "ok"]
        \/ call' = [fn |-> "read_discarded", rc |-> "event"]
        \/ call' = [fn |-> "finalize", rc |-> "closed"]
        \/ call' = [fn |-> "none", rc |-> "ok"]
    BY <2>1, DispatchIs
  <2> QED
    BY <2>1, <2>2
<1> HIDE DEF b
<1>6. /\ ConnOK' /\ c'.open = TRUE /\ c'.data = c.data /\ c'.wev = c.wev /\ c'.rev = b /\ h' = h
  BY <1>1, <1>3, <1>4, <1>5 DEF ConnOK, h, b
<1>7. Writes' /\ Watched' /\ Counted' /\ Ended'
  <2>1. fn' \notin {"init_connection", "close_connection", "set_keepalive", "set_lingering"}
    BY <1>5, DispatchIs DEF fn
  <2> QED
    BY <1>1, <1>4, <1>6, <2>1 DEF IInv, Writes, Watched, Counted, Ended
<1>8. CASE c.data # "request"
  <2>0. \/ c.data = "none" /\ h = "init_request"
        \/ c.data = "hc" /\ h = "keepalive"
    BY <1>8, IdleIs
  <2>1. call' = [fn |-> h, rc |-> "ok"] /\ fn' = h
    BY <2>0, DispatchIs DEF fn
  <2>2. Begun' /\ Phase'
    BY <1>1, <1>4, <1>6, <2>0, <2>1, IdleIs DEF IInv, Begun, Phase
  <2> QED
    BY <1>2, <1>6, <1>7, <2>2 DEF IInv, Shape
<1>9. CASE c.data = "request"
  <2>1. r.pool = TRUE /\ Unread' = Unread
    BY <1>2, <1>9, IdleIs
  <2>2. /\ h \in {"line", "headers", "body"} => fn' = h /\ call'.rc = "event"
        /\ h = "lingering" => fn' = h
        /\ h = "discard" => fn' = "read_discarded" /\ call'.rc = "event"
        /\ h = "block" => fn' = "none"
        /\ h = "broken" => fn' = "none" \/ (fn' = "finalize" /\ call'.rc = "closed")
    BY DispatchIs DEF fn
  <2>3. Phase'
    BY <1>1, <1>2, <1>4, <1>6, <1>9, <2>1, <2>2
    DEF IInv, Phase, LineState, BlockState, BodyState, BrokenState, DiscardState,
        LingeringState, Reads, OfRequest
  <2>4. Begun'
    BY <1>1, <1>6, <1>9, <2>1, <2>2, <1>5 DEF IInv, Phase, Reads, Begun, OfRequest
  <2> QED
    BY <1>2, <1>6, <1>7, <2>3, <2>4 DEF IInv, Shape
<1> QED
  BY <1>8, <1>9

LEMMA ReadEventKeeps == IInv /\ (ReadEvent \/ ReadTimer) => IInv'
<1> SUFFICES ASSUME IInv, ReadEvent \/ ReadTimer PROVE IInv'
  OBVIOUS
<1>1. EvOK(c.rev)
  BY DEF IInv, Shape, ConnOK
<1>2. CASE ReadEvent
  <2> DEFINE rev == [c.rev EXCEPT !.ready = TRUE]
  <2>1. /\ Idle /\ hc' = hc /\ r' = r /\ env' = env /\ wire' = wire /\ room' = room
        /\ stat' = stat /\ c' = [c EXCEPT !.rev = Blocked(rev)] /\ Dispatch(rev)
    BY <1>2 DEF ReadEvent, env
  <2>2. /\ EvOK(rev) /\ rev.handler = h /\ rev.active = c.rev.active
        /\ rev.timer = c.rev.timer /\ rev.timedout = c.rev.timedout
    BY <1>1 DEF EvOK, EvFields, h
  <2> HIDE DEF rev
  <2> QED
    BY <2>1, <2>2, ReadCalledKeeps
<1>3. CASE ReadTimer
  <2> DEFINE rev == [c.rev EXCEPT !.timer = FALSE, !.timedout = TRUE]
  <2>1. /\ Idle /\ hc' = hc /\ r' = r /\ env' = env /\ wire' = wire /\ room' = room
        /\ stat' = stat /\ c' = [c EXCEPT !.rev = Blocked(rev)] /\ Dispatch(rev)
        /\ c.rev.timer
    BY <1>3 DEF ReadTimer, env
  <2>2. /\ EvOK(rev) /\ rev.handler = h /\ rev.active = c.rev.active
        /\ c.rev.timer = TRUE /\ rev.timer = FALSE /\ rev.timedout = TRUE
    BY <1>1, <2>1 DEF EvOK, EvFields, h
  <2> HIDE DEF rev
  <2> QED
    BY <2>1, <2>2, ReadCalledKeeps
<1> QED
  BY <1>2, <1>3

LEMMA WriteEventKeeps == IInv /\ (WriteEvent \/ WriteTimer) => IInv'
<1> SUFFICES ASSUME IInv, WriteEvent \/ WriteTimer PROVE IInv'
  OBVIOUS
<1>1. /\ Idle /\ hc' = hc /\ r' = r /\ env' = env /\ wire' = wire /\ room' = room
      /\ stat' = stat /\ script' = script /\ mode' = mode
      /\ call' = [fn |-> IF c.wev.handler = "writer" THEN "writer_event" ELSE "none", rc |-> "ok"]
      /\ \/ c' = [c EXCEPT !.wev.ready = TRUE]
         \/ c.wev.timer /\ c' = [c EXCEPT !.wev.timer = FALSE, !.wev.timedout = TRUE]
  BY DEF WriteEvent, WriteTimer, env, Call, Return
<1>2. fn = "none" /\ c.open = TRUE
  BY <1>1, IdleIs
<1>3. /\ EnvOK' /\ ReqOK' /\ HcOK' /\ Pointed' /\ (r.pool = TRUE => Unread' = Unread)
  BY <1>1, Frame DEF IInv, Shape, EnvOK
<1>4. ConnOK
  BY DEF IInv, Shape
<1>5. /\ ConnOK' /\ c'.open = TRUE /\ c'.data = c.data /\ c'.rev = c.rev /\ h' = h
      /\ c'.wev.handler = c.wev.handler
      /\ c'.wev.timer = c.wev.timer \/ (c'.wev.timer = FALSE /\ c.wev.timer = TRUE)
      /\ fn' = IF c.wev.handler = "writer" THEN "writer_event" ELSE "none"
  <2>1. CASE c' = [c EXCEPT !.wev.ready = TRUE]
    BY <1>1, <1>2, <1>4, <2>1 DEF ConnOK, EvOK, EvFields, h, fn
  <2>2. CASE c.wev.timer /\ c' = [c EXCEPT !.wev.timer = FALSE, !.wev.timedout = TRUE]
    BY <1>1, <1>2, <1>4, <2>2 DEF ConnOK, EvOK, EvFields, h, fn
  <2> QED
    BY <1>1, <2>1, <2>2
<1>6. Ended' /\ Writes' /\ Watched' /\ Counted'
  BY <1>1, <1>2, <1>5 DEF IInv, Ended, Writes, Watched, Counted
<1>7. Begun'
  BY <1>1, <1>2, <1>5 DEF IInv, Begun, OfRequest
<1>8. Phase'
  <2>1. CASE c.wev.handler = "writer"
    BY <1>1, <1>2, <1>3, <1>5, <2>1, IdleIs DEF IInv, Phase, LineState, BlockState, BodyState,
       BrokenState, DiscardState, LingeringState, Reads, OfRequest
  <2>2. CASE c.wev.handler # "writer"
    <3>1. /\ fn' = "none" /\ fn = "none" /\ c'.open = c.open /\ c'.data = c.data
          /\ c'.rev = c.rev /\ h' = h /\ r' = r /\ c'.wev.handler = c.wev.handler
      BY <1>1, <1>2, <1>5, <2>2
    <3>2. c.data = "request" => Unread' = Unread
      BY <1>1, <1>3, IdleIs
    <3>3. /\ c'.open = TRUE /\ c'.data = "request" /\ h \in Reads => LineState'
      BY <1>2, <1>5, <2>2, <3>1 DEF IInv, Phase, LineState, Reads
    <3> QED
      BY <3>1, <3>2, <3>3 DEF IInv, Phase, BlockState, BodyState,
       BrokenState, DiscardState, LingeringState, Reads, OfRequest
  <2> QED
    BY <2>1, <2>2
<1> QED
  BY <1>3, <1>5, <1>6, <1>7, <1>8 DEF IInv, Shape

\* What the client and the signal of the master do is seen by no function yet.
LEMMA OutsideKeeps ==
  ASSUME IInv, server' = server, script' = script, mode' = mode, sent' \in 0 .. Len(Stream),
         sent <= sent', wire' \in Seq(1 .. sent'), room' \in 0 .. Room,
         gone' \in BOOLEAN, exiting' \in BOOLEAN
  PROVE  IInv'
<1>1. c' = c /\ hc' = hc /\ r' = r /\ call' = call /\ stat' = stat
  BY DEF server
<1>2. sent \in Int /\ sent' \in Int
  BY HttpRequestAssumption DEF IInv, Shape, EnvOK, Stream, HttpRequestAssumption
<1>3. 1 .. sent \subseteq 1 .. sent'
  BY <1>2
<1>4. \A s \in Tokens_ : s \in Tokens_'
  <2>1. \A s \in Seq(1 .. sent) : s \in Seq(1 .. sent')
    BY <1>3, <1>2
  <2> QED
    BY <2>1 DEF Tokens_
<1>5. \A n : Bufs(n) \subseteq Bufs(n)'
  BY <1>4 DEF Bufs
<1>6. HcOK' /\ HeaderIn' = HeaderIn
  <2>1. hc'.buffer \in Bufs(Small)'
    BY <1>1, <1>5 DEF IInv, Shape, HcOK
  <2>2. hc'.busy \in Seq(Bufs(Large)')
    BY <1>1, <1>5 DEF IInv, Shape, HcOK
  <2> QED
    BY <1>1, <2>1, <2>2 DEF IInv, Shape, HcOK, HeaderIn
<1>7. ReqOK'
  BY <1>1, <1>4 DEF IInv, Shape, ReqOK
<1>8. EnvOK' /\ ConnOK' /\ Pointed' /\ Unread' = Unread
  BY <1>1, <1>6 DEF IInv, Shape, EnvOK, ConnOK, Pointed, Unread, Stream, Tokens_
<1>9. Begun' /\ Ended' /\ Writes' /\ Watched' /\ Counted'
  BY <1>1 DEF IInv, Begun, Ended, Writes, Watched, Counted, h, fn
<1>10. Phase'
  BY <1>1, <1>8 DEF IInv, Phase, LineState, BlockState, BodyState, BrokenState, DiscardState,
     LingeringState, h, fn
<1> QED
  BY <1>6, <1>7, <1>8, <1>9, <1>10 DEF IInv, Shape

LEMMA ClientKeeps ==
  IInv /\ (ClientSends \/ ClientReads \/ ClientLeaves \/ Exiting) => IInv'
<1> SUFFICES ASSUME IInv, ClientSends \/ ClientReads \/ ClientLeaves \/ Exiting PROVE IInv'
  OBVIOUS
<1>1. EnvOK /\ Len(Stream) \in Nat /\ sent \in Nat /\ wire \in Seq(1 .. sent) /\ Room \in Nat
  BY HttpRequestAssumption, Sizes
  DEF IInv, Shape, EnvOK, Stream, HttpRequestAssumption, Tokens_
<1>2. CASE ClientSends
  <2>1. /\ server' = server /\ script' = script /\ mode' = mode /\ sent' = sent + 1
        /\ sent < Len(Stream) /\ wire' = Append(wire, sent + 1) /\ room' = room
        /\ gone' = gone /\ exiting' = exiting
    BY <1>2 DEF ClientSends
  <2>2. wire \in Seq(1 .. sent + 1)
    BY <1>1
  <2>3. wire' \in Seq(1 .. sent')
    BY <1>1, <2>1, <2>2
  <2> QED
    BY <1>1, <2>1, <2>3, OutsideKeeps DEF EnvOK
<1>3. CASE ClientReads
  <2>1. /\ server' = server /\ script' = script /\ mode' = mode /\ sent' = sent
        /\ wire' = wire /\ room' = Room /\ gone' = gone /\ exiting' = exiting
    BY <1>3 DEF ClientReads, env
  <2> QED
    BY <1>1, <2>1, OutsideKeeps DEF EnvOK
<1>4. CASE ClientLeaves
  <2>1. /\ server' = server /\ script' = script /\ mode' = mode /\ sent' = sent
        /\ wire' = wire /\ room' = room /\ gone' = TRUE /\ exiting' = exiting
    BY <1>4 DEF ClientLeaves
  <2> QED
    BY <1>1, <2>1, OutsideKeeps DEF EnvOK
<1>5. CASE Exiting
  <2>1. /\ server' = server /\ script' = script /\ mode' = mode /\ sent' = sent
        /\ wire' = wire /\ room' = room /\ gone' = gone /\ exiting' = TRUE
    BY <1>5 DEF Exiting
  <2> QED
    BY <1>1, <2>1, OutsideKeeps DEF EnvOK
<1> QED
  BY <1>2, <1>3, <1>4, <1>5

-----------------------------------------------------------------------------
(* A request begins, and its line and headers are read.                    *)

LEMMA EnvKeeps ==
  ASSUME EnvOK, env' = env, wire' \in Tokens_, room' \in 0 .. Room, DOMAIN stat' = DOMAIN stat
  PROVE  /\ EnvOK' /\ sent' = sent /\ script' = script /\ mode' = mode /\ Tokens_' = Tokens_
         /\ \A n : Bufs(n)' = Bufs(n)
BY DEF env, EnvOK, Tokens_, Stream, Bufs

LEMMA InitRequestKeeps == IInv /\ InitRequest => IInv'
<1> SUFFICES ASSUME IInv, InitRequest PROVE IInv'
  OBVIOUS
<1>1. /\ fn = "init_request" /\ env' = env /\ wire' = wire /\ room' = room /\ hc' = hc
  BY DEF InitRequest, fn
<1>2. /\ r.pool = FALSE /\ c.open = TRUE /\ c.data \in {"none", "hc"}
      /\ c.wev.handler = "empty" /\ c.wev.timer = FALSE
      /\ c.rev.timedout = FALSE => c.rev.timer = TRUE
      /\ c.data = "hc" => c.rev.timedout = FALSE
  BY <1>1 DEF IInv, Begun, OfRequest
<1>3. /\ ConnOK /\ EnvOK /\ HcOK /\ ReqOK /\ r.reading = FALSE /\ r.writing = FALSE
      /\ stat.reading = IF c.data = "none" THEN 1 ELSE 0
      /\ stat.writing = 0 /\ DOMAIN stat = {"reading", "writing"}
  BY <1>1, <1>2 DEF IInv, Shape, Counted, EnvOK
<1>4. CASE c.rev.timedout
  <2>1. /\ c' = c /\ r' = r /\ call' = [fn |-> "close_connection", rc |-> "ok"]
        /\ stat' = [stat EXCEPT !.reading = @ - 1]
    BY <1>4 DEF InitRequest, CallWith
  <2>2. stat'.reading = stat.reading - 1 /\ stat'.writing = 0 /\ DOMAIN stat' = DOMAIN stat
    BY <1>3, <2>1
  <2>3. EnvOK' /\ ReqOK' /\ HcOK' /\ Pointed'
    BY <1>1, <2>1, <2>2, Frame DEF IInv, Shape, EnvOK
  <2>4. ConnOK' /\ fn' = "close_connection" /\ h' = h
    BY <1>3, <2>1 DEF ConnOK, fn, h
  <2>5. c.data = "none" /\ stat'.reading = 0
    BY <1>2, <1>3, <1>4, <2>2
  <2>6. Begun' /\ Ended' /\ Writes' /\ Watched' /\ Phase'
    BY <1>1, <1>2, <2>1, <2>4, <2>5, <2>3, <1>3, EnvKeeps
    DEF IInv, Begun, Ended, Writes, Watched, Phase, env
  <2>7. Counted'
    BY <1>2, <1>3, <2>1, <2>2, <2>4, <2>5 DEF Counted
  <2> QED
    BY <2>3, <2>4, <2>6, <2>7 DEF IInv, Shape
<1>5. CASE ~c.rev.timedout
  <2> DEFINE at == IF hc.busy = <<>> THEN 0 ELSE 1
  <2>1. /\ r' = [NoRequest EXCEPT !.pool = TRUE, !.reading = TRUE,
                   !.pipeline = hc.pipeline, !.at = at]
        /\ c' = [c EXCEPT !.data = "request", !.rev.handler = "line"]
        /\ stat' = [stat EXCEPT !.reading = IF c.data = "hc" THEN @ + 1 ELSE @]
        /\ call' = [fn |-> "line", rc |-> "ok"]
    BY <1>5 DEF InitRequest, Call
  <2>2. /\ stat'.reading = 1 /\ stat'.writing = 0 /\ DOMAIN stat' = DOMAIN stat
        /\ stat' \in [reading : Int, writing : Int]
    BY <1>2, <1>3, <2>1 DEF IInv, Counted
  <2>3. /\ EnvOK' /\ mode' = mode /\ Tokens_' = Tokens_ /\ HcOK'
    BY <1>1, <1>3, <2>2, EnvKeeps, SameBuffers DEF EnvOK
  <2>4. at \in Nat /\ at <= Len(hc.busy)
    <3>1. hc.busy \in Seq(Bufs(Large))
      BY <1>3 DEF HcOK
    <3>2. hc.busy # <<>> => Len(hc.busy) >= 1
      BY <3>1, EmptySeq, LenProperties
    <3> QED
      BY <3>1, <3>2, LenProperties
  <2>5. /\ DOMAIN r' = RFields /\ r'.pool = TRUE /\ r'.reading = TRUE /\ r'.writing = FALSE
        /\ r'.keepalive = FALSE /\ r'.lingering = FALSE /\ r'.closed = FALSE
        /\ r'.at = at /\ r'.old = 0 /\ r'.state = "start" /\ r'.parsed = <<>>
        /\ r'.length = -1 /\ r'.out = 0 /\ r'.rest = 0 /\ r'.cap = 0 /\ r'.buf = <<>>
    BY <2>1 DEF NoRequest, RFields
  <2> HIDE DEF at
  <2>6. <<>> \in Tokens_ /\ Len(<<>>) = 0
    BY DEF Tokens_
  <2>7. ReqOK' /\ Pointed'
    <3>1. r'.parsed \in Tokens_' /\ r'.buf \in Tokens_' /\ Len(r'.buf) <= r'.cap
      BY <2>3, <2>5, <2>6
    <3>2. /\ r'.at \in Nat /\ r'.old \in Nat /\ r'.length \in Int /\ r'.out \in Nat
          /\ r'.rest \in Nat /\ r'.cap \in Nat
      BY <2>4, <2>5
    <3>3. /\ r'.pool \in BOOLEAN /\ r'.reading \in BOOLEAN /\ r'.writing \in BOOLEAN
          /\ r'.keepalive \in BOOLEAN /\ r'.lingering \in BOOLEAN /\ r'.closed \in BOOLEAN
          /\ r'.state \in {"start", "partial"} /\ DOMAIN r' = RFields
      BY <2>5
    <3>4. ReqOK'
      BY <3>1, <3>2, <3>3 DEF ReqOK
    <3> QED
      BY <1>1, <2>4, <2>5, <3>4 DEF Pointed
  <2>8. /\ ConnOK' /\ c'.open = TRUE /\ c'.data = "request" /\ c'.wev = c.wev /\ h' = "line"
        /\ c'.rev.timer = c.rev.timer /\ c'.rev.timedout = c.rev.timedout
        /\ c'.rev.active = c.rev.active /\ fn' = "line"
    BY <1>2, <1>3, <2>1 DEF ConnOK, EvOK, EvFields, h, fn
  <2>9. Begun' /\ Ended' /\ Writes' /\ Watched' /\ Counted'
    BY <1>1, <1>2, <2>2, <2>3, <2>5, <2>8
    DEF IInv, Begun, Ended, Writes, Watched, Counted, OfRequest
  <2>10. c.rev.timedout = FALSE
    BY <1>3, <1>5 DEF ConnOK, EvOK
  <2>11. Phase'
    BY <1>2, <2>5, <2>8, <2>10 DEF Phase, LineState, Reads
  <2> QED
    BY <2>3, <2>7, <2>8, <2>9, <2>11 DEF IInv, Shape
<1> QED
  BY <1>4, <1>5

\* While the head of a request is read.
LEMMA HeadIs ==
  ASSUME IInv, InHead("line") \/ InHead("headers")
  PROVE  /\ fn \in Reads /\ h = fn /\ c.open = TRUE /\ c.data = "request" /\ r.pool = TRUE
         /\ LineState /\ r.at <= Len(hc.busy) /\ c.rev.timedout = FALSE
         /\ HeaderIn \in Bufs(Capacity) /\ Capacity \in Nat /\ HeaderIn.data \in Tokens_
         /\ HeaderIn.pos \in Nat /\ Len(HeaderIn.data) \in Nat
         /\ HeaderIn.pos <= Len(HeaderIn.data) /\ Len(HeaderIn.data) <= Capacity
         /\ ConnOK /\ EnvOK /\ ReqOK /\ HcOK /\ Pointed
<1>1. fn \in Reads /\ ~(c.rev.timedout /\ call.rc = "event")
  BY DEF InHead, fn, Reads
<1>2. c.open = TRUE /\ c.data = "request" /\ r.pool = TRUE /\ r.at <= Len(hc.busy)
  BY <1>1, RequestIs DEF OfRequest, Reads
<1>3. LineState /\ h \in Reads
  BY <1>1, <1>2 DEF IInv, Phase, BlockState, BodyState, BrokenState, DiscardState,
     LingeringState, Reads, OfRequest
<1>4. ConnOK /\ EnvOK /\ ReqOK /\ HcOK /\ Pointed
  BY DEF IInv, Shape
<1>5. h = fn /\ c.rev.timedout = FALSE
  BY <1>1, <1>3, <1>4 DEF LineState, Reads, ConnOK, EvOK
<1>6. /\ HeaderIn \in Bufs(Capacity) /\ Capacity \in Nat
      /\ HeaderIn.data \in Tokens_ /\ HeaderIn.pos \in 0 .. Len(HeaderIn.data)
      /\ Len(HeaderIn.data) \in Nat /\ Len(HeaderIn.data) <= Capacity
  BY <1>2, <1>4, HeaderInIs, BufIs
<1> QED
  BY <1>1, <1>2, <1>3, <1>4, <1>5, <1>6

\* A step of the reading of the head: what it leaves of the connection.
SameHead ==
  /\ DOMAIN c' = DOMAIN c /\ c'.open = c.open /\ c'.data = c.data /\ c'.wev = c.wev
  /\ EvOK(c'.rev) /\ c'.rev.handler = h /\ c'.rev.timedout = c.rev.timedout
  /\ c.rev.timer = TRUE => c'.rev.timer = TRUE
  /\ mode = "clear" /\ c.rev.active = TRUE => c'.rev.active = TRUE

LEMMA HeadStep ==
  ASSUME IInv, InHead("line") \/ InHead("headers"), env' = env, wire' \in Tokens_,
         room' = room, stat' = stat, SameHead,
         ReqOK', HcOK', Pointed',
         r'.pool = r.pool, r'.reading = r.reading, r'.writing = r.writing,
         r'.keepalive = r.keepalive, r'.lingering = r.lingering, r'.buf = r.buf,
         r'.parsed = r.parsed,
         \/ call' = call
         \/ call' = [call EXCEPT !.rc = "ok"]
         \/ call' = [fn |-> "none", rc |-> "ok"]
         \/ call' = [fn |-> "close", rc |-> "ok"]
         \/ call' = [fn |-> "finalize", rc |-> "bad"]
         \/ call' = [fn |-> "finalize", rc |-> "too_long"]
  PROVE  IInv'
<1>1. EnvOK' /\ mode' = mode
  BY EnvKeeps DEF IInv, Shape, EnvOK
<1>2. /\ ConnOK' /\ h' = h
      /\ \/ fn' = fn
         \/ fn' \in {"none", "close"}
         \/ fn' = "finalize" /\ call'.rc \in {"bad", "too_long"}
  BY DEF IInv, Shape, ConnOK, fn, h, SameHead
<1>3. Begun' /\ Ended' /\ Watched' /\ Counted'
  BY <1>1, <1>2, HeadIs DEF IInv, Begun, Ended, Watched, Counted, OfRequest, Reads, SameHead
<1>4. Writes'
  BY <1>2, HeadIs DEF IInv, Writes, Reads, SameHead
<1>5. Phase'
  BY <1>2, HeadIs DEF Phase, LineState, Reads, SameHead
<1> QED
  BY <1>1, <1>2, <1>3, <1>4, <1>5 DEF IInv, Shape

\* The position of the buffer in use moves within its data.
LEMMA ConsumeKeeps ==
  ASSUME HcOK, ReqOK, r.at <= Len(hc.busy), sent' = sent, r'.at = r.at,
         NEW n \in 0 .. Len(HeaderIn.data), Consume(n)
  PROVE  /\ HcOK' /\ r'.at <= Len(hc'.busy)
         /\ HeaderIn'.pos = n /\ HeaderIn'.data = HeaderIn.data
<1> DEFINE b == [HeaderIn EXCEPT !.pos = n]
<1>1. b \in Bufs(Capacity) /\ b.pos = n /\ b.data = HeaderIn.data
  BY HeaderInIs, BufIs
<1>2. Put(b)
  BY DEF Consume, Put
<1> HIDE DEF b
<1> QED
  BY <1>1, <1>2, PutKeeps

LEMMA SkipBlankKeeps == IInv /\ SkipBlank => IInv'
<1> SUFFICES ASSUME IInv, SkipBlank PROVE IInv'
  OBVIOUS
<1>1. /\ InHead("line") \/ InHead("headers")
      /\ Unread > 0 /\ r.state = "start" /\ Consume(HeaderIn.pos + 1) /\ env' = env
      /\ wire' = wire /\ room' = room /\ c' = c /\ r' = r /\ call' = call /\ stat' = stat
  BY DEF SkipBlank, Parsing, env
<1>2. HeaderIn.pos + 1 \in 0 .. Len(HeaderIn.data)
  <2>1. /\ HeaderIn.pos \in Nat /\ Len(HeaderIn.data) \in Nat
        /\ Len(HeaderIn.data) - HeaderIn.pos > 0
    BY <1>1, HeadIs DEF Unread
  <2> QED
    BY <2>1
<1>3. EnvOK /\ sent' = sent /\ Tokens_' = Tokens_ /\ wire \in Tokens_
  BY <1>1 DEF IInv, Shape, EnvOK, env, Tokens_
<1>4. HcOK' /\ r'.at <= Len(hc'.busy)
  BY <1>1, <1>2, <1>3, HeadIs, ConsumeKeeps
<1>5. ReqOK' /\ Pointed' /\ SameHead
  BY <1>1, <1>3, <1>4, HeadIs DEF ReqOK, Pointed, SameHead, ConnOK, h
<1> QED
  BY <1>1, <1>3, <1>4, <1>5, HeadStep

LEMMA ParseIncompleteKeeps == IInv /\ ParseIncomplete => IInv'
<1> SUFFICES ASSUME IInv, ParseIncomplete PROVE IInv'
  OBVIOUS
<1>1. /\ InHead("line") \/ InHead("headers")
      /\ Consume(Len(HeaderIn.data)) /\ env' = env /\ wire' = wire /\ room' = room
      /\ c' = c /\ r' = [r EXCEPT !.state = "partial", !.old = Start] /\ call' = call
      /\ stat' = stat
  BY DEF ParseIncomplete, Parsing, env
<1>2. /\ HeaderIn.pos \in Nat /\ Len(HeaderIn.data) \in Nat /\ HeaderIn.pos <= Len(HeaderIn.data)
      /\ r.old \in Nat
      /\ r.state = "partial" => r.old <= HeaderIn.pos
      /\ r.state \in {"start", "partial"}
  BY <1>1, HeadIs DEF ReqOK, Pointed
<1>3. Start \in Nat /\ Start <= Len(HeaderIn.data)
  BY <1>2 DEF Start
<1>4. EnvOK /\ sent' = sent /\ Tokens_' = Tokens_ /\ wire \in Tokens_
  BY <1>1 DEF IInv, Shape, EnvOK, env, Tokens_
<1>5. /\ ReqOK' /\ r'.at = r.at /\ r'.state = "partial" /\ r'.old = Start
      /\ r'.pool = r.pool /\ r'.reading = r.reading /\ r'.writing = r.writing
      /\ r'.keepalive = r.keepalive /\ r'.lingering = r.lingering /\ r'.buf = r.buf
      /\ r'.parsed = r.parsed
  BY <1>1, <1>3, <1>4, HeadIs DEF ReqOK, RFields
<1>6. HcOK' /\ r'.at <= Len(hc'.busy) /\ HeaderIn'.pos = Len(HeaderIn.data)
  <2>1. HcOK /\ ReqOK /\ r.at <= Len(hc.busy)
    BY <1>1, HeadIs
  <2>2. Len(HeaderIn.data) \in 0 .. Len(HeaderIn.data)
    BY <1>2
  <2> QED
    BY <1>1, <1>4, <1>5, <2>1, <2>2, ConsumeKeeps
<1>7. Pointed' /\ SameHead
  BY <1>1, <1>3, <1>5, <1>6, HeadIs DEF Pointed, SameHead, ConnOK, h
<1> QED
  BY <1>1, <1>4, <1>5, <1>6, <1>7, HeadStep

\* The part of a line that moves to another buffer.
LEMMA CopiedIs ==
  ASSUME HcOK, ReqOK, Pointed, r.pool = TRUE,
         ~(r.state = "partial" /\ HeaderIn.pos - r.old >= Large)
  PROVE  [data |-> Copied, pos |-> Len(Copied)] \in Bufs(Large)
<1>1. /\ HeaderIn.pos \in Nat /\ Len(HeaderIn.data) \in Nat /\ HeaderIn.pos <= Len(HeaderIn.data)
      /\ r.old \in Nat
      /\ r.state = "partial" => r.old <= HeaderIn.pos
      /\ r.state \in {"start", "partial"} /\ HeaderIn.data \in Tokens_ /\ Large \in Nat
  BY HeaderInIs, BufIs, Sizes DEF ReqOK, Pointed
<1>2. Copied \in Tokens_ /\ Len(Copied) \in Nat /\ Len(Copied) <= Large
  <2>1. CASE r.state = "start"
    BY <1>1, <2>1 DEF Copied, Tokens_
  <2>2. CASE r.state = "partial"
    <3>1. Copied = SubSeq(HeaderIn.data, r.old + 1, HeaderIn.pos)
      BY <2>2 DEF Copied
    <3>2. r.old <= HeaderIn.pos /\ HeaderIn.data \in Seq(1 .. sent)
      BY <1>1, <2>2 DEF Tokens_
    <3>3. /\ Copied \in Seq(1 .. sent)
          /\ Len(Copied) = IF r.old <= HeaderIn.pos THEN HeaderIn.pos - r.old ELSE 0
      BY <1>1, <3>1, <3>2, PartOfTokens
    <3>4. Copied \in Tokens_ /\ Len(Copied) = HeaderIn.pos - r.old
      BY <3>2, <3>3 DEF Tokens_
    <3> QED
      BY <1>1, <2>2, <3>4
  <2> QED
    BY <1>1, <2>1, <2>2
<1> QED
  BY <1>1, <1>2, BufMade

LEMMA AllocLargeKeeps == IInv /\ AllocLarge => IInv'
<1> SUFFICES ASSUME IInv, AllocLarge PROVE IInv'
  OBVIOUS
<1>1. /\ InHead("line") \/ InHead("headers")
      /\ env' = env /\ wire' = wire /\ room' = room /\ c' = c /\ stat' = stat
  BY DEF AllocLarge, Full, env
<1>2. /\ EnvOK /\ sent' = sent /\ Tokens_' = Tokens_ /\ wire \in Tokens_ /\ SameHead
      /\ \A n : Bufs(n)' = Bufs(n)
  BY <1>1, HeadIs DEF EnvOK, env, Tokens_, SameHead, ConnOK, h, Bufs
<1>3. CASE call.fn = "line" /\ r.state = "start"
  <2>1. Put(Empty) /\ r' = r /\ call' = call
    BY <1>3 DEF AllocLarge, Put
  <2>2. Empty \in Bufs(Capacity)
    BY EmptyBuf DEF Capacity
  <2>3. HcOK' /\ r'.at <= Len(hc'.busy)
    BY <1>1, <1>2, <2>1, <2>2, HeadIs, PutKeeps
  <2>4. ReqOK' /\ Pointed'
    BY <1>1, <1>2, <1>3, <2>1, <2>3, HeadIs DEF ReqOK, Pointed
  <2> QED
    BY <1>1, <1>2, <2>1, <2>3, <2>4, HeadStep
<1>4. CASE /\ ~(call.fn = "line" /\ r.state = "start")
           /\ \/ r.state = "partial" /\ HeaderIn.pos - r.old >= Large
              \/ hc.nfree = 0 /\ Len(hc.busy) >= Num
  <2>1. /\ hc' = hc /\ r' = r
        /\ call' = [fn |-> "finalize", rc |-> IF call.fn = "line" THEN "too_long" ELSE "bad"]
    BY <1>4 DEF AllocLarge, CallWith
  <2>2. ReqOK' /\ HcOK' /\ Pointed'
    BY <1>1, <1>2, <2>1, Frame DEF EnvOK
  <2>3. \/ call' = [fn |-> "finalize", rc |-> "bad"]
        \/ call' = [fn |-> "finalize", rc |-> "too_long"]
    BY <2>1
  <2> QED
    BY <1>1, <1>2, <2>1, <2>2, <2>3, HeadStep
<1>5. CASE /\ ~(call.fn = "line" /\ r.state = "start")
           /\ ~(r.state = "partial" /\ HeaderIn.pos - r.old >= Large)
           /\ ~(hc.nfree = 0 /\ Len(hc.busy) >= Num)
  <2> DEFINE b == [data |-> Copied, pos |-> Len(Copied)]
             nfree == IF hc.nfree > 0 THEN hc.nfree - 1 ELSE hc.nfree
             busy == Append(hc.busy, b)
  <2>1. /\ hc' = [[hc EXCEPT !.nfree = nfree] EXCEPT !.busy = Append(@, b)]
        /\ r' = [r EXCEPT !.at = Len(hc.busy) + 1, !.old = 0] /\ call' = call
    BY <1>5 DEF AllocLarge, NextBuffer
  <2>2. b \in Bufs(Large) /\ b.pos \in Nat
    <3>1. b \in Bufs(Large)
      BY <1>1, <1>5, HeadIs, CopiedIs
    <3> QED
      BY <3>1, BufIs, Sizes
  <2>3. /\ HcOK /\ hc.busy \in Seq(Bufs(Large)) /\ hc.nfree \in Nat /\ Len(hc.busy) \in Nat
        /\ Len(hc.busy) + hc.nfree <= Num /\ Num \in Nat
    BY <1>1, HeadIs, Sizes, LenProperties DEF HcOK
  <2>4. /\ busy \in Seq(Bufs(Large)) /\ Len(busy) = Len(hc.busy) + 1
        /\ busy[Len(hc.busy) + 1] = b
    BY <2>2, <2>3
  <2>5. nfree \in Nat /\ Len(busy) + nfree <= Num
    BY <1>5, <2>3, <2>4
  <2>6. /\ DOMAIN hc' = DOMAIN hc /\ hc'.buffer = hc.buffer /\ hc'.busy = busy
        /\ hc'.nfree = nfree
    BY <2>1, <2>3 DEF HcOK
  <2> HIDE DEF b, nfree, busy
  <2>7. /\ ReqOK' /\ r'.at = Len(hc.busy) + 1 /\ r'.old = 0
        /\ r'.pool = r.pool /\ r'.reading = r.reading /\ r'.writing = r.writing
        /\ r'.keepalive = r.keepalive /\ r'.lingering = r.lingering /\ r'.buf = r.buf
        /\ r'.parsed = r.parsed /\ r'.state = r.state
    <3>1. ReqOK /\ DOMAIN r = RFields
      BY <1>1, HeadIs DEF ReqOK
    <3> QED
      BY <1>2, <2>1, <2>3, <3>1 DEF ReqOK, RFields
  <2>8. HcOK'
    BY <1>2, <2>3, <2>4, <2>5, <2>6 DEF HcOK
  <2>9. HeaderIn' = b
    BY <2>3, <2>4, <2>6, <2>7 DEF HeaderIn
  <2>10. Pointed'
    BY <2>2, <2>3, <2>4, <2>6, <2>7, <2>9 DEF Pointed
  <2> QED
    BY <1>1, <1>2, <2>1, <2>7, <2>8, <2>10, HeadStep
<1> QED
  BY <1>3, <1>4, <1>5

\* What recv() leaves of an event, and the timer armed after it.
LEMMA AfterRecvIs ==
  ASSUME NEW ev, EvOK(ev), NEW n
  PROVE  /\ EvOK(AfterRecv(ev, n)) /\ AfterRecv(ev, n).handler = ev.handler
         /\ AfterRecv(ev, n).timer = ev.timer /\ AfterRecv(ev, n).timedout = ev.timedout
         /\ AfterRecv(ev, n).active = ev.active
BY DEF AfterRecv, EvOK, EvFields

LEMMA AddTimerIs ==
  ASSUME NEW ev, EvOK(ev)
  PROVE  /\ EvOK(AddTimer(ev)) /\ AddTimer(ev).handler = ev.handler
         /\ AddTimer(ev).timer = TRUE /\ AddTimer(ev).timedout = ev.timedout
         /\ AddTimer(ev).active = ev.active
         /\ EvOK(DelTimer(ev)) /\ DelTimer(ev).handler = ev.handler
         /\ DelTimer(ev).timer = FALSE /\ DelTimer(ev).timedout = ev.timedout
         /\ DelTimer(ev).active = ev.active
BY DEF AddTimer, DelTimer, EvOK, EvFields

\* What recv() adds to a buffer that has room for it.
LEMMA FilledIs ==
  ASSUME wire \in Tokens_, sent \in Nat, NEW d \in Tokens_, NEW n \in Nat
  PROVE  d \o Received(n) \in Tokens_ /\ Len(d \o Received(n)) \in Len(d) .. Len(d) + n
<1>1. Received(n) \in Seq(1 .. sent) /\ Len(Received(n)) = Least(n, Len(wire)) /\ d \in Seq(1 .. sent)
  BY RecvIs DEF Tokens_
<1>2. Len(wire) \in Nat
  BY DEF Tokens_
<1> QED
  BY <1>1, <1>2 DEF Tokens_, Least

LEMMA ReadRequestHeaderKeeps == IInv /\ ReadRequestHeader => IInv'
<1> SUFFICES ASSUME IInv, ReadRequestHeader PROVE IInv'
  OBVIOUS
<1> DEFINE n == Capacity - Len(HeaderIn.data)
<1>1. /\ InHead("line") \/ InHead("headers")
      /\ env' = env /\ room' = room /\ stat' = stat
  BY DEF ReadRequestHeader, env
<1>2. /\ ConnOK /\ EnvOK /\ ReqOK /\ HcOK /\ Pointed /\ r.pool = TRUE /\ r.at <= Len(hc.busy)
      /\ HeaderIn.data \in Tokens_ /\ HeaderIn.pos \in Nat /\ Len(HeaderIn.data) \in Nat
      /\ HeaderIn.pos <= Len(HeaderIn.data) /\ Len(HeaderIn.data) <= Capacity
      /\ Capacity \in Nat /\ HeaderIn \in Bufs(Capacity)
  BY <1>1, HeadIs
<1>3. /\ sent' = sent /\ Tokens_' = Tokens_ /\ wire \in Tokens_ /\ sent \in Nat
      /\ EvOK(c.rev) /\ DOMAIN c = {"open", "data", "rev", "wev"} /\ n \in Nat
  BY <1>1, <1>2, HttpRequestAssumption
  DEF EnvOK, env, Tokens_, ConnOK, Stream, HttpRequestAssumption
<1>4. CASE c' = c /\ hc' = hc /\ r' = r /\ wire' = wire
           /\ \/ call' = [fn |-> "none", rc |-> "ok"]
              \/ call' = [fn |-> "close", rc |-> "ok"]
  <2>1. ReqOK' /\ HcOK' /\ Pointed' /\ SameHead
    BY <1>1, <1>2, <1>3, <1>4, Frame DEF EnvOK, SameHead, h
  <2> QED
    BY <1>1, <1>3, <1>4, <2>1, HeadStep
<1>5. CASE /\ c' = [c EXCEPT !.rev = LET ev == AfterRecv(@, n) IN
                                     Handled(IF r.timeout THEN ev ELSE AddTimer(ev))]
           /\ r' = [r EXCEPT !.timeout = TRUE]
           /\ call' = [fn |-> "none", rc |-> "ok"] /\ wire' = wire /\ hc' = hc
  <2> DEFINE ev == AfterRecv(c.rev, n)
             timed == IF r.timeout THEN ev ELSE AddTimer(ev)
             rev == Handled(timed)
  <2>1. /\ EvOK(ev) /\ ev.handler = h /\ ev.timer = c.rev.timer
        /\ ev.timedout = c.rev.timedout /\ ev.active = c.rev.active
    BY <1>3, AfterRecvIs DEF h
  <2> HIDE DEF ev
  <2>2. /\ EvOK(timed) /\ timed.handler = h /\ timed.timedout = c.rev.timedout
        /\ timed.active = c.rev.active
        /\ c.rev.timer = TRUE => timed.timer = TRUE
    BY <2>1, AddTimerIs
  <2> HIDE DEF timed
  <2>3. /\ EvOK(rev) /\ rev.handler = h /\ rev.timedout = c.rev.timedout
        /\ c.rev.timer = TRUE => rev.timer = TRUE
        /\ mode = "clear" /\ c.rev.active = TRUE => rev.active = TRUE
    BY <2>2, LevelIs
  <2>4. c' = [c EXCEPT !.rev = rev]
    BY <1>5 DEF timed, ev
  <2> HIDE DEF rev
  <2>5. SameHead
    BY <1>3, <2>3, <2>4 DEF SameHead
  <2>6. /\ ReqOK' /\ r'.at = r.at /\ r'.state = r.state /\ r'.old = r.old
        /\ r'.pool = r.pool /\ r'.reading = r.reading /\ r'.writing = r.writing
        /\ r'.keepalive = r.keepalive /\ r'.lingering = r.lingering /\ r'.buf = r.buf
        /\ r'.parsed = r.parsed
    BY <1>2, <1>3, <1>5 DEF ReqOK, RFields
  <2>7. HcOK' /\ HeaderIn' = HeaderIn
    BY <1>2, <1>3, <1>5, <2>6, SameBuffers
  <2>8. Pointed'
    BY <1>2, <1>5, <2>6, <2>7 DEF Pointed
  <2> QED
    BY <1>1, <1>3, <1>5, <2>5, <2>6, <2>7, <2>8, HeadStep
<1>6. CASE /\ c' = [c EXCEPT !.rev = AfterRecv(@, n)]
           /\ hc' = SetHeaderIn(hc, [HeaderIn EXCEPT !.data = @ \o Received(n)])
           /\ Taken(n) /\ call' = [call EXCEPT !.rc = "ok"] /\ r' = r
  <2> DEFINE ev == AfterRecv(c.rev, n)
             d == HeaderIn.data \o Received(n)
             b == [HeaderIn EXCEPT !.data = d]
  <2>1. /\ EvOK(ev) /\ ev.handler = h /\ ev.timer = c.rev.timer
        /\ ev.timedout = c.rev.timedout /\ ev.active = c.rev.active
    BY <1>3, AfterRecvIs DEF h
  <2>2. c' = [c EXCEPT !.rev = ev]
    BY <1>6
  <2> HIDE DEF ev
  <2>3. SameHead
    BY <1>3, <2>1, <2>2 DEF SameHead
  <2>4. d \in Tokens_ /\ Len(d) \in Len(HeaderIn.data) .. Len(HeaderIn.data) + n
    BY <1>2, <1>3, FilledIs
  <2>5. Put(b)
    BY <1>6 DEF Put
  <2> HIDE DEF d
  <2>6. Len(d) >= HeaderIn.pos /\ Len(d) <= Capacity
    BY <1>2, <1>3, <2>4
  <2>7. b \in Bufs(Capacity) /\ b.pos = HeaderIn.pos
    BY <1>2, <2>4, <2>6, BufIs
  <2> HIDE DEF b
  <2>8. HcOK' /\ r'.at <= Len(hc'.busy) /\ HeaderIn' = b
    BY <1>2, <1>3, <1>6, <2>5, <2>7, PutKeeps
  <2>9. ReqOK' /\ Pointed'
    BY <1>2, <1>3, <1>6, <2>7, <2>8 DEF ReqOK, Pointed
  <2>10. wire' \in Tokens_
    BY <1>3, <1>6, RecvIs DEF Taken
  <2> QED
    BY <1>1, <1>6, <2>3, <2>8, <2>9, <2>10, HeadStep
<1> QED
  BY <1>4, <1>5, <1>6 DEF ReadRequestHeader, Return, Call

\* The tokens of a line that was read in parts.
LEMMA LineIs ==
  ASSUME HcOK, ReqOK, Pointed, r.pool = TRUE, sent \in Nat,
         NEW k \in HeaderIn.pos + 1 .. Len(HeaderIn.data)
  PROVE  /\ r.parsed \o SubSeq(HeaderIn.data, Start + 1, k) \in Tokens_
         /\ r.parsed \o SubSeq(HeaderIn.data, Start + 1, k) # <<>>
<1>1. /\ HeaderIn.pos \in Nat /\ Len(HeaderIn.data) \in Nat
      /\ HeaderIn.data \in Seq(1 .. sent) /\ r.parsed \in Seq(1 .. sent)
      /\ r.old \in Nat
      /\ r.state = "partial" => r.old <= HeaderIn.pos
      /\ r.state \in {"start", "partial"}
  BY HeaderInIs, BufIs DEF ReqOK, Pointed, Tokens_
<1>2. Start \in Nat /\ Start < k /\ k \in Nat /\ k <= Len(HeaderIn.data)
  BY <1>1 DEF Start
<1> DEFINE s == SubSeq(HeaderIn.data, Start + 1, k)
<1>3. s \in Seq(1 .. sent) /\ Len(s) = k - Start
  BY <1>1, <1>2, PartOfTokens
<1> HIDE DEF s
<1>4. r.parsed \o s \in Seq(1 .. sent) /\ Len(r.parsed \o s) = Len(r.parsed) + Len(s)
  BY <1>1, <1>3, ConcatProperties
<1>5. Len(r.parsed) \in Nat /\ Len(s) > 0 /\ Len(s) \in Nat
  BY <1>1, <1>2, <1>3
<1>6. r.parsed \o s # <<>>
  BY <1>4, <1>5
<1> QED
  BY <1>4, <1>6 DEF s, Tokens_

LEMMA ParseLineKeeps == IInv /\ ParseLine => IInv'
<1> SUFFICES ASSUME IInv, ParseLine PROVE IInv'
  OBVIOUS
<1> DEFINE parsed == r.parsed \o SubSeq(HeaderIn.data, Start + 1, Stop)
           old == call.fn = "line" /\ script.asks[Request(parsed[1])].how = "old"
<1>1. /\ InHead("line") \/ InHead("headers")
      /\ Stop # 0 /\ Consume(Stop) /\ env' = env /\ room' = room /\ wire' = wire
      /\ stat' = stat /\ r' = [r EXCEPT !.state = "start", !.parsed = parsed]
      /\ call' = [call EXCEPT !.fn = IF old THEN "handler" ELSE "headers"]
      /\ c' = [c EXCEPT !.rev.handler = IF old THEN "block" ELSE "headers"]
  BY DEF ParseLine, Parsing, env
<1>2. /\ ConnOK /\ EnvOK /\ ReqOK /\ HcOK /\ Pointed /\ r.pool = TRUE /\ r.at <= Len(hc.busy)
      /\ HeaderIn.pos \in Nat /\ Len(HeaderIn.data) \in Nat /\ LineState /\ fn \in Reads
      /\ c.open = TRUE /\ c.data = "request" /\ c.rev.timedout = FALSE /\ h = fn
  BY <1>1, HeadIs
<1>3. /\ EnvOK' /\ sent' = sent /\ mode' = mode /\ Tokens_' = Tokens_ /\ sent \in Nat
      /\ DOMAIN c = {"open", "data", "rev", "wev"} /\ DOMAIN call = {"fn", "rc"}
      /\ EvOK(c.rev) /\ EvOK(c.wev)
  BY <1>1, <1>2, EnvKeeps, HttpRequestAssumption
  DEF EnvOK, ConnOK, Stream, HttpRequestAssumption
<1>4. Stop \in HeaderIn.pos + 1 .. Len(HeaderIn.data)
  BY <1>1, <1>2, StopIs
<1>5. parsed \in Tokens_ /\ parsed # <<>>
  BY <1>2, <1>3, <1>4, LineIs
<1> DEFINE next == IF old THEN "handler" ELSE "headers"
           handler == IF old THEN "block" ELSE "headers"
<1>6. \/ next = "handler" /\ handler = "block"
      \/ next = "headers" /\ handler = "headers"
  OBVIOUS
<1> HIDE DEF parsed, old
<1>7. /\ ReqOK' /\ r'.at = r.at /\ r'.state = "start" /\ r'.parsed = parsed
      /\ r'.pool = TRUE /\ r'.reading = r.reading /\ r'.writing = r.writing
      /\ r'.keepalive = r.keepalive /\ r'.lingering = r.lingering /\ r'.buf = r.buf
  BY <1>1, <1>2, <1>3, <1>5 DEF ReqOK, RFields
<1>8. HcOK' /\ r'.at <= Len(hc'.busy)
  <2>1. Stop \in 0 .. Len(HeaderIn.data)
    BY <1>2, <1>4
  <2> QED
    BY <1>1, <1>2, <1>3, <1>7, <2>1, ConsumeKeeps
<1>9. Pointed'
  BY <1>7, <1>8 DEF Pointed
<1> HIDE DEF next, handler
<1>10. /\ ConnOK' /\ c'.open = TRUE /\ c'.data = "request" /\ c'.wev = c.wev
       /\ h' = handler /\ c'.rev.timer = c.rev.timer /\ c'.rev.timedout = FALSE
       /\ c'.rev.active = c.rev.active /\ fn' = next
  <2>1. c' = [c EXCEPT !.rev.handler = handler] /\ call' = [call EXCEPT !.fn = next]
    BY <1>1 DEF next, handler
  <2> QED
    BY <1>2, <1>3, <2>1 DEF ConnOK, EvOK, EvFields, h, fn
<1>11. Begun' /\ Ended' /\ Watched' /\ Counted'
  BY <1>1, <1>2, <1>3, <1>6, <1>7, <1>10
  DEF IInv, Begun, Ended, Watched, Counted, OfRequest, Reads
<1>12. Writes'
  BY <1>2, <1>10 DEF IInv, Writes, Reads
<1>13. Phase'
  BY <1>2, <1>5, <1>6, <1>7, <1>10
  DEF Phase, LineState, BlockState, Reads, OfRequest
<1> QED
  BY <1>3, <1>7, <1>8, <1>9, <1>10, <1>11, <1>12, <1>13 DEF IInv, Shape

LEMMA ParseDoneKeeps == IInv /\ ParseDone => IInv'
<1> SUFFICES ASSUME IInv, ParseDone PROVE IInv'
  OBVIOUS
<1> DEFINE q == script.asks[Request(r.parsed[1])]
           token == HeaderIn.data[HeaderIn.pos + 1]
<1>1. /\ InHead("line") \/ InHead("headers")
      /\ Unread > 0 /\ fn = "headers" /\ r.state = "start" /\ Consume(HeaderIn.pos + 1)
      /\ env' = env /\ room' = room /\ wire' = wire
      /\ r' = [r EXCEPT !.parsed = Append(@, token),
                        !.length = IF q.body = 0 THEN -1 ELSE q.body,
                        !.reading = q.how = "bad", !.writing = q.how # "bad"]
      /\ \/ /\ q.how = "bad" /\ call' = [fn |-> "finalize", rc |-> "bad"]
            /\ c' = c /\ stat' = stat
         \/ /\ q.how # "bad" /\ call' = [fn |-> "handler", rc |-> "ok"]
            /\ c' = [c EXCEPT !.rev = DelTimer([@ EXCEPT !.handler = "block"])]
            /\ stat' = [reading |-> stat.reading - 1, writing |-> stat.writing + 1]
  BY DEF ParseDone, Parsing, env, fn, Call, CallWith
<1>2. /\ ConnOK /\ EnvOK /\ ReqOK /\ HcOK /\ Pointed /\ r.pool = TRUE /\ r.at <= Len(hc.busy)
      /\ HeaderIn.pos \in Nat /\ Len(HeaderIn.data) \in Nat /\ HeaderIn.data \in Seq(1 .. sent)
      /\ LineState /\ h = "headers" /\ DOMAIN r = RFields
      /\ c.open = TRUE /\ c.data = "request" /\ c.rev.timedout = FALSE
  BY <1>1, HeadIs DEF Tokens_, ReqOK
<1>3. /\ EnvOK' /\ sent' = sent /\ mode' = mode /\ Tokens_' = Tokens_ /\ sent \in Nat
      /\ DOMAIN c = {"open", "data", "rev", "wev"} /\ DOMAIN call = {"fn", "rc"}
      /\ EvOK(c.rev) /\ EvOK(c.wev)
  <2>1. DOMAIN stat' = DOMAIN stat
    BY <1>1, <1>2 DEF EnvOK
  <2> QED
    BY <1>1, <1>2, <2>1, EnvKeeps, HttpRequestAssumption
    DEF EnvOK, ConnOK, Stream, HttpRequestAssumption
<1>4. HeaderIn.pos + 1 \in 1 .. Len(HeaderIn.data)
  BY <1>1, <1>2 DEF Unread
<1>5. Append(r.parsed, token) \in Tokens_ /\ Append(r.parsed, token) # <<>>
  <2>1. r.parsed \in Seq(1 .. sent)
    BY <1>2 DEF ReqOK, Tokens_
  <2>2. token \in 1 .. sent
    BY <1>2, <1>4, ElementOfSeq
  <2> HIDE DEF token
  <2>3. /\ Append(r.parsed, token) \in Seq(1 .. sent)
        /\ Len(Append(r.parsed, token)) = Len(r.parsed) + 1
    BY <2>1, <2>2, AppendProperties
  <2>4. Len(r.parsed) \in Nat
    BY <2>1
  <2>5. Append(r.parsed, token) # <<>>
    BY <2>3, <2>4
  <2> QED
    BY <2>3, <2>5 DEF Tokens_
<1>6. q.body \in Nat
  BY <1>2, ParsedIs DEF LineState
<1> HIDE DEF q, token
<1> DEFINE length == IF q.body = 0 THEN -1 ELSE q.body
           parsed == Append(r.parsed, token)
<1>6a. length \in Int
  BY <1>6
<1> HIDE DEF length
<1>7. /\ r'.at = r.at /\ r'.state = "start" /\ r'.parsed = Append(r.parsed, token)
      /\ r'.length \in Int /\ r'.pool = TRUE
      /\ r'.keepalive = FALSE /\ r'.lingering = FALSE /\ r'.buf = <<>> /\ r'.out = r.out
      /\ r'.closed = r.closed /\ r'.old = r.old /\ r'.rest = r.rest /\ r'.cap = r.cap
      /\ DOMAIN r' = RFields
      /\ IF q.how = "bad" THEN r'.reading = TRUE /\ r'.writing = FALSE
         ELSE r'.reading = FALSE /\ r'.writing = TRUE
  <2>1. r' = [r EXCEPT !.parsed = parsed, !.length = length,
                       !.reading = q.how = "bad", !.writing = q.how # "bad"]
    BY <1>1 DEF length
  <2>2. /\ r.keepalive = FALSE /\ r.lingering = FALSE /\ r.buf = <<>> /\ r.state = "start"
    BY <1>1, <1>2 DEF LineState
  <2> HIDE DEF parsed
  <2>3. /\ r'.at = r.at /\ r'.state = "start" /\ r'.parsed = parsed
        /\ r'.length \in Int /\ r'.pool = TRUE
        /\ r'.keepalive = FALSE /\ r'.lingering = FALSE /\ r'.buf = <<>> /\ r'.out = r.out
        /\ r'.closed = r.closed /\ r'.old = r.old /\ r'.rest = r.rest /\ r'.cap = r.cap
        /\ DOMAIN r' = RFields
    BY <1>2, <1>6a, <2>1, <2>2 DEF RFields
  <2>4. CASE q.how = "bad"
    BY <1>2, <2>1, <2>3, <2>4 DEF RFields, parsed
  <2>5. CASE q.how # "bad"
    BY <1>2, <2>1, <2>3, <2>5 DEF RFields, parsed
  <2> QED
    BY <2>4, <2>5
<1>8. ReqOK'
  <2>1. r'.reading \in BOOLEAN /\ r'.writing \in BOOLEAN
    BY <1>7
  <2>2. r'.parsed \in Tokens_' /\ r'.buf \in Tokens_' /\ Len(r'.buf) <= r'.cap
    BY <1>2, <1>3, <1>5, <1>7 DEF ReqOK, LineState
  <2> QED
    BY <1>2, <1>7, <2>1, <2>2 DEF ReqOK
<1>9. HcOK' /\ r'.at <= Len(hc'.busy)
  <2>1. HeaderIn.pos + 1 \in 0 .. Len(HeaderIn.data)
    BY <1>2, <1>4
  <2> QED
    BY <1>1, <1>2, <1>3, <1>7, <2>1, ConsumeKeeps
<1>10. Pointed'
  BY <1>7, <1>9 DEF Pointed
<1>11. CASE /\ q.how = "bad" /\ call' = [fn |-> "finalize", rc |-> "bad"]
            /\ c' = c /\ stat' = stat
  <2>1. /\ ConnOK' /\ h' = h /\ fn' = "finalize" /\ call'.rc = "bad"
        /\ r'.reading = TRUE /\ r'.writing = FALSE
    BY <1>2, <1>3, <1>7, <1>11 DEF ConnOK, h, fn
  <2>2. Begun' /\ Ended' /\ Watched' /\ Counted' /\ Writes'
    BY <1>1, <1>2, <1>3, <1>7, <1>11, <2>1
    DEF IInv, Begun, Ended, Watched, Counted, OfRequest, Writes, LineState
  <2>3. r'.parsed # <<>>
    BY <1>5, <1>7
  <2>4. Phase'
    BY <1>2, <1>7, <1>11, <2>1, <2>3 DEF Phase, LineState, Reads
  <2> QED
    BY <1>3, <1>8, <1>9, <1>10, <2>1, <2>2, <2>4 DEF IInv, Shape
<1>12. CASE /\ q.how # "bad" /\ call' = [fn |-> "handler", rc |-> "ok"]
            /\ c' = [c EXCEPT !.rev = DelTimer([@ EXCEPT !.handler = "block"])]
            /\ stat' = [reading |-> stat.reading - 1, writing |-> stat.writing + 1]
  <2>1. /\ ConnOK' /\ h' = "block" /\ fn' = "handler" /\ c'.open = TRUE /\ c'.data = "request"
        /\ c'.wev = c.wev /\ c'.rev.timer = FALSE /\ c'.rev.timedout = FALSE
        /\ c'.rev.active = c.rev.active
    BY <1>2, <1>3, <1>12 DEF ConnOK, EvOK, EvFields, DelTimer, h, fn
  <2>2. r'.reading = FALSE /\ r'.writing = TRUE
    BY <1>7, <1>12
  <2>3. stat'.reading = 0 /\ stat'.writing = 1
    BY <1>2, <1>12 DEF IInv, Counted, LineState
  <2>4. Begun' /\ Ended' /\ Watched' /\ Counted'
    BY <1>1, <1>2, <1>3, <1>7, <2>1, <2>2, <2>3
    DEF IInv, Begun, Ended, Watched, Counted, OfRequest
  <2>5. Writes'
    BY <1>1, <1>2, <2>1 DEF IInv, Writes
  <2>6. Phase'
    BY <1>7, <2>1, <2>2 DEF Phase, BlockState, OfRequest
  <2> QED
    BY <1>3, <1>8, <1>9, <1>10, <2>1, <2>4, <2>5, <2>6 DEF IInv, Shape
<1> QED
  BY <1>1, <1>11, <1>12

-----------------------------------------------------------------------------
(* The handler and the body.                                               *)

\* While a function of a request runs: the buffer in use.
LEMMA ServedIs ==
  ASSUME IInv, fn \in OfRequest \ {"none"}
  PROVE  /\ c.open = TRUE /\ c.data = "request" /\ r.pool = TRUE /\ r.at <= Len(hc.busy)
         /\ HeaderIn \in Bufs(Capacity) /\ Capacity \in Nat /\ HeaderIn.data \in Tokens_
         /\ HeaderIn.pos \in Nat /\ Len(HeaderIn.data) \in Nat
         /\ HeaderIn.pos <= Len(HeaderIn.data) /\ Len(HeaderIn.data) <= Capacity
         /\ Unread \in Nat /\ Unread = Len(HeaderIn.data) - HeaderIn.pos
         /\ ConnOK /\ EnvOK /\ ReqOK /\ HcOK /\ Pointed
         /\ EvOK(c.rev) /\ EvOK(c.wev) /\ DOMAIN c = {"open", "data", "rev", "wev"}
         /\ DOMAIN r = RFields /\ DOMAIN stat = {"reading", "writing"}
         /\ sent \in Nat /\ wire \in Tokens_
<1>1. c.open = TRUE /\ c.data = "request" /\ r.pool = TRUE /\ r.at <= Len(hc.busy)
  BY RequestIs
<1>2. ConnOK /\ EnvOK /\ ReqOK /\ HcOK /\ Pointed
  BY DEF IInv, Shape
<1>3. /\ HeaderIn \in Bufs(Capacity) /\ Capacity \in Nat /\ HeaderIn.data \in Tokens_
      /\ HeaderIn.pos \in 0 .. Len(HeaderIn.data)
      /\ Len(HeaderIn.data) \in Nat /\ Len(HeaderIn.data) <= Capacity
      /\ Unread \in Nat
  BY <1>1, <1>2, HeaderInIs, BufIs
<1>4. sent \in Nat
  BY <1>2, HttpRequestAssumption DEF EnvOK, Stream, HttpRequestAssumption
<1> QED
  BY <1>1, <1>2, <1>3, <1>4 DEF Unread, ConnOK, ReqOK, EnvOK

LEMMA HandlerKeeps == IInv /\ Handler => IInv'
<1> SUFFICES ASSUME IInv, Handler PROVE IInv'
  OBVIOUS
<1> DEFINE kept == Asked.keepalive /\ Asked.how # "old"
           more == r.length > 0
<1>1. /\ fn = "handler" /\ env' = env /\ wire' = wire /\ room' = room /\ hc' = hc
      /\ stat' = stat /\ r' = [r EXCEPT !.keepalive = kept, !.lingering = more]
      /\ c' = [c EXCEPT !.wev.handler = "empty"]
      /\ \/ call' = [fn |-> "finalize", rc |-> "forbidden"]
         \/ r.length <= 0 /\ call' = [fn |-> "upstream", rc |-> "ok"]
         \/ ~(r.length <= 0) /\ call' = [fn |-> "read_body", rc |-> "ok"]
         \/ call' = [fn |-> "discard", rc |-> "send"]
  BY DEF Handler, fn, env, Call, CallWith
<1>2. /\ c.open = TRUE /\ c.data = "request" /\ r.pool = TRUE /\ ConnOK /\ EnvOK
      /\ ReqOK /\ HcOK /\ Pointed /\ EvOK(c.rev) /\ EvOK(c.wev) /\ DOMAIN r = RFields
      /\ DOMAIN c = {"open", "data", "rev", "wev"} /\ r.length \in Int
  BY <1>1, ServedIs DEF OfRequest, ReqOK
<1>3. h = "block" /\ BlockState
  BY <1>1, <1>2 DEF IInv, Phase, LineState, BodyState, BrokenState, DiscardState,
     LingeringState, Reads
<1>4. kept \in BOOLEAN /\ more \in BOOLEAN
  OBVIOUS
<1> HIDE DEF kept, more
<1>5. EnvOK' /\ sent' = sent /\ mode' = mode /\ Tokens_' = Tokens_
  BY <1>1, <1>2, EnvKeeps DEF EnvOK
<1>6. /\ ReqOK' /\ r'.at = r.at /\ r'.state = r.state /\ r'.old = r.old /\ r'.pool = TRUE
      /\ r'.reading = r.reading /\ r'.writing = r.writing /\ r'.buf = r.buf
      /\ r'.length = r.length
  BY <1>1, <1>2, <1>4, <1>5 DEF ReqOK, RFields
<1>7. HcOK' /\ HeaderIn' = HeaderIn
  BY <1>1, <1>2, <1>5, <1>6, SameBuffers
<1>8. Pointed'
  BY <1>1, <1>2, <1>6, <1>7 DEF Pointed
<1>9. /\ ConnOK' /\ c'.open = TRUE /\ c'.data = "request" /\ c'.rev = c.rev /\ h' = h
      /\ c'.wev.handler = "empty"
      /\ \/ fn' = "finalize" /\ call'.rc = "forbidden"
         \/ fn' \in {"upstream", "discard"}
         \/ fn' = "read_body" /\ r.length > 0
  BY <1>1, <1>2 DEF ConnOK, EvOK, EvFields, h, fn
<1>10. Begun' /\ Ended' /\ Writes' /\ Watched' /\ Counted'
  BY <1>1, <1>2, <1>5, <1>6, <1>9
  DEF IInv, Begun, Ended, Writes, Watched, Counted, OfRequest
<1>11. Phase'
  BY <1>3, <1>6, <1>9 DEF Phase, BlockState, OfRequest
<1> QED
  BY <1>5, <1>6, <1>7, <1>8, <1>9, <1>10, <1>11 DEF IInv, Shape

LEMMA ReadBodyKeeps == IInv /\ ReadBody => IInv'
<1> SUFFICES ASSUME IInv, ReadBody PROVE IInv'
  OBVIOUS
<1>1. /\ fn = "read_body" /\ env' = env /\ wire' = wire /\ room' = room /\ stat' = stat
  BY DEF ReadBody, fn, env
<1>2. /\ c.open = TRUE /\ c.data = "request" /\ r.pool = TRUE /\ ConnOK /\ EnvOK
      /\ ReqOK /\ HcOK /\ Pointed /\ EvOK(c.rev) /\ EvOK(c.wev) /\ DOMAIN r = RFields
      /\ DOMAIN c = {"open", "data", "rev", "wev"} /\ r.at <= Len(hc.busy)
      /\ HeaderIn.pos \in Nat /\ Len(HeaderIn.data) \in Nat
      /\ Unread = Len(HeaderIn.data) - HeaderIn.pos /\ Unread \in Nat
  BY <1>1, ServedIs DEF OfRequest
<1>3. h = "block" /\ BlockState /\ r.length > 0 /\ c.wev.handler = "empty" /\ r.length \in Int
  BY <1>1, <1>2 DEF IInv, Phase, LineState, BlockState, BodyState, BrokenState, DiscardState,
     LingeringState, Reads, ReqOK
<1>4. EnvOK' /\ sent' = sent /\ mode' = mode /\ Tokens_' = Tokens_
  BY <1>1, <1>2, EnvKeeps DEF EnvOK
<1>5. CASE r.length <= Unread
  <2> DEFINE pre == PreRead
  <2>1. /\ r' = [r EXCEPT !.pre = pre] /\ Consume(HeaderIn.pos + r.length) /\ c' = c
        /\ call' = [fn |-> "upstream", rc |-> "ok"]
    BY <1>5 DEF ReadBody, Call
  <2> HIDE DEF pre
  <2>2. HeaderIn.pos + r.length \in 0 .. Len(HeaderIn.data)
    BY <1>2, <1>3, <1>5
  <2>3. /\ ReqOK' /\ r'.at = r.at /\ r'.state = r.state /\ r'.old = r.old /\ r'.pool = TRUE
        /\ r'.reading = r.reading /\ r'.writing = r.writing /\ r'.buf = r.buf
    BY <1>2, <1>4, <2>1 DEF ReqOK, RFields
  <2>4. HcOK' /\ r'.at <= Len(hc'.busy) /\ HeaderIn'.pos = HeaderIn.pos + r.length
    BY <1>2, <1>4, <2>1, <2>2, <2>3, ConsumeKeeps
  <2>5. Pointed'
    BY <1>2, <1>3, <2>3, <2>4 DEF Pointed, ReqOK
  <2>6. ConnOK' /\ h' = h /\ fn' = "upstream"
    BY <1>2, <2>1 DEF ConnOK, h, fn
  <2>7. Begun' /\ Ended' /\ Writes' /\ Watched' /\ Counted'
    BY <1>1, <1>2, <1>3, <1>4, <2>1, <2>3, <2>6
    DEF IInv, Begun, Ended, Writes, Watched, Counted, OfRequest
  <2>8. Phase'
    BY <1>3, <2>1, <2>3, <2>6 DEF Phase, BlockState, OfRequest
  <2> QED
    BY <1>4, <2>3, <2>4, <2>5, <2>6, <2>7, <2>8 DEF IInv, Shape
<1>6. CASE ~(r.length <= Unread)
  <2> DEFINE rest == r.length - Unread
             pre == PreRead
             cap == IF rest < BodyBuf + BodyBuf \div 4 THEN rest ELSE BodyBuf
  <2>1. /\ r' = [r EXCEPT !.pre = pre, !.rest = rest, !.cap = cap]
        /\ Consume(Len(HeaderIn.data)) /\ c' = [c EXCEPT !.rev.handler = "body"]
        /\ call' = [fn |-> "body", rc |-> "ok"]
    BY <1>6 DEF ReadBody, Call
  <2>2. rest \in Nat
    BY <1>2, <1>3, <1>6
  <2>3. cap \in Nat
    BY <2>2, Sizes
  <2> HIDE DEF pre, rest, cap
  <2>4. /\ DOMAIN r' = RFields /\ r'.at = r.at /\ r'.state = r.state /\ r'.old = r.old
        /\ r'.pool = TRUE /\ r'.reading = r.reading /\ r'.writing = r.writing
        /\ r'.keepalive = r.keepalive /\ r'.lingering = r.lingering /\ r'.closed = r.closed
        /\ r'.parsed = r.parsed /\ r'.length = r.length /\ r'.out = r.out
        /\ r'.buf = r.buf /\ r'.rest \in Nat /\ r'.cap \in Nat
    BY <1>2, <2>1, <2>2, <2>3 DEF RFields
  <2>5. r.buf = <<>> /\ Len(r.buf) = 0
    BY <1>3 DEF BlockState
  <2>6. ReqOK'
    <3>1. Len(r'.buf) <= r'.cap
      BY <2>4, <2>5
    <3> QED
      BY <1>2, <1>4, <2>4, <3>1 DEF ReqOK
  <2>7. Len(HeaderIn.data) \in 0 .. Len(HeaderIn.data)
    BY <1>2
  <2>8. /\ HcOK' /\ r'.at <= Len(hc'.busy) /\ HeaderIn'.pos = Len(HeaderIn.data)
        /\ HeaderIn'.data = HeaderIn.data
    BY <1>2, <1>4, <2>1, <2>4, <2>7, ConsumeKeeps
  <2>9. Pointed' /\ Unread' = 0
    BY <1>2, <2>4, <2>8 DEF Pointed, ReqOK, Unread
  <2>10. /\ ConnOK' /\ c'.open = TRUE /\ c'.data = "request" /\ c'.wev = c.wev
         /\ h' = "body" /\ c'.rev.timedout = c.rev.timedout /\ c'.rev.active = c.rev.active
         /\ fn' = "body"
    BY <1>2, <2>1 DEF ConnOK, EvOK, EvFields, h, fn
  <2>11. Begun' /\ Ended' /\ Writes' /\ Watched' /\ Counted'
    BY <1>1, <1>2, <1>3, <1>4, <2>4, <2>10
    DEF IInv, Begun, Ended, Writes, Watched, Counted, OfRequest
  <2>12. c.rev.timedout = FALSE
    BY <1>3 DEF BlockState
  <2>13. Phase'
    BY <1>3, <2>4, <2>9, <2>10, <2>12 DEF Phase, BodyState
  <2> QED
    BY <1>4, <2>6, <2>8, <2>9, <2>10, <2>11, <2>13 DEF IInv, Shape
<1> QED
  BY <1>5, <1>6

\* In which states of a request a body is discarded.
LEMMA DiscardsIn ==
  ASSUME IInv, fn = "discard"
  PROVE  \/ h \in Reads /\ LineState /\ c.rev.timedout = FALSE
         \/ h = "block" /\ BlockState
         \/ h = "body" /\ BodyState /\ r.length > 0
<1>1. c.open = TRUE /\ c.data = "request" /\ EvOK(c.rev)
  BY ServedIs DEF OfRequest
<1>2. BodyState => r.length > 0
  BY DEF BodyState
<1> QED
  BY <1>1, <1>2
  DEF IInv, Phase, LineState, BrokenState, DiscardState, LingeringState, Reads, EvOK

LEMMA DiscardBodyKeeps == IInv /\ DiscardBody => IInv'
<1> SUFFICES ASSUME IInv, DiscardBody PROVE IInv'
  OBVIOUS
<1>1. /\ fn = "discard" /\ env' = env /\ wire' = wire /\ room' = room /\ stat' = stat
  BY DEF DiscardBody, fn, env
<1>2. /\ c.open = TRUE /\ c.data = "request" /\ r.pool = TRUE /\ ConnOK /\ EnvOK
      /\ ReqOK /\ HcOK /\ Pointed /\ EvOK(c.rev) /\ EvOK(c.wev) /\ DOMAIN r = RFields
      /\ DOMAIN c = {"open", "data", "rev", "wev"} /\ r.at <= Len(hc.busy)
      /\ HeaderIn.pos \in Nat /\ Len(HeaderIn.data) \in Nat
      /\ Unread = Len(HeaderIn.data) - HeaderIn.pos /\ Unread \in Nat /\ r.length \in Int
  BY <1>1, ServedIs DEF OfRequest, ReqOK
<1>3. EnvOK' /\ sent' = sent /\ mode' = mode /\ Tokens_' = Tokens_ /\ \A n : Bufs(n)' = Bufs(n)
  BY <1>1, <1>2, EnvKeeps DEF EnvOK
\* The events when nothing is left to read.
<1>4. ASSUME c' = [c EXCEPT !.rev = DelTimer(@)], call' = [fn |-> "send", rc |-> "ok"],
             ~(h = "body"), ReqOK', HcOK', Pointed', r'.pool = TRUE,
             r'.reading = r.reading, r'.writing = r.writing, r'.buf = r.buf,
             r'.keepalive = r.keepalive, r'.lingering = r.lingering, r'.parsed = r.parsed
      PROVE  IInv'
  <2>1. /\ ConnOK' /\ c'.open = TRUE /\ c'.data = "request" /\ c'.wev = c.wev /\ h' = h
        /\ c'.rev.timer = FALSE /\ c'.rev.timedout = c.rev.timedout
        /\ c'.rev.active = c.rev.active /\ fn' = "send"
    BY <1>2, <1>4, AddTimerIs DEF ConnOK, h, fn
  <2>2. Begun' /\ Ended' /\ Writes' /\ Watched' /\ Counted'
    BY <1>1, <1>2, <1>3, <1>4, <2>1
    DEF IInv, Begun, Ended, Writes, Watched, Counted, OfRequest
  <2>3. Phase'
    BY <1>1, <1>4, <2>1, DiscardsIn DEF Phase, LineState, BlockState, Reads, OfRequest
  <2> QED
    BY <1>3, <1>4, <2>1, <2>2, <2>3 DEF IInv, Shape
<1>5. CASE r.length <= 0
  <2>1. /\ c' = [c EXCEPT !.rev = DelTimer(@)] /\ call' = [fn |-> "send", rc |-> "ok"]
        /\ hc' = hc /\ r' = r
    BY <1>5 DEF DiscardBody, Call
  <2>2. ReqOK' /\ HcOK' /\ Pointed'
    BY <1>1, <1>2, <2>1, Frame DEF EnvOK
  <2>3. ~(r.length > 0)
    BY <1>2, <1>5
  <2>4. ~(h = "body")
    BY <1>1, <2>3, DiscardsIn DEF Reads
  <2> QED
    BY <1>2, <1>4, <2>1, <2>2, <2>4
<1>6. CASE ~(r.length <= 0) /\ Unread >= r.length
  <2>1. /\ c' = [c EXCEPT !.rev = DelTimer(@)] /\ call' = [fn |-> "send", rc |-> "ok"]
        /\ Consume(HeaderIn.pos + r.length) /\ r' = [r EXCEPT !.length = 0]
    BY <1>6 DEF DiscardBody, Call
  <2>2. HeaderIn.pos + r.length \in 0 .. Len(HeaderIn.data)
    BY <1>2, <1>6
  <2>3. /\ ReqOK' /\ r'.at = r.at /\ r'.state = r.state /\ r'.old = r.old /\ r'.pool = TRUE
        /\ r'.reading = r.reading /\ r'.writing = r.writing /\ r'.buf = r.buf
        /\ r'.keepalive = r.keepalive /\ r'.lingering = r.lingering /\ r'.parsed = r.parsed
    BY <1>2, <1>3, <2>1 DEF ReqOK, RFields
  <2>4. HcOK' /\ r'.at <= Len(hc'.busy) /\ HeaderIn'.pos = HeaderIn.pos + r.length
    BY <1>2, <1>3, <2>1, <2>2, <2>3, ConsumeKeeps
  <2>5. Pointed'
    <3>1. r.state = "partial" => r.old \in Nat /\ r.old <= HeaderIn.pos
      BY <1>2 DEF Pointed, ReqOK
    <3>2. HeaderIn.pos <= HeaderIn.pos + r.length
      BY <1>2, <1>6
    <3>3. r.state = "partial" => r.old <= HeaderIn.pos + r.length
      BY <1>2, <3>1, <3>2
    <3> QED
      BY <2>3, <2>4, <3>3 DEF Pointed
  <2>6. ~(h = "body")
    BY <1>1, <1>2, <1>6, DiscardsIn DEF BodyState, Reads
  <2> QED
    BY <1>4, <2>1, <2>3, <2>4, <2>5, <2>6
<1>7. CASE ~(r.length <= 0) /\ ~(Unread >= r.length)
  <2> DEFINE ev == [c.rev EXCEPT !.handler = "discard"]
             rev == LevelHandled(DelTimer(ev))
             left == AfterPreRead
  <2>1. /\ c' = [c EXCEPT !.rev = rev] /\ call' = [fn |-> "read_discarded", rc |-> "ok"]
        /\ hc' = [hc EXCEPT !.unread = TRUE] /\ r' = [r EXCEPT !.length = left]
    BY <1>7 DEF DiscardBody, Call
  <2>2. /\ EvOK(ev) /\ ev.handler = "discard" /\ ev.timedout = c.rev.timedout
        /\ ev.active = c.rev.active
    BY <1>2 DEF EvOK, EvFields
  <2>3. left \in Int
    BY <1>2 DEF AfterPreRead
  <2> HIDE DEF ev, left
  <2>4. /\ EvOK(rev) /\ rev.handler = "discard" /\ rev.timer = FALSE
        /\ rev.timedout = c.rev.timedout
        /\ mode = "clear" /\ c.rev.active = TRUE => rev.active = TRUE
    <3> DEFINE untimed == DelTimer(ev)
    <3>1. /\ EvOK(untimed) /\ untimed.handler = "discard" /\ untimed.timer = FALSE
          /\ untimed.timedout = c.rev.timedout /\ untimed.active = c.rev.active
      BY <2>2, AddTimerIs
    <3> HIDE DEF untimed
    <3> QED
      BY <3>1, LevelIs DEF untimed
  <2> HIDE DEF rev
  <2>5. /\ ReqOK' /\ r'.at = r.at /\ r'.state = r.state /\ r'.old = r.old /\ r'.pool = TRUE
        /\ r'.reading = r.reading /\ r'.writing = r.writing
    BY <1>2, <1>3, <2>1, <2>3 DEF ReqOK, RFields
  <2>6. HcOK' /\ HeaderIn' = HeaderIn /\ hc'.busy = hc.busy
    BY <1>2, <1>3, <2>1, <2>5 DEF HcOK, HeaderIn
  <2>7. Pointed' /\ Unread' = Unread
    BY <1>2, <2>5, <2>6 DEF Pointed, Unread
  <2>8. /\ ConnOK' /\ c'.open = TRUE /\ c'.data = "request" /\ c'.wev = c.wev
        /\ c'.rev = rev /\ h' = "discard" /\ fn' = "read_discarded" /\ call'.rc = "ok"
    BY <1>2, <2>1, <2>4 DEF ConnOK, h, fn
  <2>9. Begun' /\ Ended' /\ Writes' /\ Watched' /\ Counted'
    BY <1>1, <1>2, <1>3, <2>4, <2>5, <2>8
    DEF IInv, Begun, Ended, Writes, Watched, Counted, OfRequest
  <2>10. c.rev.timedout = TRUE => Unread = 0
    BY <1>1, DiscardsIn DEF BodyState, BlockState
  <2>11. Phase'
    BY <2>4, <2>7, <2>8, <2>10 DEF Phase, DiscardState
  <2> QED
    BY <1>3, <2>5, <2>6, <2>7, <2>8, <2>9, <2>11 DEF IInv, Shape
<1> QED
  BY <1>5, <1>6, <1>7

LEMMA ReadDiscardedKeeps == IInv /\ ReadDiscarded => IInv'
<1> SUFFICES ASSUME IInv, ReadDiscarded PROVE IInv'
  OBVIOUS
<1> DEFINE n == Least(DiscardBuf, r.length)
           event == call.rc = "event"
           ev == AfterRecv(c.rev, n)
<1>1. /\ fn = "read_discarded" /\ env' = env /\ room' = room /\ stat' = stat /\ hc' = hc
  BY DEF ReadDiscarded, fn, env
<1>2. /\ c.open = TRUE /\ c.data = "request" /\ r.pool = TRUE /\ ConnOK /\ EnvOK
      /\ ReqOK /\ HcOK /\ Pointed /\ EvOK(c.rev) /\ EvOK(c.wev) /\ DOMAIN r = RFields
      /\ DOMAIN c = {"open", "data", "rev", "wev"} /\ r.length \in Int
      /\ sent \in Nat /\ wire \in Tokens_ /\ Len(wire) \in Nat
  <2>1. wire \in Tokens_ /\ ReqOK
    BY <1>1, ServedIs DEF OfRequest
  <2>2. Len(wire) \in Nat /\ r.length \in Int
    BY <2>1 DEF Tokens_, ReqOK
  <2> QED
    BY <1>1, <2>2, ServedIs DEF OfRequest
<1>3. h = "discard" /\ DiscardState
  BY <1>1, <1>2 DEF IInv, Phase, LineState, BlockState, BodyState, BrokenState,
     LingeringState, Reads
<1>4. /\ EvOK(ev) /\ ev.handler = h /\ ev.timer = c.rev.timer
      /\ ev.timedout = c.rev.timedout /\ ev.active = c.rev.active
      /\ EvOK(LevelHandled(ev)) /\ LevelHandled(ev).handler = h
      /\ LevelHandled(ev).timer = c.rev.timer /\ LevelHandled(ev).timedout = c.rev.timedout
      /\ mode = "clear" /\ c.rev.active = TRUE => LevelHandled(ev).active = TRUE
  <2>1. /\ EvOK(ev) /\ ev.handler = h /\ ev.timer = c.rev.timer
        /\ ev.timedout = c.rev.timedout /\ ev.active = c.rev.active
    BY <1>2, AfterRecvIs DEF h
  <2> HIDE DEF ev
  <2> QED
    BY <2>1, LevelIs
\* What is done with the event and the request, and the function that is next.
<1>5. /\ \/ c' = c
         \/ c' = [c EXCEPT !.rev = ev]
         \/ c' = [c EXCEPT !.rev = LevelHandled(ev)]
      /\ r' = r \/ r' = [r EXCEPT !.length = r.length - Len(Received(n))]
      /\ wire' = wire \/ (r.length > 0 /\ Taken(n))
      /\ \/ event /\ call' = [fn |-> "none", rc |-> "ok"]
         \/ event /\ call' = [fn |-> "close", rc |-> "ok"]
         \/ ~event /\ call' = [fn |-> "send", rc |-> "ok"]
  BY DEF ReadDiscarded, Discarding, AfterDiscard, Call, Return
<1> HIDE DEF event, ev
<1>6. r.length > 0 => n \in Nat
  BY <1>2 DEF Least, DiscardBuf
<1>7. wire' \in Tokens_
  BY <1>2, <1>5, <1>6, RecvIs DEF Taken
<1>8. EnvOK' /\ sent' = sent /\ mode' = mode /\ Tokens_' = Tokens_
  BY <1>1, <1>2, <1>7, EnvKeeps DEF EnvOK
<1>9. r' = r \/ (r.length > 0 /\ r' = [r EXCEPT !.length = r.length - Len(Received(n))])
  BY <1>5 DEF ReadDiscarded, Discarding
<1>10. r.length > 0 => r.length - Len(Received(n)) \in Int
  BY <1>2, <1>6, RecvIs DEF Least
<1> HIDE DEF n
<1>11. /\ ReqOK' /\ r'.at = r.at /\ r'.state = r.state /\ r'.old = r.old /\ r'.pool = TRUE
       /\ r'.reading = r.reading /\ r'.writing = r.writing
  BY <1>2, <1>8, <1>9, <1>10 DEF ReqOK, RFields
<1>12. HcOK' /\ HeaderIn' = HeaderIn
  BY <1>1, <1>2, <1>8, <1>11, SameBuffers
<1>13. Pointed' /\ Unread' = Unread
  BY <1>1, <1>2, <1>11, <1>12 DEF Pointed, Unread
<1>14. /\ ConnOK' /\ c'.open = TRUE /\ c'.data = "request" /\ c'.wev = c.wev
       /\ h' = "discard" /\ c'.rev.timer = c.rev.timer /\ c'.rev.timedout = c.rev.timedout
       /\ mode = "clear" /\ c.rev.active = TRUE => c'.rev.active = TRUE
  BY <1>2, <1>3, <1>4, <1>5 DEF ConnOK, h
<1>15. /\ fn' \in {"none", "close", "send"}
       /\ fn' = "none" => call.rc = "event"
  BY <1>5 DEF fn, event
<1>16. Begun' /\ Ended' /\ Writes' /\ Watched' /\ Counted'
  BY <1>1, <1>2, <1>8, <1>11, <1>14, <1>15
  DEF IInv, Begun, Ended, Writes, Watched, Counted, OfRequest
<1>17. Phase'
  BY <1>3, <1>13, <1>14, <1>15 DEF Phase, DiscardState
<1> QED
  BY <1>8, <1>11, <1>12, <1>13, <1>14, <1>16, <1>17 DEF IInv, Shape

\* The buffer of the body has room, and its full contents are in the file.
LEMMA SavedIs ==
  ASSUME ReqOK
  PROVE  /\ Saved(r).buf \in Tokens_ /\ Len(Saved(r).buf) <= r.cap
         /\ Saved(r).buf = r.buf \/ Saved(r).buf = <<>>
         /\ Saved(r).cap = r.cap /\ Saved(r).rest = r.rest
         /\ Least(Saved(r).cap - Len(Saved(r).buf), Saved(r).rest) \in Nat
         /\ Len(Saved(r).buf) + Least(Saved(r).cap - Len(Saved(r).buf), Saved(r).rest) <= r.cap
         /\ Least(Saved(r).cap - Len(Saved(r).buf), Saved(r).rest) <= r.rest
         /\ DOMAIN Saved(r) = RFields
         /\ \A f \in RFields \ {"buf", "file"} : Saved(r)[f] = r[f]
<1>1. /\ DOMAIN r = RFields /\ r.cap \in Nat /\ r.rest \in Nat /\ r.buf \in Tokens_
      /\ Len(r.buf) <= r.cap /\ <<>> \in Tokens_ /\ Len(<<>>) = 0
  BY DEF ReqOK, Tokens_
<1> DEFINE file == r.file \o r.buf
<1>2. Saved(r) = IF Len(r.buf) = r.cap THEN [r EXCEPT !.file = file, !.buf = <<>>] ELSE r
  BY DEF Saved
<1> HIDE DEF file
<1>3. /\ Saved(r).buf \in Tokens_ /\ Len(Saved(r).buf) <= r.cap
      /\ Saved(r).buf = r.buf \/ Saved(r).buf = <<>>
      /\ Saved(r).cap = r.cap /\ Saved(r).rest = r.rest
      /\ DOMAIN Saved(r) = RFields
  BY <1>1, <1>2 DEF RFields
<1>4. \A f \in RFields \ {"buf", "file"} : Saved(r)[f] = r[f]
  BY <1>1, <1>2 DEF RFields
<1>5. Len(Saved(r).buf) \in Nat
  BY <1>3 DEF Tokens_
<1> QED
  BY <1>1, <1>3, <1>4, <1>5 DEF Least

LEMMA DoReadBodyKeeps == IInv /\ DoReadBody => IInv'
<1> SUFFICES ASSUME IInv, DoReadBody PROVE IInv'
  OBVIOUS
<1> DEFINE q == Saved(r)
           n == Least(q.cap - Len(q.buf), q.rest)
           ev == AfterRecv(c.rev, n)
           got == Received(n)
           t == [q EXCEPT !.buf = @ \o got, !.rest = @ - Len(got)]
<1>1. /\ fn = "body" /\ env' = env /\ room' = room /\ stat' = stat /\ hc' = hc
      /\ ~(call.rc = "event" /\ c.rev.timedout)
  BY DEF DoReadBody, fn, env
<1>2. /\ c.open = TRUE /\ c.data = "request" /\ r.pool = TRUE /\ ConnOK /\ EnvOK
      /\ ReqOK /\ HcOK /\ Pointed /\ EvOK(c.rev) /\ EvOK(c.wev) /\ DOMAIN r = RFields
      /\ DOMAIN c = {"open", "data", "rev", "wev"} /\ sent \in Nat /\ wire \in Tokens_
  BY <1>1, ServedIs DEF OfRequest
<1>3. h = "body" /\ BodyState /\ c.rev.timedout = FALSE /\ r.length > 0
  <2>1. h = "body" /\ BodyState
    BY <1>1, <1>2 DEF IInv, Phase, LineState, BlockState, BrokenState, DiscardState,
       LingeringState, Reads
  <2> QED
    BY <1>1, <1>2, <2>1 DEF BodyState, EvOK
<1>4. /\ q.buf \in Tokens_ /\ Len(q.buf) <= r.cap /\ Len(q.buf) \in Nat
      /\ q.cap = r.cap /\ q.rest = r.rest /\ n \in Nat /\ Len(q.buf) + n <= r.cap
      /\ n <= r.rest /\ DOMAIN q = RFields
      /\ \A f \in RFields \ {"buf", "file"} : q[f] = r[f]
  <2>1. q.buf \in Tokens_
    BY <1>2, SavedIs
  <2>2. Len(q.buf) \in Nat
    BY <2>1 DEF Tokens_
  <2> QED
    BY <1>2, <2>2, SavedIs
<1>5. /\ EvOK(ev) /\ ev.handler = h /\ ev.timedout = FALSE /\ ev.active = c.rev.active
  BY <1>2, <1>3, AfterRecvIs DEF h
<1> DEFINE rev == Handled(AddTimer(ev))
<1> HIDE DEF ev
<1>6. /\ EvOK(rev) /\ rev.handler = h /\ rev.timedout = FALSE
      /\ mode = "clear" /\ c.rev.active = TRUE => rev.active = TRUE
  <2> DEFINE timed == AddTimer(ev)
  <2>1. /\ EvOK(timed) /\ timed.handler = h /\ timed.timedout = FALSE
        /\ timed.active = c.rev.active
    BY <1>5, AddTimerIs
  <2> HIDE DEF timed
  <2> QED
    BY <2>1, LevelIs DEF timed
<1>7. \/ /\ r' = q /\ wire' = wire /\ c' = [c EXCEPT !.rev = rev]
         /\ call' = [fn |-> "none", rc |-> "ok"]
      \/ /\ r' = [q EXCEPT !.closed = TRUE] /\ wire' = wire /\ c' = c
         /\ call' = [fn |-> "finalize", rc |-> "bad"]
      \/ /\ r' = t /\ Taken(n) /\ c' = [c EXCEPT !.rev = ev]
         /\ \/ call' = [fn |-> "upstream", rc |-> "ok"]
            \/ call' = [fn |-> "none", rc |-> "ok"]
            \/ call' = [fn |-> "body", rc |-> "ok"]
  BY DEF DoReadBody, Call, CallWith, Return, ev
<1> HIDE DEF q, n, rev, got
<1>8. /\ q.buf \o got \in Tokens_ /\ Len(q.buf \o got) <= r.cap
      /\ r.rest - Len(got) \in Nat
  <2>1. q.buf \o got \in Tokens_ /\ Len(q.buf \o got) \in Len(q.buf) .. Len(q.buf) + n
    BY <1>2, <1>4, FilledIs DEF got
  <2> DEFINE len == Len(q.buf \o got)
  <2>2. r.cap \in Nat /\ r.rest \in Nat
    BY <1>2 DEF ReqOK
  <2> HIDE DEF len
  <2>3. len \in Len(q.buf) .. Len(q.buf) + n
    BY <2>1 DEF len
  <2>4. len <= r.cap
    BY <1>4, <2>2, <2>3
  <2>5. Len(got) = Least(n, Len(wire))
    BY <1>2, <1>4, RecvIs DEF got
  <2>6. Len(wire) \in Nat
    BY <1>2 DEF Tokens_
  <2>7. Len(got) \in 0 .. n
    BY <1>4, <2>5, <2>6 DEF Least
  <2>8. r.rest - Len(got) \in Nat
    BY <1>4, <2>2, <2>7
  <2> QED
    BY <2>1, <2>4, <2>8 DEF len
<1>9. wire' \in Tokens_
  <2>1. wire' = wire \/ Taken(n)
    BY <1>7
  <2> QED
    BY <1>2, <1>4, <2>1, RecvIs DEF Taken
<1>10. EnvOK' /\ sent' = sent /\ mode' = mode /\ Tokens_' = Tokens_
  BY <1>1, <1>2, <1>9, EnvKeeps DEF EnvOK
\* Whatever was read, the request stays one that reads its body.
<1>11. /\ ReqOK' /\ r'.at = r.at /\ r'.state = r.state /\ r'.old = r.old /\ r'.pool = TRUE
       /\ r'.reading = r.reading /\ r'.writing = r.writing /\ r'.length = r.length
  <2>1. /\ q.pool = TRUE /\ q.at = r.at /\ q.state = r.state /\ q.old = r.old
        /\ q.parsed = r.parsed /\ q.length = r.length /\ q.keepalive = r.keepalive
        /\ q.lingering = r.lingering /\ q.closed = r.closed /\ q.reading = r.reading
        /\ q.writing = r.writing /\ q.out = r.out
    BY <1>2, <1>4 DEF RFields
  <2>2. CASE r' = q
    BY <1>2, <1>4, <1>10, <2>1, <2>2 DEF ReqOK
  <2>3. CASE r' = [q EXCEPT !.closed = TRUE]
    BY <1>2, <1>4, <1>10, <2>1, <2>3 DEF ReqOK, RFields
  <2>4. CASE r' = t
    <3> DEFINE buf == q.buf \o got
               rest == q.rest - Len(got)
    <3>1. r' = [q EXCEPT !.buf = buf, !.rest = rest]
      BY <1>4, <2>4 DEF RFields
    <3>2. buf \in Tokens_ /\ Len(buf) <= r.cap /\ rest \in Nat
      BY <1>4, <1>8
    <3> HIDE DEF buf, rest
    <3> QED
      BY <1>2, <1>4, <1>10, <2>1, <3>1, <3>2 DEF ReqOK, RFields
  <2> QED
    BY <1>7, <2>2, <2>3, <2>4
<1>12. HcOK' /\ HeaderIn' = HeaderIn
  BY <1>1, <1>2, <1>10, <1>11, SameBuffers
<1>13. Pointed' /\ Unread' = Unread
  BY <1>1, <1>2, <1>11, <1>12 DEF Pointed, Unread
<1> HIDE DEF t
<1>14. /\ ConnOK' /\ c'.open = TRUE /\ c'.data = "request" /\ c'.wev = c.wev
       /\ h' = "body" /\ c'.rev.timedout = FALSE
       /\ mode = "clear" /\ c.rev.active = TRUE => c'.rev.active = TRUE
  BY <1>2, <1>3, <1>5, <1>6, <1>7 DEF ConnOK, h
<1>15. \/ fn' \in {"none", "upstream", "body"}
       \/ fn' = "finalize" /\ call'.rc = "bad" /\ r'.closed = TRUE
  BY <1>4, <1>7 DEF fn, RFields
<1>16. Begun' /\ Ended' /\ Writes' /\ Watched' /\ Counted'
  BY <1>1, <1>2, <1>3, <1>10, <1>11, <1>14, <1>15
  DEF IInv, Begun, Ended, Writes, Watched, Counted, OfRequest, BodyState
<1>17. Phase'
  BY <1>3, <1>11, <1>13, <1>14, <1>15 DEF Phase, BodyState
<1> QED
  BY <1>10, <1>11, <1>12, <1>13, <1>14, <1>16, <1>17 DEF IInv, Shape

-----------------------------------------------------------------------------
(* The response and the end of a request.                                  *)

LEMMA SendKeeps == IInv /\ Send => IInv'
<1> SUFFICES ASSUME IInv, Send PROVE IInv'
  OBVIOUS
<1> DEFINE out == IF call.fn = "send" THEN Least(r.out + Response, MaxOut) ELSE r.out
           n == IF c.wev.ready THEN Least(out, room) ELSE 0
           headers == IF call.fn = "send" THEN Least(r.headers + 1, MaxHeaders) ELSE r.headers
           left == out - n
<1>1. /\ fn \in {"send", "writer"} /\ env' = env /\ wire' = wire /\ stat' = stat /\ hc' = hc
      /\ r' = [r EXCEPT !.out = left, !.headers = headers] /\ room' = room - n
      /\ \/ call' = [fn |-> "finalize", rc |-> "error"] /\ c' = c
         \/ call' = [fn |-> "finalize", rc |-> "ok"] /\ c' = c
         \/ call' = [fn |-> "finalize", rc |-> "again"] /\ c' = [c EXCEPT !.wev.ready = FALSE]
  BY DEF Send, fn, env, CallWith
<1>2. /\ c.open = TRUE /\ c.data = "request" /\ r.pool = TRUE /\ ConnOK /\ EnvOK
      /\ ReqOK /\ HcOK /\ Pointed /\ EvOK(c.rev) /\ EvOK(c.wev) /\ DOMAIN r = RFields
      /\ DOMAIN c = {"open", "data", "rev", "wev"} /\ wire \in Tokens_
  BY <1>1, ServedIs DEF OfRequest
<1>3. out \in Nat
  BY <1>2, Sizes DEF Least, MaxOut, ReqOK
<1>4. room \in Nat /\ room <= Room /\ Room \in Nat
  BY <1>2, Sizes DEF EnvOK
<1> HIDE DEF out, headers
<1>5. n \in 0 .. room /\ left \in Nat
  BY <1>3, <1>4 DEF Least
<1> HIDE DEF n, left
<1>6. EnvOK' /\ sent' = sent /\ mode' = mode /\ Tokens_' = Tokens_
  <2>1. room' \in 0 .. Room
    BY <1>1, <1>4, <1>5
  <2> QED
    BY <1>1, <1>2, <2>1, EnvKeeps
<1>7. /\ ReqOK' /\ r'.at = r.at /\ r'.state = r.state /\ r'.old = r.old /\ r'.pool = TRUE
      /\ r'.reading = r.reading /\ r'.writing = r.writing /\ r'.buf = r.buf
      /\ r'.keepalive = r.keepalive /\ r'.lingering = r.lingering /\ r'.parsed = r.parsed
  BY <1>1, <1>2, <1>5, <1>6 DEF ReqOK, RFields
<1>8. HcOK' /\ HeaderIn' = HeaderIn
  BY <1>1, <1>2, <1>6, <1>7, SameBuffers
<1>9. Pointed' /\ Unread' = Unread
  BY <1>1, <1>2, <1>7, <1>8 DEF Pointed, Unread
<1>10. /\ ConnOK' /\ c'.open = TRUE /\ c'.data = "request" /\ c'.rev = c.rev /\ h' = h
       /\ c'.wev.handler = c.wev.handler /\ c'.wev.timer = c.wev.timer
       /\ fn' = "finalize" /\ call'.rc \in {"ok", "error", "again"}
  <2>1. /\ DOMAIN call' = {"fn", "rc"}
        /\ fn' = "finalize" /\ call'.rc \in {"ok", "error", "again"}
    BY <1>1 DEF fn
  <2>2. CASE c' = c
    BY <1>2, <2>1, <2>2 DEF ConnOK, h
  <2>3. CASE c' = [c EXCEPT !.wev.ready = FALSE]
    BY <1>2, <2>1, <2>3 DEF ConnOK, EvOK, EvFields, h
  <2> QED
    BY <1>1, <2>2, <2>3
<1>11. Begun' /\ Ended' /\ Writes' /\ Watched' /\ Counted'
  BY <1>1, <1>2, <1>6, <1>7, <1>10
  DEF IInv, Begun, Ended, Writes, Watched, Counted, OfRequest
<1>12. Phase'
  BY <1>1, <1>2, <1>7, <1>9, <1>10 DEF IInv, Phase, LineState, BlockState, BodyState, BrokenState,
     DiscardState, LingeringState, Reads, OfRequest
<1> QED
  BY <1>6, <1>7, <1>8, <1>9, <1>10, <1>11, <1>12 DEF IInv, Shape

LEMMA FinalizeSpecialKeeps == IInv /\ FinalizeSpecial => IInv'
<1> SUFFICES ASSUME IInv, FinalizeSpecial PROVE IInv'
  OBVIOUS
<1> DEFINE keepalive == r.keepalive /\ call.rc \notin {"bad", "too_long"}
           lingering == r.lingering /\ call.rc # "bad"
<1>1. /\ fn = "finalize" /\ call.rc \in Special
      /\ env' = env /\ wire' = wire /\ room' = room /\ stat' = stat /\ hc' = hc
      /\ c' = [c EXCEPT !.rev = DelTimer(@), !.wev = DelTimer(@)]
      /\ \/ /\ r.closed \/ call.rc = "closed"
            /\ call' = [fn |-> "close", rc |-> "ok"] /\ r' = r
         \/ /\ ~(r.closed \/ call.rc = "closed")
            /\ call' = [fn |-> "discard", rc |-> "send"]
            /\ r' = [r EXCEPT !.keepalive = keepalive, !.lingering = lingering]
  BY DEF FinalizeSpecial, fn, env, Call, CallWith
<1>2. /\ c.open = TRUE /\ c.data = "request" /\ r.pool = TRUE /\ ConnOK /\ EnvOK
      /\ ReqOK /\ HcOK /\ Pointed /\ EvOK(c.rev) /\ EvOK(c.wev) /\ DOMAIN r = RFields
      /\ DOMAIN c = {"open", "data", "rev", "wev"}
  BY <1>1, ServedIs DEF OfRequest
<1>3. EnvOK' /\ sent' = sent /\ mode' = mode /\ Tokens_' = Tokens_
  BY <1>1, <1>2, EnvKeeps DEF EnvOK
<1>4. /\ keepalive \in BOOLEAN /\ lingering \in BOOLEAN
      /\ r.keepalive = FALSE => keepalive = FALSE
      /\ r.lingering = FALSE => lingering = FALSE
  OBVIOUS
<1> HIDE DEF keepalive, lingering
<1>5. /\ ReqOK' /\ r'.at = r.at /\ r'.state = r.state /\ r'.old = r.old /\ r'.pool = TRUE
      /\ r'.reading = r.reading /\ r'.writing = r.writing /\ r'.buf = r.buf
      /\ r'.parsed = r.parsed /\ r'.length = r.length
      /\ r.keepalive = FALSE => r'.keepalive = FALSE
      /\ r.lingering = FALSE => r'.lingering = FALSE
  <2>1. CASE r' = r
    BY <1>2, <1>3, <2>1 DEF ReqOK
  <2>2. CASE r' = [r EXCEPT !.keepalive = keepalive, !.lingering = lingering]
    BY <1>2, <1>3, <1>4, <2>2 DEF ReqOK, RFields
  <2> QED
    BY <1>1, <2>1, <2>2
<1>6. HcOK' /\ HeaderIn' = HeaderIn
  BY <1>1, <1>2, <1>3, <1>5, SameBuffers
<1>7. Pointed' /\ Unread' = Unread
  BY <1>1, <1>2, <1>5, <1>6 DEF Pointed, Unread
<1>8. /\ ConnOK' /\ c'.open = TRUE /\ c'.data = "request" /\ h' = h
      /\ c'.rev.timer = FALSE /\ c'.rev.timedout = c.rev.timedout
      /\ c'.rev.active = c.rev.active /\ c'.wev.timer = FALSE
      /\ c'.wev.handler = c.wev.handler
      /\ \/ fn' = "close"
         \/ fn' = "discard" /\ call.rc # "closed" /\ ~r.closed
  <2>1. DOMAIN call' = {"fn", "rc"}
    BY <1>1
  <2>2. \/ fn' = "close"
        \/ fn' = "discard" /\ call.rc # "closed" /\ ~r.closed
    BY <1>1 DEF fn
  <2> DEFINE rev == DelTimer(c.rev)
             wev == DelTimer(c.wev)
  <2>3. /\ EvOK(rev) /\ rev.handler = h /\ rev.timer = FALSE
        /\ rev.timedout = c.rev.timedout /\ rev.active = c.rev.active
        /\ EvOK(wev) /\ wev.timer = FALSE /\ wev.handler = c.wev.handler
    BY <1>2, AddTimerIs DEF h
  <2>4. c' = [c EXCEPT !.rev = rev, !.wev = wev]
    BY <1>1
  <2> HIDE DEF rev, wev
  <2> QED
    BY <1>2, <2>1, <2>2, <2>3, <2>4 DEF ConnOK, h
<1>9. Begun' /\ Ended' /\ Writes' /\ Watched' /\ Counted'
  BY <1>1, <1>2, <1>3, <1>5, <1>8
  DEF IInv, Begun, Ended, Writes, Watched, Counted, OfRequest
<1>10. Phase'
  <2>1. CASE h \in Reads
    <3>1. LineState
      BY <1>2, <2>1 DEF IInv, Phase, Reads
    <3>2. c.rev.timedout = FALSE
      BY <1>1, <1>2, <2>1, <3>1 DEF LineState, EvOK, Reads
    <3> QED
      BY <1>1, <1>5, <1>8, <2>1, <3>1, <3>2 DEF Phase, LineState, Reads
  <2>2. CASE h \notin Reads
    BY <1>1, <1>2, <1>5, <1>7, <1>8, <2>2 DEF IInv, Phase, BlockState, BodyState, BrokenState,
       DiscardState, LingeringState, OfRequest, Special
  <2> QED
    BY <2>1, <2>2
<1> QED
  BY <1>3, <1>5, <1>6, <1>7, <1>8, <1>9, <1>10 DEF IInv, Shape

LEMMA CloseConnectionKeeps == IInv /\ CloseConnection => IInv'
<1> SUFFICES ASSUME IInv, CloseConnection PROVE IInv'
  OBVIOUS
<1>1. /\ fn \in {"close", "close_connection"} /\ env' = env /\ wire' = <<>> /\ room' = room
      /\ hc' = hc /\ call' = [fn |-> "none", rc |-> "ok"]
      /\ c' = [open |-> FALSE, data |-> "none", rev |-> NoEvent, wev |-> NoEvent]
      /\ IF fn = "close" THEN r' = Closed(r) /\ Unstat ELSE r' = r /\ stat' = stat
  BY DEF CloseConnection, fn, env, Return, Call
<1>2. ConnOK /\ EnvOK /\ ReqOK /\ HcOK /\ Pointed /\ DOMAIN r = RFields
  BY DEF IInv, Shape, ReqOK
<1>3. /\ stat' \in [reading : Int, writing : Int] /\ stat'.reading = 0 /\ stat'.writing = 0
      /\ r'.pool = FALSE /\ r'.reading = FALSE /\ r'.writing = FALSE
      /\ ReqOK' /\ EnvOK' /\ r'.at = r.at
  <2>1. CASE fn = "close"
    <3>1. c.open = TRUE /\ c.data = "request"
      BY <2>1, RequestIs DEF OfRequest
    <3>2. /\ stat.reading = IF r.reading = TRUE THEN 1 ELSE 0
          /\ stat.writing = IF r.writing = TRUE THEN 1 ELSE 0
          /\ r.reading \in BOOLEAN /\ r.writing \in BOOLEAN
      BY <1>2, <3>1 DEF IInv, Counted, ReqOK
    <3>3. /\ stat' = [ reading |-> stat.reading - (IF r.reading THEN 1 ELSE 0),
                       writing |-> stat.writing - (IF r.writing THEN 1 ELSE 0) ]
          /\ r' = [r EXCEPT !.pool = FALSE, !.reading = FALSE, !.writing = FALSE]
      BY <1>1, <2>1 DEF Unstat, Closed
    <3>4. /\ stat'.reading = 0 /\ stat'.writing = 0 /\ DOMAIN stat' = {"reading", "writing"}
          /\ stat' \in [reading : Int, writing : Int]
      BY <3>2, <3>3
    <3>5. <<>> \in Tokens_ /\ DOMAIN stat = {"reading", "writing"} /\ room \in 0 .. Room
      BY <1>2 DEF Tokens_, EnvOK
    <3>6. EnvOK' /\ Tokens_' = Tokens_
      BY <1>1, <1>2, <3>4, <3>5, EnvKeeps
    <3> QED
      BY <1>2, <3>3, <3>4, <3>5, <3>6 DEF ReqOK, RFields
  <2>2. CASE fn = "close_connection"
    <3>1. r' = r /\ stat' = stat /\ r.pool = FALSE
      BY <1>1, <2>2 DEF IInv, Begun, OfRequest
    <3>2. /\ stat.reading = 0 /\ stat.writing = 0 /\ r.reading = FALSE /\ r.writing = FALSE
          /\ stat \in [reading : Int, writing : Int]
      BY <2>2, <3>1 DEF IInv, Counted
    <3>3. <<>> \in Tokens_ /\ room \in 0 .. Room
      BY <1>2 DEF Tokens_, EnvOK
    <3>4. EnvOK' /\ Tokens_' = Tokens_
      BY <1>1, <1>2, <3>1, <3>3, EnvKeeps
    <3> QED
      BY <1>2, <3>1, <3>2, <3>4 DEF ReqOK
  <2> QED
    BY <1>1, <2>1, <2>2
<1>4. /\ sent' = sent /\ HcOK' /\ Pointed'
  BY <1>1, <1>2, <1>3, SameBuffers DEF env, Pointed
<1>5. ConnOK' /\ c'.open = FALSE /\ c'.wev.timer = FALSE /\ c'.wev.handler = "empty" /\ fn' = "none"
  BY <1>1 DEF ConnOK, EvOK, EvFields, NoEvent, fn
<1>6. Begun' /\ Ended' /\ Writes' /\ Watched' /\ Counted' /\ Phase'
  BY <1>3, <1>5 DEF Begun, Ended, Writes, Watched, Counted, Phase
<1> QED
  BY <1>3, <1>4, <1>5, <1>6 DEF IInv, Shape

LEMMA SetKeepaliveKeeps == IInv /\ SetKeepalive => IInv'
<1> SUFFICES ASSUME IInv, SetKeepalive PROVE IInv'
  OBVIOUS
<1> DEFINE rev == LevelHandled(AddTimer(c.rev))
           wev == WevEmptied(c.wev)
           idle == IF mode = "level" THEN [wev EXCEPT !.active = FALSE] ELSE wev
           busy == IF r.at = 0 THEN hc.busy ELSE <<HeaderIn>>
           nfree == IF r.at = 0 THEN hc.nfree ELSE hc.nfree + Len(hc.busy) - 1
<1>1. /\ fn = "set_keepalive" /\ env' = env /\ wire' = wire /\ room' = room
      /\ r' = [r EXCEPT !.pool = FALSE, !.reading = FALSE, !.writing = FALSE] /\ Unstat
  BY DEF SetKeepalive, fn, env, Closed
<1>2. /\ c.open = TRUE /\ c.data = "request" /\ r.pool = TRUE /\ ConnOK /\ EnvOK
      /\ ReqOK /\ HcOK /\ EvOK(c.rev) /\ EvOK(c.wev) /\ DOMAIN r = RFields
      /\ DOMAIN c = {"open", "data", "rev", "wev"} /\ DOMAIN stat = {"reading", "writing"}
      /\ r.at <= Len(hc.busy) /\ HeaderIn \in Bufs(Capacity) /\ Unread \in Nat
      /\ HeaderIn.data \in Tokens_ /\ HeaderIn.pos \in Nat
      /\ HeaderIn.pos <= Len(HeaderIn.data)
  BY <1>1, ServedIs DEF OfRequest
<1>3. /\ c.rev.timedout = TRUE => Unread = 0
      /\ c.wev.timer = FALSE
  BY <1>1, <1>2 DEF IInv, Phase, LineState, BlockState, BodyState, BrokenState, DiscardState,
     LingeringState, Reads, Ended, OfRequest
<1>4. /\ EvOK(rev) /\ rev.handler = h /\ rev.timer = TRUE /\ rev.timedout = c.rev.timedout
      /\ mode = "clear" /\ c.rev.active = TRUE => rev.active = TRUE
  <2> DEFINE ev == AddTimer(c.rev)
  <2>1. /\ EvOK(ev) /\ ev.handler = h /\ ev.timer = TRUE /\ ev.timedout = c.rev.timedout
        /\ ev.active = c.rev.active
    BY <1>2, AddTimerIs DEF h
  <2> HIDE DEF ev
  <2> QED
    BY <2>1, LevelIs DEF ev
<1>5. /\ EvOK(wev) /\ wev.handler = "empty" /\ wev.timer = FALSE
      /\ EvOK(idle) /\ idle.handler = "empty" /\ idle.timer = FALSE
  BY <1>2, <1>3 DEF EvOK, EvFields, WevEmptied
<1>6. /\ stat'.reading = 0 /\ stat'.writing = 0 /\ DOMAIN stat' = {"reading", "writing"}
      /\ stat' \in [reading : Int, writing : Int]
  <2>1. /\ stat.reading = IF r.reading = TRUE THEN 1 ELSE 0
        /\ stat.writing = IF r.writing = TRUE THEN 1 ELSE 0
        /\ r.reading \in BOOLEAN /\ r.writing \in BOOLEAN
    BY <1>2 DEF IInv, Counted, ReqOK
  <2>2. stat' = [ reading |-> stat.reading - (IF r.reading THEN 1 ELSE 0),
                  writing |-> stat.writing - (IF r.writing THEN 1 ELSE 0) ]
    BY <1>1 DEF Unstat
  <2> QED
    BY <2>1, <2>2
<1>7. /\ EnvOK' /\ sent' = sent /\ mode' = mode /\ Tokens_' = Tokens_
      /\ \A n : Bufs(n)' = Bufs(n)
  BY <1>1, <1>2, <1>6, EnvKeeps DEF EnvOK
<1>8. /\ ReqOK' /\ Pointed' /\ r'.pool = FALSE /\ r'.reading = FALSE /\ r'.writing = FALSE
  BY <1>1, <1>2, <1>7 DEF ReqOK, RFields, Pointed
<1> HIDE DEF rev, wev, idle
<1>9. CASE Unread > 0
  <2>1. /\ hc' = [hc EXCEPT !.pipeline = TRUE, !.busy = busy, !.nfree = nfree]
        /\ c' = [c EXCEPT !.data = "hc", !.rev = rev, !.wev = wev]
        /\ call' = [fn |-> "init_request", rc |-> "ok"]
    BY <1>9 DEF SetKeepalive, Freed, Call, rev, wev
  <2>2. /\ hc.busy \in Seq(Bufs(Large)) /\ hc.nfree \in Nat /\ Num \in Nat
        /\ Len(hc.busy) \in Nat /\ Len(hc.busy) + hc.nfree <= Num
        /\ DOMAIN hc = {"buffer", "busy", "nfree", "pipeline", "unread"}
        /\ hc.buffer \in Bufs(Small)
    BY <1>2, Sizes, LenProperties DEF HcOK
  <2>3. busy \in Seq(Bufs(Large)) /\ nfree \in Nat /\ Len(busy) + nfree <= Num
    <3>1. CASE r.at = 0
      BY <2>2, <3>1
    <3>2. CASE r.at # 0
      <4>1. Len(hc.busy) >= 1
        BY <1>2, <2>2, <3>2 DEF ReqOK
      <4>2. HeaderIn \in Bufs(Large)
        BY <1>2, <3>2 DEF Capacity
      <4>3. <<HeaderIn>> \in Seq(Bufs(Large)) /\ Len(<<HeaderIn>>) = 1
        BY <4>2
      <4> QED
        BY <2>2, <3>2, <4>1, <4>3
    <3> QED
      BY <3>1, <3>2
  <2> HIDE DEF busy, nfree
  <2>4. HcOK'
    BY <1>7, <2>1, <2>2, <2>3 DEF HcOK
  <2>5. /\ ConnOK' /\ c'.open = TRUE /\ c'.data = "hc" /\ c'.rev = rev /\ c'.wev = wev
        /\ fn' = "init_request"
    BY <1>2, <1>4, <1>5, <2>1 DEF ConnOK, fn
  <2>6. c.rev.timedout = FALSE
    BY <1>2, <1>3, <1>9 DEF EvOK
  <2>7. Begun' /\ Ended' /\ Writes' /\ Watched' /\ Counted' /\ Phase'
    BY <1>1, <1>2, <1>4, <1>5, <1>6, <1>7, <1>8, <2>5, <2>6
    DEF IInv, Begun, Ended, Writes, Watched, Counted, Phase
  <2> QED
    BY <1>7, <1>8, <2>4, <2>5, <2>7 DEF IInv, Shape
<1>10. CASE ~(Unread > 0)
  <2>1. /\ hc' = [hc EXCEPT !.pipeline = FALSE, !.buffer = Empty, !.busy = <<>>, !.nfree = 0]
        /\ c' = [c EXCEPT !.data = "hc", !.rev = [rev EXCEPT !.handler = "keepalive"],
                   !.wev = idle]
        /\ call' = [fn |-> IF rev.ready THEN "keepalive" ELSE "none", rc |-> "ok"]
    BY <1>10 DEF SetKeepalive, Call, rev, wev, idle
  <2>2. HcOK'
    <3>1. /\ DOMAIN hc' = DOMAIN hc /\ hc'.buffer = Empty /\ hc'.busy = <<>> /\ hc'.nfree = 0
      BY <1>2, <2>1 DEF HcOK
    <3>2. <<>> \in Seq(Bufs(Large)) /\ Len(<<>>) = 0 /\ Num \in Nat
      BY Sizes
    <3> QED
      BY <1>2, <1>7, <3>1, <3>2, EmptyBuf DEF HcOK
  <2>3. /\ ConnOK' /\ c'.open = TRUE /\ c'.data = "hc" /\ c'.wev = idle
        /\ h' = "keepalive" /\ c'.rev.timer = TRUE
        /\ mode = "clear" /\ c.rev.active = TRUE => c'.rev.active = TRUE
        /\ fn' \in {"none", "keepalive"}
    BY <1>2, <1>4, <1>5, <2>1 DEF ConnOK, EvOK, EvFields, h, fn
  <2>4. Begun' /\ Ended' /\ Writes' /\ Watched' /\ Counted' /\ Phase'
    BY <1>1, <1>2, <1>5, <1>6, <1>7, <1>8, <2>3
    DEF IInv, Begun, Ended, Writes, Watched, Counted, Phase
  <2> QED
    BY <1>7, <1>8, <2>2, <2>3, <2>4 DEF IInv, Shape
<1> QED
  BY <1>9, <1>10

LEMMA KeepaliveKeeps == IInv /\ Keepalive => IInv'
<1> SUFFICES ASSUME IInv, Keepalive PROVE IInv'
  OBVIOUS
<1> DEFINE ev == AfterRecv(c.rev, Small)
           b == [data |-> Received(Small), pos |-> 0]
<1>1. /\ fn = "keepalive" /\ env' = env /\ room' = room /\ r' = r /\ stat' = stat
      /\ \/ /\ call' = [fn |-> "close_connection", rc |-> "ok"] /\ c' = c /\ hc' = hc
            /\ wire' = wire
         \/ /\ ~c.rev.timedout /\ c' = [c EXCEPT !.rev = ev] /\ hc' = hc /\ wire' = wire
            /\ call' = [fn |-> "none", rc |-> "ok"]
         \/ /\ ~c.rev.timedout /\ c' = [c EXCEPT !.rev = ev] /\ Taken(Small)
            /\ hc' = [hc EXCEPT !.buffer = b] /\ call' = [fn |-> "init_request", rc |-> "ok"]
  BY DEF Keepalive, fn, env, Call, Return
<1>2. /\ c.open = TRUE /\ c.data = "hc" /\ r.pool = FALSE /\ h = "keepalive"
      /\ c.wev.handler = "empty" /\ c.wev.timer = FALSE
      /\ c.rev.timedout = FALSE => c.rev.timer = TRUE
  BY <1>1 DEF IInv, Begun, OfRequest
<1>3. /\ ConnOK /\ EnvOK /\ ReqOK /\ HcOK /\ Pointed /\ EvOK(c.rev)
      /\ DOMAIN c = {"open", "data", "rev", "wev"} /\ wire \in Tokens_
  BY DEF IInv, Shape, ConnOK, EnvOK
<1>4. sent \in Nat /\ Small \in Nat
  BY <1>3, Sizes, HttpRequestAssumption DEF EnvOK, Stream, HttpRequestAssumption
<1>5. /\ EvOK(ev) /\ ev.handler = h /\ ev.timer = c.rev.timer
      /\ ev.timedout = c.rev.timedout /\ ev.active = c.rev.active
  BY <1>3, AfterRecvIs DEF h
<1>6. b \in Bufs(Small)
  <2>1. Received(Small) \in Tokens_ /\ Len(Received(Small)) = Least(Small, Len(wire))
    BY <1>3, <1>4, RecvIs
  <2>2. Len(wire) \in Nat
    BY <1>3 DEF Tokens_
  <2>3. Len(Received(Small)) <= Small /\ 0 \in 0 .. Len(Received(Small))
    BY <1>4, <2>1, <2>2 DEF Least
  <2> QED
    BY <1>4, <2>1, <2>3, BufMade
<1>7. wire' \in Tokens_
  BY <1>1, <1>3, <1>4, RecvIs DEF Taken
<1>8. /\ EnvOK' /\ sent' = sent /\ mode' = mode /\ Tokens_' = Tokens_
      /\ \A n : Bufs(n)' = Bufs(n)
  BY <1>1, <1>3, <1>7, EnvKeeps DEF EnvOK
<1>9. ReqOK' /\ Pointed'
  BY <1>1, <1>2, <1>3, <1>8 DEF ReqOK, Pointed
<1> HIDE DEF ev, b
<1>10. HcOK'
  <2>1. CASE hc' = hc
    BY <1>3, <1>8, <2>1, SameBuffers
  <2>2. CASE hc' = [hc EXCEPT !.buffer = b]
    BY <1>3, <1>6, <1>8, <2>2 DEF HcOK
  <2> QED
    BY <1>1, <2>1, <2>2
<1>11. /\ ConnOK' /\ c'.open = TRUE /\ c'.data = "hc" /\ c'.wev = c.wev /\ h' = h
       /\ c'.rev.timer = c.rev.timer /\ c'.rev.timedout = c.rev.timedout
       /\ c'.rev.active = c.rev.active
       /\ \/ fn' = "close_connection"
          \/ fn' \in {"none", "init_request"} /\ c.rev.timedout = FALSE
  BY <1>1, <1>3, <1>2, <1>5 DEF ConnOK, EvOK, h, fn
<1>12. Begun' /\ Ended' /\ Writes' /\ Watched' /\ Counted' /\ Phase'
  BY <1>1, <1>2, <1>8, <1>11 DEF IInv, Begun, Ended, Writes, Watched, Counted, Phase
<1> QED
  BY <1>8, <1>9, <1>10, <1>11, <1>12 DEF IInv, Shape

-----------------------------------------------------------------------------
(* The theorems.                                                           *)

LEMMA InitIInv == Init => IInv
<1> SUFFICES ASSUME Init PROVE IInv
  OBVIOUS
<1>1. <<>> \in Tokens_ /\ Len(<<>>) = 0 /\ <<>> \in Seq(Bufs(Large)) /\ sent = 0
  BY DEF Init, Tokens_
<1>2. EnvOK
  <2>1. Len(Stream) \in Nat /\ Room \in Nat
    BY HttpRequestAssumption, Sizes DEF Init, Stream, HttpRequestAssumption
  <2> QED
    <3>1. /\ script \in Scripts /\ mode \in Modes /\ gone = FALSE /\ exiting = FALSE
          /\ wire = <<>> /\ room = Room /\ stat = [reading |-> 0, writing |-> 0]
      BY DEF Init
    <3>2. sent \in 0 .. Len(Stream) /\ room \in 0 .. Room /\ wire \in Tokens_
      BY <1>1, <2>1, <3>1
    <3> QED
      BY <3>1, <3>2 DEF EnvOK
<1>3. HcOK
  BY <1>1, EmptyBuf, Sizes DEF Init, HcOK
<1>4. ConnOK
  BY DEF Init, ConnOK, EvOK, EvFields, NoEvent
<1>5. ReqOK /\ Pointed /\ r.pool = FALSE /\ r.reading = FALSE /\ r.writing = FALSE
  <2>1. /\ DOMAIN r = RFields /\ r.pool = FALSE /\ r.reading = FALSE /\ r.writing = FALSE
        /\ r.keepalive = FALSE /\ r.lingering = FALSE /\ r.closed = FALSE
        /\ r.at = 0 /\ r.old = 0 /\ r.state = "start" /\ r.parsed = <<>>
        /\ r.length = -1 /\ r.out = 0 /\ r.rest = 0 /\ r.cap = 0 /\ r.buf = <<>>
    BY DEF Init, NoRequest, RFields
  <2>2. r.parsed \in Tokens_ /\ r.buf \in Tokens_ /\ Len(r.buf) <= r.cap
    BY <1>1, <2>1
  <2>3. /\ r.at \in Nat /\ r.old \in Nat /\ r.length \in Int /\ r.out \in Nat
        /\ r.rest \in Nat /\ r.cap \in Nat
    BY <2>1
  <2> QED
    BY <2>1, <2>2, <2>3 DEF ReqOK, Pointed
<1>6. Begun /\ Phase /\ Ended /\ Writes /\ Watched /\ Counted
  BY <1>5 DEF Init, Begun, Phase, Ended, Writes, Watched, Counted, NoEvent, h, fn
<1> QED
  BY <1>2, <1>3, <1>4, <1>5, <1>6 DEF IInv, Shape

LEMMA StutterKeeps == IInv /\ UNCHANGED vars => IInv'
<1> SUFFICES ASSUME IInv, UNCHANGED vars PROVE IInv'
  OBVIOUS
<1>1. /\ server' = server /\ script' = script /\ mode' = mode /\ sent' = sent
      /\ wire' = wire /\ room' = room /\ gone' = gone /\ exiting' = exiting
  BY DEF vars, server
<1>2. EnvOK /\ sent \in Nat /\ wire \in Seq(1 .. sent)
  BY HttpRequestAssumption DEF IInv, Shape, EnvOK, Stream, HttpRequestAssumption, Tokens_
<1> QED
  BY <1>1, <1>2, OutsideKeeps DEF EnvOK

LEMMA NextKeeps == IInv /\ [Next]_vars => IInv'
<1> SUFFICES ASSUME IInv, [Next]_vars PROVE IInv'
  OBVIOUS
<1>1. CASE ReadHead
  BY <1>1, TimeoutKeeps, ReadRequestHeaderKeeps, SkipBlankKeeps, ParseIncompleteKeeps,
     AllocLargeKeeps, ParseLineKeeps, ParseDoneKeeps, ParseErrorKeeps DEF ReadHead
<1>2. CASE Serve
  BY <1>2, HandlerKeeps, DiscardBodyKeeps, ReadDiscardedKeeps, ReadBodyKeeps,
     BodyTimeoutKeeps, DoReadBodyKeeps, UpstreamKeeps, SendKeeps, TimeoutKeeps, WriterKeeps
  DEF Serve
<1>3. CASE EndOfRequest
  BY <1>3, FinalizeSpecialKeeps, FinalizeKeeps, CloseConnectionKeeps, SetKeepaliveKeeps,
     KeepaliveKeeps, SetLingeringKeeps, LingeringKeeps DEF EndOfRequest
<1>4. CASE InitConnection \/ InitRequest
  BY <1>4, InitConnectionKeeps, InitRequestKeeps
<1>5. CASE Events \/ ReadTimer \/ WriteTimer
  BY <1>5, ReadEventKeeps, WriteEventKeeps DEF Events
<1>6. CASE UpstreamAnswers \/ ClientSends \/ ClientReads \/ ClientLeaves \/ Exiting
  BY <1>6, UpstreamAnswersKeeps, ClientKeeps
<1>7. CASE UNCHANGED vars
  BY <1>7, StutterKeeps
<1> QED
  BY <1>1, <1>2, <1>3, <1>4, <1>5, <1>6, <1>7 DEF Next, Run

\* What the invariant says between two events.
LEMMA IInvConsistent == IInv => Consistent /\ LargeBuffersBounded
<1> SUFFICES ASSUME IInv PROVE Consistent /\ LargeBuffersBounded
  OBVIOUS
<1>1. EnvOK /\ ConnOK /\ ReqOK /\ HcOK /\ Pointed /\ EvOK(c.rev) /\ EvOK(c.wev)
  BY DEF IInv, Shape, ConnOK
<1>2. LargeBuffersBounded
  BY <1>1 DEF HcOK, LargeBuffersBounded
<1>3. TypeOK
  <2>1. stat \in [reading : 0 .. 1, writing : 0 .. 1]
    BY <1>1 DEF IInv, Counted, EnvOK
  <2>2. r.pool => /\ r.at <= Len(hc.busy) /\ HeaderIn.pos \in 0 .. Len(HeaderIn.data)
                  /\ Len(HeaderIn.data) <= Capacity
    BY <1>1, HeaderInIs, BufIs DEF Pointed
  <2> QED
    BY <1>1, <2>1, <2>2 DEF TypeOK, EnvOK, Tokens_
<1>4. HandlerHasData
  <2>1. Idle /\ c.data = "request" => r.pool /\ h \notin {"init_request", "keepalive"}
    BY IdleIs DEF IInv, Phase, Reads
  <2>2. Idle /\ c.data # "request" =>
          h \in {"init_request", "keepalive"} /\ c.wev.handler = "empty"
    BY IdleIs
  <2> QED
    BY <2>1, <2>2 DEF HandlerHasData, h
<1>5. WaitIsTimed
  BY <1>1, IdleIs DEF IInv, Phase, LineState, LingeringState, Writes, Reads, WaitIsTimed, h, EvOK
<1>6. BodyNotLost
  BY IdleIs DEF IInv, Watched, BodyNotLost
<1>7. Gauges
  <2>1. SUFFICES ASSUME fn = "none"
                 PROVE  stat = [ reading |-> IF c.open /\ (c.data = "none" \/ r.reading) THEN 1 ELSE 0,
                                 writing |-> IF r.writing THEN 1 ELSE 0 ]
    BY DEF Gauges, fn
  <2>2. /\ c.open \in BOOLEAN /\ r.reading \in BOOLEAN /\ r.writing \in BOOLEAN
        /\ r.reading = TRUE => c.open = TRUE
    BY <1>1 DEF ConnOK, ReqOK, IInv, Counted, Begun
  <2>3. /\ stat.reading = IF c.open /\ (c.data = "none" \/ r.reading) THEN 1 ELSE 0
        /\ stat.writing = IF r.writing THEN 1 ELSE 0
    BY <2>1, <2>2 DEF IInv, Counted
  <2>4. stat = [reading |-> stat.reading, writing |-> stat.writing]
    BY DEF IInv, Counted
  <2> QED
    BY <2>3, <2>4
<1> QED
  BY <1>2, <1>3, <1>4, <1>5, <1>6, <1>7 DEF Consistent

\* Whatever tokens the clients send, in whatever pieces they arrive, and whatever
\* the sizes of the buffers, between two events the handlers of a connection fit
\* its data, its waits have timers, a body that is waited for is watched for, and
\* the gauges count it once (ngx_http_init_connection to ngx_http_close_connection).
THEOREM ConnectionConsistent == Spec => []Consistent
<1>1. IInv /\ [Next]_vars => IInv'
  BY NextKeeps
<1>2. IInv => Consistent
  BY IInvConsistent
<1> QED
  BY <1>1, <1>2, InitIInv, PTL DEF Spec

\* Over any sequence of pipelined requests a connection never holds more buffers
\* than large_client_header_buffers allows: those it parks on its free list count
\* (ngx_http_alloc_large_header_buffer, ngx_http_set_keepalive).
THEOREM LargeBuffers == Spec => []LargeBuffersBounded
<1>1. IInv /\ [Next]_vars => IInv'
  BY NextKeeps
<1>2. IInv => LargeBuffersBounded
  BY IInvConsistent
<1> QED
  BY <1>1, <1>2, InitIInv, PTL DEF Spec
=============================================================================
