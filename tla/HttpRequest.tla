----------------------------- MODULE HttpRequest -----------------------------
(***************************************************************************)
(* The life of the requests of one client connection: the request line and *)
(* the headers are read into the connection's buffer and into large ones,  *)
(* the body is read or discarded, the response is sent as the socket takes *)
(* it, and the connection is kept alive, lingers or is closed              *)
(* (http/ngx_http_request.c, ngx_http_request_body.c, ngx_http_handler,    *)
(* ngx_http_special_response_handler and ngx_http_write_filter).           *)
(*                                                                         *)
(* What the client sends is a stream of tokens numbered 1, 2, 3 ...: a     *)
(* blank line, a piece of a request line or of a header line and the end   *)
(* of one, the end of the headers, a byte of a body. call is the function  *)
(* that runs: the worker is single-threaded, so events and timers wait for *)
(* it to return, while the client goes on.                                 *)
(***************************************************************************)
EXTENDS Integers, Sequences, FiniteSets, SequencesExt

CONSTANTS
  Scripts,        \* what clients ask for, and the stream of tokens they send for it
  Modes,          \* "clear": epoll; "level": select and poll
  Small,          \* client_header_buffer_size, in tokens
  Large, Num,     \* large_client_header_buffers
  BodyBuf,        \* client_body_buffer_size
  Response, Room  \* units in a response and in the socket buffer

HeadParts == {"l", "L", "h", "H", "E"}
Parts     == {"n", "b"} \cup HeadParts

\* A client may send any tokens in any order, and each belongs to a request of its.
ASSUME HttpRequestAssumption ==
  /\ \A s \in Scripts :
       /\ s.stream \in Seq([part : Parts, of : DOMAIN s.asks])
       /\ \A k \in DOMAIN s.asks : s.asks[k].body \in Nat
  /\ Modes \subseteq {"clear", "level"}
  /\ {Small, Large, Num, BodyBuf, Response, Room} \subseteq Nat \ {0}

VARIABLES
  script, mode,   \* chosen at the start
  sent, gone,     \* the client: tokens sent, whether it closed
  wire,           \* the tokens in the socket
  edge,           \* changes the kernel has to report once (epoll)
  room,           \* units the socket buffer takes
  c, hc, r,       \* the connection, ngx_http_connection_t, the request
  call,           \* the function that runs and its argument
  exiting,        \* ngx_exiting
  stat,           \* ngx_stat_reading, ngx_stat_writing
  served          \* requests that reached ngx_http_handler

vars == <<script, mode, sent, gone, wire, edge, room, c, hc, r, call, exiting,
          stat, served>>
env  == <<script, mode, sent, gone, exiting>>

-----------------------------------------------------------------------------
(* The stream: for each token what it is a part of, and of which request.  *)

Stream == script.stream
Request(token) == Stream[token].of
Tokens(k, parts) ==
  SetToSortSeq({i \in DOMAIN Stream : Stream[i].of = k /\ Stream[i].part \in parts}, <)
\* The tokens of request k that are its head, and those that are its body.
Head_(k) == Tokens(k, HeadParts)
Body_(k) == Tokens(k, {"b"})

-----------------------------------------------------------------------------
(* Buffers and events.                                                     *)

Empty == [data |-> <<>>, pos |-> 0]
NoEvent == [handler |-> "empty", active |-> FALSE, ready |-> FALSE,
            timer |-> FALSE, timedout |-> FALSE]
NoRequest ==
  [ pool |-> FALSE, at |-> 0, state |-> "start", old |-> 0, parsed |-> <<>>,
    length |-> -1, rest |-> 0, pre |-> <<>>, buf |-> <<>>, cap |-> 0, file |-> <<>>,
    keepalive |-> FALSE, lingering |-> FALSE, closed |-> FALSE, timeout |-> FALSE,
    reading |-> FALSE, writing |-> FALSE, out |-> 0, headers |-> 0, pipeline |-> FALSE ]

Call(fn) == call' = [fn |-> fn, rc |-> "ok"]
CallWith(fn, rc) == call' = [fn |-> fn, rc |-> rc]
Return == Call("none")

HeaderIn == IF r.at = 0 THEN hc.buffer ELSE hc.busy[r.at]
Capacity == IF r.at = 0 THEN Small ELSE Large
Unread   == Len(HeaderIn.data) - HeaderIn.pos
SetHeaderIn(h, b) == IF r.at = 0 THEN [h EXCEPT !.buffer = b] ELSE [h EXCEPT !.busy[r.at] = b]

\* ngx_handle_read_event() and ngx_handle_write_event(), without flags.
Handled(ev) ==
  IF ~ev.active /\ ~ev.ready THEN [ev EXCEPT !.active = TRUE]
  ELSE IF mode = "level" /\ ev.active /\ ev.ready THEN [ev EXCEPT !.active = FALSE]
  ELSE ev
\* Mutant: the event of epoll is deleted like that of poll.
LevelHandledAlways(ev) == IF ev.active /\ ev.ready THEN [ev EXCEPT !.active = FALSE] ELSE Handled(ev)
\* ngx_handle_level_read_event().
LevelHandled(ev) == IF mode = "level" THEN Handled(ev) ELSE ev

Least(a, b) == IF a < b THEN a ELSE b
\* ngx_unix_recv() with room for n tokens, on an event: the tokens, and what
\* is left of the event. EAGAIN is no token from a client that is there. Epoll
\* is greedy: only EAGAIN and the end clear ready.
Received(n) == SubSeq(wire, 1, Least(n, Len(wire)))
AfterRecv(ev, n) ==
  [ev EXCEPT !.ready = @ /\ wire # <<>> /\ (mode = "clear" \/ Len(wire) >= n)]
Again == wire = <<>> /\ ~gone
Eof   == wire = <<>> /\ gone
Taken(n) == wire' = SubSeq(wire, Least(n, Len(wire)) + 1, Len(wire))

DelTimer(ev) == [ev EXCEPT !.timer = FALSE]
AddTimer(ev) == [ev EXCEPT !.timer = TRUE]

-----------------------------------------------------------------------------
(* A connection is accepted, and its first request begins.                 *)

Init ==
  /\ script \in Scripts /\ mode \in Modes
  /\ sent = 0 /\ gone = FALSE /\ wire = <<>>
  /\ edge = [in |-> FALSE, out |-> FALSE] /\ room = Room
  /\ c = [ open |-> TRUE, data |-> "none", rev |-> NoEvent,
           wev |-> [NoEvent EXCEPT !.ready = TRUE] ]
  /\ hc = [buffer |-> Empty, busy |-> <<>>, nfree |-> 0, pipeline |-> FALSE,
           unread |-> FALSE]
  /\ r = NoRequest
  /\ call = [fn |-> "init_connection", rc |-> "ok"]
  /\ exiting = FALSE /\ stat = [reading |-> 0, writing |-> 0] /\ served = 0

InitConnection ==
  /\ call.fn = "init_connection"
  /\ c' = [c EXCEPT !.rev = Handled(AddTimer([@ EXCEPT !.handler = "init_request"]))]
  /\ stat' = [stat EXCEPT !.reading = @ + 1]
  /\ Return
  /\ UNCHANGED <<env, wire, edge, room, hc, r, served>>

\* The memory of a request is used again for the next one of its connection.
InitRequest ==
  /\ call.fn = "init_request"
  /\ IF c.rev.timedout
     THEN /\ CallWith("close_connection", "ok")
          /\ stat' = [stat EXCEPT !.reading = @ - 1]
          /\ UNCHANGED <<r, c>>
     ELSE /\ r' = [NoRequest EXCEPT !.pool = TRUE, !.reading = TRUE,
                     !.pipeline = hc.pipeline, !.at = IF hc.busy = <<>> THEN 0 ELSE 1]
          /\ c' = [c EXCEPT !.data = "request", !.rev.handler = "line"]
          /\ stat' = [stat EXCEPT !.reading = IF c.data = "hc" THEN @ + 1 ELSE @]
          /\ Call("line")
  /\ UNCHANGED <<env, wire, edge, room, hc, served>>

-----------------------------------------------------------------------------
(* The request line and the headers.                                       *)

InHead(fn) == call.fn = fn /\ ~(c.rev.timedout /\ call.rc = "event")

\* The client timed out while its request was read: no response.
HeaderTimeout ==
  /\ call.fn \in {"line", "headers"} /\ call.rc = "event" /\ c.rev.timedout
  /\ Call("close")
  /\ UNCHANGED <<env, wire, edge, room, c, hc, r, stat, served>>

\* ngx_http_read_request_header(), with nothing left in the buffer.
ReadRequestHeader ==
  /\ InHead("line") \/ InHead("headers")
  /\ Unread = 0 /\ HeaderIn.pos < Capacity
  /\ LET n == Capacity - Len(HeaderIn.data)  b == HeaderIn IN
     \/ /\ ~c.rev.ready
        /\ Return /\ UNCHANGED <<wire, c, hc, r>>
     \/ /\ c.rev.ready /\ Again
        /\ c' = [c EXCEPT !.rev = LET ev == AfterRecv(@, n) IN
                            Handled(IF r.timeout THEN ev ELSE AddTimer(ev))]
        /\ r' = [r EXCEPT !.timeout = TRUE]
        /\ Return /\ UNCHANGED <<wire, hc>>
     \/ /\ c.rev.ready /\ Eof
        /\ Call("close") /\ UNCHANGED <<wire, c, hc, r>>
     \/ /\ c.rev.ready /\ wire # <<>>
        /\ c' = [c EXCEPT !.rev = AfterRecv(@, n)]
        /\ hc' = SetHeaderIn(hc, [b EXCEPT !.data = @ \o Received(n)])
        /\ Taken(n)
        /\ call' = [call EXCEPT !.rc = "ok"] /\ UNCHANGED r
  /\ UNCHANGED <<env, edge, room, stat, served>>

\* The parser in the line that begins at Start: Stop is the first token that is
\* not a piece of it.
Start == IF r.state = "start" THEN HeaderIn.pos ELSE r.old
Piece == IF call.fn = "line" THEN "l" ELSE "h"
End   == IF call.fn = "line" THEN "L" ELSE "H"
PartAt(i) == Stream[HeaderIn.data[i]].part
Stop  == SelectInSubSeq(HeaderIn.data, HeaderIn.pos + 1, Len(HeaderIn.data),
                        LAMBDA t : Stream[t].part # Piece)
Consume(n) == hc' = SetHeaderIn(hc, [HeaderIn EXCEPT !.pos = n])
Parsing == (InHead("line") \/ InHead("headers")) /\ Unread > 0

\* An empty line before the request line.
SkipBlank ==
  /\ Parsing /\ call.fn = "line" /\ r.state = "start" /\ PartAt(HeaderIn.pos + 1) = "n"
  /\ Consume(HeaderIn.pos + 1)
  /\ UNCHANGED <<env, wire, edge, room, c, r, call, stat, served>>

ParseIncomplete ==
  /\ Parsing /\ Stop = 0
  /\ Consume(Len(HeaderIn.data))
  /\ r' = [r EXCEPT !.state = "partial", !.old = Start]
  /\ UNCHANGED <<env, wire, edge, room, c, call, stat, served>>

\* The buffer is parsed to its end and full.
Full == (InHead("line") \/ InHead("headers")) /\ Unread = 0 /\ HeaderIn.pos = Capacity

\* Mutant: the next buffer starts with the whole of the last one.
CopiedAll == IF r.state = "start" THEN <<>> ELSE HeaderIn.data
\* The incomplete line that moves to the next buffer.
Copied == IF r.state = "start" THEN <<>> ELSE SubSeq(HeaderIn.data, r.old + 1, HeaderIn.pos)

\* One of the free large buffers, or a new one.
NextBuffer(h) == [h EXCEPT !.nfree = IF @ > 0 THEN @ - 1 ELSE @]

\* ngx_http_alloc_large_header_buffer().
AllocLarge ==
  /\ Full
  /\ IF call.fn = "line" /\ r.state = "start"
     THEN hc' = SetHeaderIn(hc, Empty) /\ UNCHANGED <<r, call>>
     ELSE IF \/ r.state = "partial" /\ HeaderIn.pos - r.old >= Large
             \/ hc.nfree = 0 /\ Len(hc.busy) >= Num
     THEN /\ CallWith("finalize", IF call.fn = "line" THEN "too_long" ELSE "bad")
          /\ UNCHANGED <<hc, r>>
     ELSE /\ hc' = [NextBuffer(hc) EXCEPT
                      !.busy = Append(@, [data |-> Copied, pos |-> Len(Copied)])]
          /\ r' = [r EXCEPT !.at = Len(hc.busy) + 1, !.old = 0]
          /\ UNCHANGED call
  /\ UNCHANGED <<env, wire, edge, room, c, stat, served>>

\* A line is complete. An HTTP/0.9 request has no headers.
ParseLine ==
  /\ Parsing /\ Stop # 0 /\ PartAt(Stop) = End
  /\ Consume(Stop)
  /\ LET parsed == r.parsed \o SubSeq(HeaderIn.data, Start + 1, Stop)
         old == call.fn = "line" /\ script.asks[Request(parsed[1])].how = "old"
     IN  /\ r' = [r EXCEPT !.state = "start", !.parsed = parsed]
         /\ call' = [call EXCEPT !.fn = IF old THEN "handler" ELSE "headers"]
         /\ c' = [c EXCEPT !.rev.handler = IF old THEN "block" ELSE "headers"]
  /\ UNCHANGED <<env, wire, edge, room, stat, served>>

\* The headers are complete: ngx_http_process_request_header() and, when they
\* are in order, the handler.
ParseDone ==
  /\ Parsing /\ call.fn = "headers" /\ r.state = "start" /\ PartAt(HeaderIn.pos + 1) = "E"
  /\ Consume(HeaderIn.pos + 1)
  /\ LET q == script.asks[Request(r.parsed[1])] IN
     /\ r' = [r EXCEPT !.parsed = Append(@, HeaderIn.data[HeaderIn.pos + 1]),
                       !.length = IF q.body = 0 THEN -1 ELSE q.body,
                       !.reading = q.how = "bad", !.writing = q.how # "bad"]
     /\ IF q.how = "bad" THEN CallWith("finalize", "bad") /\ UNCHANGED <<c, stat>>
        ELSE /\ c' = [c EXCEPT !.rev = DelTimer([@ EXCEPT !.handler = "block"])]
             /\ stat' = [reading |-> stat.reading - 1, writing |-> stat.writing + 1]
             /\ Call("handler")
  /\ UNCHANGED <<env, wire, edge, room, served>>

\* What is no line of this kind is an error of the client.
ParseError ==
  /\ Parsing /\ Stop # 0 /\ PartAt(Stop) # End
  /\ ~(call.fn = "headers" /\ r.state = "start" /\ PartAt(Stop) = "E" /\ Stop = HeaderIn.pos + 1)
  /\ ~(call.fn = "line" /\ r.state = "start" /\ PartAt(HeaderIn.pos + 1) = "n")
  /\ CallWith("finalize", "bad")
  /\ UNCHANGED <<env, wire, edge, room, c, hc, r, stat, served>>

-----------------------------------------------------------------------------
(* The handler and the body.                                               *)

Asked == script.asks[Request(r.parsed[1])]

\* ngx_http_handler(), and the content handler that the location has.
Handler ==
  /\ call.fn = "handler"
  /\ r' = [r EXCEPT !.keepalive = Asked.keepalive /\ Asked.how # "old",
                    !.lingering = r.length > 0]
  /\ c' = [c EXCEPT !.wev.handler = "empty"]
  /\ served' = served + 1
  /\ CASE Asked.how = "deny" -> CallWith("finalize", "forbidden")
       [] Asked.how = "read" -> Call(IF r.length <= 0 THEN "upstream" ELSE "read_body")
       [] OTHER -> CallWith("discard", "send")
  /\ UNCHANGED <<env, wire, edge, room, hc, stat>>

\* What is left of the body after the part in the header buffer.
AfterPreRead == r.length - Unread

DiscardBuf == 2   \* NGX_HTTP_DISCARD_BUFFER_SIZE, in tokens

\* Mutant: the response is sent when the event has read the rest of the body.
AfterDiscardSend(event) == Call("send")
\* ngx_http_discard_body() returns to its caller, the event handler to the loop.
AfterDiscard(event) == IF event THEN Return ELSE Call("send")

\* ngx_http_read_discarded_body(), with the event handler's rc # ok => close.
\* The end of the client is not an error.
Discarding(n, event) ==
  \/ /\ r.length = 0 /\ UNCHANGED <<wire, r, c>> /\ AfterDiscard(event)
  \/ /\ r.length > 0 /\ Again
     /\ c' = [c EXCEPT !.rev = IF event THEN LevelHandled(AfterRecv(@, n)) ELSE AfterRecv(@, n)]
     /\ UNCHANGED <<wire, r>> /\ (IF event THEN Call("close") ELSE Call("send"))
  \/ /\ r.length > 0 /\ ~Again
     /\ c' = [c EXCEPT !.rev = AfterRecv(@, n)]
     /\ r' = [r EXCEPT !.length = @ - Len(Received(n))]
     /\ Taken(n) /\ AfterDiscard(event)

\* ngx_http_discard_body(): the part that came with the headers stays in
\* their buffer unless it is the whole body.
DiscardBody ==
  /\ call.fn = "discard"
  /\ IF r.length <= 0
     THEN /\ c' = [c EXCEPT !.rev = DelTimer(@)] /\ Call("send") /\ UNCHANGED <<hc, r>>
     ELSE IF Unread >= r.length
     THEN /\ Consume(HeaderIn.pos + r.length)
          /\ r' = [r EXCEPT !.length = 0]
          /\ c' = [c EXCEPT !.rev = DelTimer(@)] /\ Call("send")
     ELSE /\ r' = [r EXCEPT !.length = AfterPreRead]
          /\ hc' = [hc EXCEPT !.unread = TRUE]
          /\ c' = [c EXCEPT !.rev = LevelHandled(DelTimer([@ EXCEPT !.handler = "discard"]))]
          /\ Call("read_discarded")
  /\ UNCHANGED <<env, wire, edge, room, stat, served>>

ReadDiscarded ==
  /\ call.fn = "read_discarded"
  /\ Discarding(Least(DiscardBuf, r.length), call.rc = "event")
  /\ UNCHANGED <<env, edge, room, hc, stat, served>>

\* ngx_http_read_client_request_body(): the buffer of what came with the headers
\* ends where the header buffer ends, also when the body ends before that.
PreRead == SubSeq(HeaderIn.data, HeaderIn.pos + 1, Len(HeaderIn.data))
ReadBody ==
  /\ call.fn = "read_body"
  /\ IF r.length <= Unread
     THEN /\ r' = [r EXCEPT !.pre = PreRead]
          /\ Consume(HeaderIn.pos + r.length)
          /\ Call("upstream") /\ UNCHANGED c
     ELSE LET rest == r.length - Unread IN
          /\ r' = [r EXCEPT !.pre = PreRead, !.rest = rest,
                            !.cap = IF rest < BodyBuf + BodyBuf \div 4 THEN rest ELSE BodyBuf]
          /\ Consume(Len(HeaderIn.data))
          /\ c' = [c EXCEPT !.rev.handler = "body"]
          /\ Call("body")
  /\ UNCHANGED <<env, wire, edge, room, stat, served>>

BodyTimeout ==
  /\ call.fn = "body" /\ call.rc = "event" /\ c.rev.timedout
  /\ CallWith("finalize", "timeout")
  /\ UNCHANGED <<env, wire, edge, room, c, hc, r, stat, served>>

\* Mutant: a full buffer is used again before it is in the file.
SavedNot(q) == IF Len(q.buf) = q.cap THEN [q EXCEPT !.buf = <<>>] ELSE q
\* A full buffer goes to the temporary file.
Saved(q) == IF Len(q.buf) = q.cap THEN [q EXCEPT !.file = @ \o q.buf, !.buf = <<>>] ELSE q

\* One pass of ngx_http_do_read_client_request_body(): it returns without a
\* timer when it has read some of the body and not filled the buffer.
DoReadBody ==
  /\ call.fn = "body" /\ ~(call.rc = "event" /\ c.rev.timedout)
  /\ LET q == Saved(r)
         n == Least(q.cap - Len(q.buf), q.rest)
     IN
     \/ /\ Again
        /\ r' = q
        /\ c' = [c EXCEPT !.rev = Handled(AddTimer(AfterRecv(@, n)))]
        /\ Return /\ UNCHANGED wire
     \/ /\ Eof
        /\ r' = [q EXCEPT !.closed = TRUE]
        /\ CallWith("finalize", "bad") /\ UNCHANGED <<c, wire>>
     \/ /\ wire # <<>>
        /\ LET t == [q EXCEPT !.buf = @ \o Received(n), !.rest = @ - Len(Received(n))] IN
           /\ r' = t
           /\ CASE t.rest = 0 -> Call("upstream")
                [] t.rest # 0 /\ Len(t.buf) < t.cap -> Return
                [] OTHER -> Call("body")
        /\ c' = [c EXCEPT !.rev = AfterRecv(@, n)]
        /\ Taken(n)
  /\ UNCHANGED <<env, edge, room, hc, stat, served>>

\* The proxy has the whole request; the response comes later.
Upstream ==
  /\ call.fn = "upstream"
  /\ c' = [c EXCEPT !.rev = DelTimer([@ EXCEPT !.handler = "broken"])]
  /\ Return
  /\ UNCHANGED <<env, wire, edge, room, hc, r, stat, served>>

UpstreamAnswers ==
  /\ call.fn = "none" /\ c.open /\ c.rev.handler = "broken" /\ r.out = 0 /\ r.headers = 0
  /\ Call("send")
  /\ UNCHANGED <<env, wire, edge, room, c, hc, r, stat, served>>

-----------------------------------------------------------------------------
(* The response.                                                           *)

\* Bounds on what a client that never reads makes a request queue, and count.
MaxOut == 2 * Response
MaxHeaders == 2

\* ngx_http_send_header() and the output filter, the first time and again:
\* what the socket does not take stays.
Send ==
  /\ call.fn \in {"send", "writer"}
  /\ LET out == IF call.fn = "send" THEN Least(r.out + Response, MaxOut) ELSE r.out
         n == IF c.wev.ready THEN Least(out, room) ELSE 0
     IN  /\ r' = [r EXCEPT !.out = out - n,
                           !.headers = IF call.fn = "send" THEN Least(@ + 1, MaxHeaders) ELSE @]
         /\ room' = room - n
         /\ IF gone THEN CallWith("finalize", "error") /\ UNCHANGED <<c, edge>>
            ELSE IF n = out THEN CallWith("finalize", "ok") /\ UNCHANGED <<c, edge>>
            ELSE /\ c' = [c EXCEPT !.wev.ready = FALSE]
                 /\ edge' = [edge EXCEPT !.out = FALSE]
                 /\ CallWith("finalize", "again")
  /\ UNCHANGED <<env, wire, hc, stat, served>>

WriterTimeout ==
  /\ call.fn = "writer_event" /\ c.wev.timedout
  /\ Call("close")
  /\ UNCHANGED <<env, wire, edge, room, c, hc, r, stat, served>>
Writer ==
  /\ call.fn = "writer_event" /\ ~c.wev.timedout
  /\ Call("writer")
  /\ UNCHANGED <<env, wire, edge, room, c, hc, r, stat, served>>

-----------------------------------------------------------------------------
(* The end of a request.                                                   *)

Special == {"bad", "too_long", "forbidden", "timeout", "closed"}

\* ngx_http_special_response_handler() after ngx_http_finalize_request().
FinalizeSpecial ==
  /\ call.fn = "finalize" /\ call.rc \in Special
  /\ IF r.closed \/ call.rc = "closed"
     THEN Call("close") /\ UNCHANGED r
     ELSE /\ r' = [r EXCEPT !.keepalive = @ /\ call.rc \notin {"bad", "too_long"},
                            !.lingering = @ /\ call.rc # "bad"]
          /\ CallWith("discard", "send")
  /\ c' = [c EXCEPT !.rev = DelTimer(@), !.wev = DelTimer(@)]
  /\ UNCHANGED <<env, wire, edge, room, hc, stat, served>>

\* Mutant: the write timer is left to the first event.
WriteHandlerUntimed(ev) == Handled([ev EXCEPT !.handler = "writer"])
\* ngx_http_set_write_handler().
WriteHandler(ev) == Handled(AddTimer([ev EXCEPT !.handler = "writer"]))

Finalize ==
  /\ call.fn = "finalize" /\ call.rc \notin Special
  /\ CASE call.rc = "error" -> Call("close") /\ UNCHANGED c
       [] call.rc = "again" -> c' = [c EXCEPT !.wev = WriteHandler(@)] /\ Return
       [] call.rc = "ok" ->
            /\ c' = [c EXCEPT !.rev = DelTimer(@), !.wev = DelTimer(@)]
            /\ Call(CASE r.keepalive /\ ~exiting -> "set_keepalive"
                      [] ~(r.keepalive /\ ~exiting) /\ r.lingering -> "set_lingering"
                      [] OTHER -> "close")
  /\ UNCHANGED <<env, wire, edge, room, hc, r, stat, served>>

\* ngx_http_close_request().
Closed(q) == [q EXCEPT !.pool = FALSE, !.reading = FALSE, !.writing = FALSE]
\* Mutant: the gauges are left to the end of the connection.
UnstatNot == UNCHANGED stat
Unstat == stat' = [ reading |-> stat.reading - (IF r.reading THEN 1 ELSE 0),
                    writing |-> stat.writing - (IF r.writing THEN 1 ELSE 0) ]

CloseConnection ==
  /\ call.fn \in {"close", "close_connection"}
  /\ c' = [ open |-> FALSE, data |-> "none", rev |-> NoEvent, wev |-> NoEvent ]
  /\ IF call.fn = "close" THEN r' = Closed(r) /\ Unstat ELSE UNCHANGED <<r, stat>>
  /\ wire' = <<>> /\ edge' = [in |-> FALSE, out |-> FALSE]
  /\ Return
  /\ UNCHANGED <<env, room, hc, served>>

\* Mutant: the buffer in use goes to the free list too.
FreedAll == [busy |-> <<HeaderIn>>, nfree |-> hc.nfree + Len(hc.busy)]
\* The large buffers but the one that holds the next request.
Freed == [busy |-> <<HeaderIn>>, nfree |-> hc.nfree + Len(hc.busy) - 1]

\* Mutant: the write handler of the last request is left.
WevLeft(wev) == wev
WevEmptied(wev) == [wev EXCEPT !.handler = "empty"]

SetKeepalive ==
  /\ call.fn = "set_keepalive"
  /\ r' = Closed(r) /\ Unstat
  /\ LET rev == LevelHandled(AddTimer(c.rev))
         wev == WevEmptied(c.wev)
     IN
     IF Unread > 0
     THEN /\ hc' = [hc EXCEPT !.pipeline = TRUE,
                      !.busy  = IF r.at = 0 THEN @ ELSE Freed.busy,
                      !.nfree = IF r.at = 0 THEN @ ELSE Freed.nfree]
          /\ c' = [c EXCEPT !.data = "hc", !.rev = rev, !.wev = wev]
          /\ Call("init_request")
     ELSE /\ hc' = [hc EXCEPT !.pipeline = FALSE, !.buffer = Empty, !.busy = <<>>, !.nfree = 0]
          /\ c' = [c EXCEPT !.data = "hc", !.rev = [rev EXCEPT !.handler = "keepalive"],
                     !.wev = IF mode = "level" THEN [wev EXCEPT !.active = FALSE] ELSE wev]
          /\ Call(IF rev.ready THEN "keepalive" ELSE "none")
  /\ UNCHANGED <<env, wire, edge, room, served>>

\* ngx_http_keepalive_handler().
Keepalive ==
  /\ call.fn = "keepalive"
  /\ \/ /\ c.rev.timedout \/ Eof
        /\ Call("close_connection") /\ UNCHANGED <<c, hc, wire>>
     \/ /\ ~c.rev.timedout /\ Again
        /\ c' = [c EXCEPT !.rev = AfterRecv(@, Small)]
        /\ Return /\ UNCHANGED <<hc, wire>>
     \/ /\ ~c.rev.timedout /\ wire # <<>>
        /\ c' = [c EXCEPT !.rev = AfterRecv(@, Small)]
        /\ hc' = [hc EXCEPT !.buffer = [data |-> Received(Small), pos |-> 0]]
        /\ Taken(Small) /\ Call("init_request")
  /\ UNCHANGED <<env, edge, room, r, stat, served>>

\* ngx_http_set_lingering_close() and its handler: it reads and forgets until
\* the client closes, is silent or the time is over.
SetLingering ==
  /\ call.fn = "set_lingering"
  /\ LET rev == LevelHandled(AddTimer([c.rev EXCEPT !.handler = "lingering"]))
         wev == WevEmptied(c.wev)
     IN  /\ c' = [c EXCEPT !.rev = rev,
                    !.wev = IF mode = "level" THEN [wev EXCEPT !.active = FALSE] ELSE wev]
         /\ Call(IF rev.ready THEN "lingering" ELSE "none")
  /\ UNCHANGED <<env, wire, edge, room, hc, r, stat, served>>
Lingering ==
  /\ call.fn = "lingering"
  /\ \/ Call("close") /\ UNCHANGED <<wire, c>>    \* also lingering_time is over
     \/ /\ ~c.rev.timedout /\ ~Eof
        /\ LET ev == AfterRecv(c.rev, DiscardBuf) IN
           /\ c' = [c EXCEPT !.rev = IF ev.ready THEN ev ELSE AddTimer(ev)]
           /\ Taken(DiscardBuf)
           /\ IF ev.ready THEN call' = call ELSE Return
  /\ UNCHANGED <<env, edge, room, hc, r, stat, served>>

-----------------------------------------------------------------------------
(* Events, timers, the client.                                             *)

Idle == call.fn = "none" /\ c.open
Readable == wire # <<>> \/ gone
Reported(ev, change, level) ==
  ev.active /\ level /\ (mode = "level" \/ change)
\* The read handler is called: fn with "event", or one that does nothing.
Dispatch(rev) ==
  CASE rev.handler = "init_request" -> Call("init_request")
    [] rev.handler \in {"line", "headers", "body"} -> CallWith(rev.handler, "event")
    [] rev.handler = "discard" -> CallWith("read_discarded", "event")
    [] rev.handler \in {"keepalive", "lingering"} -> Call(rev.handler)
    [] rev.handler = "broken" /\ Eof -> CallWith("finalize", "closed")
    [] OTHER -> Return
\* ngx_http_block_read(): level events of a request that is served are deleted.
Blocked(rev) ==
  IF rev.handler = "block" /\ mode = "level" THEN [rev EXCEPT !.active = FALSE] ELSE rev

ReadEvent ==
  /\ Idle /\ Reported(c.rev, edge.in, Readable)
  /\ edge' = [edge EXCEPT !.in = FALSE]
  /\ LET rev == [c.rev EXCEPT !.ready = TRUE] IN
     c' = [c EXCEPT !.rev = Blocked(rev)] /\ Dispatch(rev)
  /\ UNCHANGED <<env, wire, room, hc, r, stat, served>>
WriteEvent ==
  /\ Idle /\ Reported(c.wev, edge.out, room > 0 \/ gone)
  /\ edge' = [edge EXCEPT !.out = FALSE]
  /\ c' = [c EXCEPT !.wev.ready = TRUE]
  /\ IF c.wev.handler = "writer" THEN Call("writer_event") ELSE Return
  /\ UNCHANGED <<env, wire, room, hc, r, stat, served>>
ReadTimer ==
  /\ Idle /\ c.rev.timer
  /\ LET rev == [c.rev EXCEPT !.timer = FALSE, !.timedout = TRUE] IN
     c' = [c EXCEPT !.rev = Blocked(rev)] /\ Dispatch(rev)
  /\ UNCHANGED <<env, wire, edge, room, hc, r, stat, served>>
WriteTimer ==
  /\ Idle /\ c.wev.timer
  /\ c' = [c EXCEPT !.wev.timer = FALSE, !.wev.timedout = TRUE]
  /\ IF c.wev.handler = "writer" THEN Call("writer_event") ELSE Return
  /\ UNCHANGED <<env, wire, edge, room, hc, r, stat, served>>

server == <<c, hc, r, call, stat, served>>
ClientSends ==
  /\ c.open /\ ~gone /\ sent < Len(Stream)
  /\ sent' = sent + 1 /\ wire' = Append(wire, sent + 1)
  /\ edge' = [edge EXCEPT !.in = TRUE]
  /\ UNCHANGED <<script, mode, gone, room, exiting, server>>
ClientReads ==
  /\ c.open /\ ~gone /\ room < Room
  /\ room' = Room /\ edge' = [edge EXCEPT !.out = TRUE]
  /\ UNCHANGED <<env, wire, server>>
ClientLeaves ==
  /\ c.open /\ ~gone
  /\ gone' = TRUE /\ edge' = [in |-> TRUE, out |-> TRUE]
  /\ UNCHANGED <<script, mode, sent, wire, room, exiting, server>>
Exiting ==
  /\ c.open /\ ~exiting /\ exiting' = TRUE
  /\ UNCHANGED <<script, mode, sent, gone, wire, edge, room, server>>

ReadHead == \/ HeaderTimeout \/ ReadRequestHeader \/ SkipBlank \/ ParseIncomplete
            \/ AllocLarge \/ ParseLine \/ ParseDone \/ ParseError
Serve == \/ Handler \/ DiscardBody \/ ReadDiscarded \/ ReadBody \/ BodyTimeout
         \/ DoReadBody \/ Upstream \/ Send \/ WriterTimeout \/ Writer
EndOfRequest == \/ FinalizeSpecial \/ Finalize \/ CloseConnection \/ SetKeepalive
                \/ Keepalive \/ SetLingering \/ Lingering
Run == InitConnection \/ InitRequest \/ ReadHead \/ Serve \/ EndOfRequest
Events == ReadEvent \/ WriteEvent
Next ==
  \/ Run \/ Events \/ ReadTimer \/ WriteTimer
  \/ UpstreamAnswers \/ ClientSends \/ ClientReads \/ ClientLeaves \/ Exiting

Spec == Init /\ [][Next]_vars
FairSpec ==
  /\ Spec /\ WF_vars(Run) /\ WF_vars(Events) /\ SF_vars(ReadTimer) /\ SF_vars(WriteTimer)
  /\ WF_vars(UpstreamAnswers)

-----------------------------------------------------------------------------
(* Properties.                                                             *)

TypeOK ==
  /\ script \in Scripts /\ mode \in Modes
  /\ sent \in 0 .. Len(Stream) /\ room \in 0 .. Room
  /\ gone \in BOOLEAN /\ exiting \in BOOLEAN
  /\ wire \in Seq(1 .. sent)
  /\ r.pool => /\ r.at <= Len(hc.busy) /\ HeaderIn.pos \in 0 .. Len(HeaderIn.data)
               /\ Len(HeaderIn.data) <= Capacity
  /\ stat \in [reading : 0 .. 1, writing : 0 .. 1]

\* The handlers of the read event fit what its data is: a request that lives,
\* or the connection between two requests, whose memory is used again
\* (ngx_http_set_keepalive, ngx_http_init_request, ngx_http_close_request).
HandlerHasData ==
  Idle => IF c.data = "request" THEN r.pool /\ c.rev.handler \notin {"init_request", "keepalive"}
          ELSE c.rev.handler \in {"init_request", "keepalive"} /\ c.wev.handler = "empty"

\* However the stream is cut into reads and moved between buffers, the lines a
\* request is made of are those the client sent for it, in order, and no byte of
\* its neighbours. (A response sent before the body was read leaves the part that
\* came with the headers in the buffer, where it is taken for the next request:
\* hc.unread.)
ParsedAsSent ==
  call.fn = "handler" /\ ~hc.unread => r.parsed = Head_(served + 1)

\* What goes upstream, from the header buffer, the temporary file and the last
\* buffer, is the body the client sent, whole and in order
\* (ngx_http_read_client_request_body, ngx_http_do_read_client_request_body); what
\* follows it is never a part of it, or lost: these tokens of the next requests came
\* with the headers, before the body could be told from them, and they are still
\* to be parsed.
BodyAsSent ==
  LET passed == r.pre \o r.file \o r.buf
      body   == Body_(served)
      after  == SubSeq(passed, Len(body) + 1, Len(passed))
      left   == SubSeq(HeaderIn.data, HeaderIn.pos + 1, Len(HeaderIn.data))
  IN  call.fn = "upstream" /\ ~hc.unread => IsPrefix(body, passed) /\ after \in {<<>>, left}

\* A connection never holds more than large_client_header_buffers, busy and free
\* ones, however many requests it pipelines.
LargeBuffersBounded == Len(hc.busy) + hc.nfree <= Num

\* What is parsed is what the client sent, and what is passed on begins with it,
\* although the buffers are few and used again.
AsSent == ParsedAsSent /\ BodyAsSent /\ LargeBuffersBounded

\* A request that was read is answered once, whatever timer or error comes while
\* the answer is sent. (An error in the line or the headers leaves their handler
\* on the event, and a later event makes a second error page.)
OneResponse == r.pool /\ c.rev.handler \notin {"line", "headers"} => r.headers <= 1

\* A connection that waits for its client to send a request, to close or to take
\* a response has a timer (client_header_timeout, keepalive_timeout,
\* lingering_timeout, send_timeout).
WaitIsTimed ==
  /\ Idle /\ c.rev.handler \in {"init_request", "line", "headers", "keepalive", "lingering"}
       => c.rev.timer \/ c.wev.timer
  /\ Idle /\ c.wev.handler = "writer" => c.wev.timer

\* A request that waits for its body is woken by the rest of it: the event is
\* registered or a timer runs. (With select and poll it may be neither: the event
\* was deleted as blocked and a part of the body was read without EAGAIN.)
BodyNotLost ==
  mode = "clear" /\ Idle /\ c.rev.handler = "body" => c.rev.timer \/ c.rev.active

\* ngx_stat_reading and ngx_stat_writing count what is read and written now, over
\* any sequence of requests, errors and timeouts of the connection.
Gauges ==
  call.fn = "none" =>
    stat = [ reading |-> IF c.open /\ (c.data = "none" \/ r.reading) THEN 1 ELSE 0,
             writing |-> IF r.writing THEN 1 ELSE 0 ]

\* Between two events the connection is consistent: its handlers fit its data,
\* its waits are timed, its body can arrive, and it is counted.
Consistent == TypeOK /\ HandlerHasData /\ WaitIsTimed /\ BodyNotLost /\ Gauges

\* Every request ends, whatever its client does, unless it waits for a body
\* without the timer that ngx_http_do_read_client_request_body arms on EAGAIN only,
\* or is answered again and again (see OneResponse: with select and poll the rest
\* of a bad request is reported, and answered, in every round).
RequestEnds ==
  r.pool ~> \/ ~r.pool
            \/ c.rev.handler = "body" /\ ~c.rev.timer
            \/ r.headers = MaxHeaders
=============================================================================
