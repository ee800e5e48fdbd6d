---------------------------- MODULE OutputChain ----------------------------
(* A response on its way to the client: its header and the chains of buffers   *)
(* of its body go through ngx_output_chain(), which copies what the filters   *)
(* below cannot use into a few buffers of its own, to ngx_http_write_filter(), *)
(* which saves, delays or sends them with ngx_linux_sendfile_chain(), and     *)
(* later again from ngx_http_writer(). The response is the numbers 1, 2, ...  *)
EXTENDS Integers, Sequences, FiniteSets, SequencesExt, FiniteSetsExt

CONSTANTS Responses,  \* what is sent, and the settings of the location
          Room,       \* what the socket's buffer takes
          Page,       \* ngx_pagesize
          MaxInterrupts  \* bound: system calls that end with EINTR

OutputChainAssumption == {Room, Page} \subseteq Nat \ {0} /\ MaxInterrupts \in Nat

VARIABLES resp,    \* the response
          bufs,    \* the buffers of the response, then those it is copied into
          t,       \* the contexts of the filters, the write event, and the call that runs
          client,  \* what the socket has taken
          room     \* what it takes now
vars == <<resp, bufs, t, client, room>>

Sources == Len(resp.bufs)
Copies == Sources + 1 .. Sources + resp.num
Length(id) == Len(bufs[id].data)   \* ngx_buf_size
Special(id) == bufs[id].kind = "none"
Units(chain) == FlattenSeq([k \in 1 .. Len(chain) |-> bufs[chain[k]].data])
Size(chain) == Len(Units(chain))

NeedToCopy(id) ==
  \/ bufs[id].kind = "file" /\ ~resp.sendfile
  \/ bufs[id].kind = "memory" /\ resp.need_in_temp

Init ==
  /\ resp \in Responses
  /\ bufs = [ id \in 1 .. Sources + resp.num |->
                IF id <= Sources THEN resp.bufs[id]
                ELSE [kind |-> "temp", data |-> <<>>, size |-> 0, last |-> FALSE, recycled |-> TRUE] ]
  /\ t = [ pc |-> "header", in |-> <<>>, free |-> <<>>, busy |-> <<>>, allocated |-> 0, last |-> "none",
           out |-> <<>>, saved |-> <<>>, chain |-> <<>>, send |-> 0, from |-> 0, caller |-> "header",
           rc |-> "ok", chains |-> resp.chains, writer |-> FALSE, ready |-> TRUE, delayed |-> FALSE,
           timer |-> "off", edge |-> FALSE, interrupts |-> 0, end |-> "none" ]
  /\ client = <<>> /\ room = Room

-----------------------------------------------------------------------------
(* ngx_http_finalize_request(), ngx_http_set_write_handler() and the end of   *)
(* ngx_http_writer(): what the filters return.                               *)

Over(u, end) == [u EXCEPT !.pc = "over", !.end = end, !.timer = "off", !.delayed = FALSE]
\* Mutant: a response that is delayed waits without the timer it needs.
SetWriteHandlerNever(u) == [u EXCEPT !.pc = "wait"]
SetWriteHandler(u) ==
  [u EXCEPT !.pc = "wait", !.timer = IF u.delayed THEN @ ELSE "send"]
WriterWaits(u) ==
  [u EXCEPT !.pc = "wait", !.timer = IF ~u.ready /\ ~u.delayed THEN "send" ELSE @]
\* A handler that sends the body in several chains goes on with the next one.
Returned(u, rc) ==
  CASE rc = "error" -> Over(u, "closed")
    [] rc # "error" /\ u.chains # <<>> -> [u EXCEPT !.pc = "body"]
    [] rc = "again" /\ u.chains = <<>> -> IF u.writer THEN WriterWaits(u) ELSE SetWriteHandler(u)
    [] OTHER -> Over(u, "sent")

-----------------------------------------------------------------------------
(* ngx_http_write_filter().                                                  *)

\* A copy is a flush point: its buffer is needed for the rest.
\* Mutant: only the end of the response is.
FlushPointLast(id) == bufs[id].last
FlushPoint(id) == bufs[id].recycled

\* What is saved and what is new is kept for later, or sent.
WriteFilter(u, new, caller) ==
  LET all == u.saved \o new
      size == Size(all)
      last == \E k \in 1 .. Len(all) : bufs[all[k]].last
      flush == \E k \in 1 .. Len(all) : FlushPoint(all[k]) /\ Size(SubSeq(all, 1, k)) > 0
      v == [u EXCEPT !.saved = all, !.caller = caller, !.pc = "filtered", !.out = <<>>]
  IN  IF ~last /\ ~flush /\ new # <<>> /\ size < resp.postpone_output THEN [v EXCEPT !.rc = "ok"]
      ELSE IF u.delayed THEN [v EXCEPT !.rc = "again"]
      ELSE IF size = 0 THEN [v EXCEPT !.rc = "ok"]
      ELSE [v EXCEPT !.pc = "send", !.chain = all, !.send = 0, !.from = Len(client)]

\* What ngx_linux_sendfile_chain() returned is saved; the rate is kept by a pause.
SendDone(u, chain, error) ==
  LET v == IF resp.limit_rate > 0 THEN [u EXCEPT !.delayed = TRUE, !.timer = "delay"] ELSE u
  IN  [ v EXCEPT !.pc = "filtered", !.saved = IF error THEN @ ELSE chain,
                 !.rc = IF error THEN "error" ELSE IF chain # <<>> THEN "again" ELSE "ok" ]

-----------------------------------------------------------------------------
(* ngx_linux_sendfile_chain(): one system call.                              *)

\* Without limit_rate the limit is the largest off_t, which no response reaches.
AtLimit(send) == resp.limit_rate > 0 /\ send >= resp.limit_rate

\* The buffers in memory before the first one in a file, or the neighbouring ones
\* in a file.
Run(chain) ==
  LET file(k) == bufs[chain[k]].kind = "file"
      before == {k \in 1 .. Len(chain) : \A j \in 1 .. k : ~file(j)}
      memory == \E k \in before : ~Special(chain[k])
      first == Cardinality(before) + 1
  IN  IF memory \/ first > Len(chain)
      THEN [in_file |-> FALSE, units |-> Units(SubSeq(chain, 1, first - 1))]
      ELSE [ in_file |-> TRUE,
             units |-> Units(SelectSeq(SubSeq(chain, first, Len(chain)),
                               LAMBDA id : \A k \in first .. Len(chain) :
                                 ~file(k) => \E j \in first .. k - 1 : chain[j] = id)) ]
\* How many of them the call is asked to send: up to the limit, for a file up to
\* the end of the page there.
Asked(chain, send) ==
  LET run == Run(chain)
      left == resp.limit_rate - send
      whole == Len(run.units)
      ends == {id \in Range(chain) : bufs[id].data # <<>> /\ bufs[id].kind = "file"}
      at == run.units[1] - 1
      aligned == ((at + left + Page - 1) \div Page) * Page
      of == CHOOSE id \in ends : Contains(bufs[id].data, at + left)
  IN  IF AtLimit(send) THEN 0
      ELSE IF resp.limit_rate = 0 \/ whole <= left THEN whole
      ELSE IF run.in_file /\ aligned <= Last(bufs[of].data) THEN aligned - at
      ELSE left

\* What of a chain was sent is behind it.
Before(chain, k) == Size(SubSeq(chain, 1, k - 1))
Advanced(chain, sent) ==
  [ id \in DOMAIN bufs |->
      IF \E k \in 1 .. Len(chain) : chain[k] = id
      THEN LET k == CHOOSE j \in 1 .. Len(chain) : chain[j] = id
               part == Max({0, Min({sent - Before(chain, k), Length(id)})})
           IN  [bufs[id] EXCEPT !.data = SubSeq(@, part + 1, Length(id))]
      ELSE bufs[id] ]
Rest(chain, sent) ==
  LET gone == { k \in 1 .. Len(chain) :
                  \A j \in 1 .. k : Special(chain[j]) \/ Before(chain, j + 1) <= sent }
  IN  SubSeq(chain, Cardinality(gone) + 1, Len(chain))

Send ==
  /\ t.pc = "send" /\ t.ready
  /\ LET asked == Asked(t.chain, t.send)
         run == Run(t.chain)
         there == {k \in 1 .. asked : ~run.in_file \/ run.units[k] <= resp.there}
         sent == Min({room, Cardinality(there)})
         rest == Rest(t.chain, sent)
         u == [t EXCEPT !.send = @ + asked, !.chain = rest, !.ready = sent = asked]
     IN  /\ t' = IF sent # asked \/ AtLimit(u.send) \/ rest = <<>> THEN SendDone(u, rest, FALSE)
                 ELSE u
         /\ bufs' = Advanced(t.chain, sent)
         /\ client' = client \o SubSeq(run.units, 1, sent)
         /\ room' = room - sent
  /\ UNCHANGED resp
\* EINTR: the call is repeated, what it was asked to send is counted again.
Interrupted ==
  /\ t.pc = "send" /\ t.ready /\ t.interrupts < MaxInterrupts
  /\ Asked(t.chain, t.send) > 0
  /\ t' = [t EXCEPT !.send = @ + Asked(t.chain, t.send), !.interrupts = @ + 1]
  /\ UNCHANGED <<resp, bufs, client, room>>
NotReady ==
  /\ t.pc = "send" /\ ~t.ready
  /\ t' = SendDone(t, t.chain, FALSE)
  /\ UNCHANGED <<resp, bufs, client, room>>
\* The client has reset the connection.
Failed ==
  /\ t.pc = "send" /\ t.ready
  /\ t' = SendDone(t, t.chain, TRUE)
  /\ UNCHANGED <<resp, bufs, client, room>>

-----------------------------------------------------------------------------
(* ngx_output_chain().                                                       *)

\* ngx_chain_update_chains(): a copy that was sent is free again, the oldest first.
\* Mutant: every copy is.
UpdatedAll(u) ==
  [u EXCEPT !.busy = <<>>, !.free = Reverse(SelectSeq(u.busy, LAMBDA id : id \in Copies)) \o @]
Updated(u) ==
  LET sent == {k \in 1 .. Len(u.busy) : \A j \in 1 .. k : Length(u.busy[j]) = 0}
      gone == SubSeq(u.busy, 1, Cardinality(sent))
  IN  [ u EXCEPT !.busy = SubSeq(@, Cardinality(sent) + 1, Len(@)),
                 !.free = Reverse(SelectSeq(gone, LAMBDA id : id \in Copies)) \o @ ]

\* The buffer a copy is made into: a free one, or a new one when nothing is to be
\* sent before; a new one is not larger than it has to be for the end.
CopyTo(u, id) ==
  LET bsize == Length(id)
      small == bufs[id].last /\ (bsize < resp.size \/ (resp.num = 1 /\ 4 * bsize < 5 * resp.size))
  IN  IF u.free # <<>> THEN [id |-> Head(u.free), free |-> Tail(u.free), size |-> bufs[Head(u.free)].size, new |-> 0]
      ELSE IF u.out # <<>> \/ u.allocated = resp.num
      THEN [id |-> 0, free |-> <<>>, size |-> 0, new |-> 0]
      ELSE [ id |-> Sources + u.allocated + 1, free |-> <<>>,
             size |-> IF small THEN bsize ELSE resp.size, new |-> 1 ]

\* One round of the inner loop: the first buffer of ctx->in is moved to the output
\* or copied, as far as there is a buffer for it. A file may be shorter than it was.
Move(id) ==
  /\ ~NeedToCopy(id)
  /\ t' = [ t EXCEPT !.in = Tail(@),
                     !.out = IF Length(id) = 0 /\ ~Special(id) THEN @ ELSE Append(@, id) ]
  /\ UNCHANGED bufs
Copy(id) ==
  LET to == CopyTo(t, id)
      data == bufs[id].data
      there == SelectSeq(data, LAMBDA x : bufs[id].kind # "file" \/ x <= resp.there)
      n == Min({to.size, Len(there)})
      end == n = Len(data)
  IN  /\ NeedToCopy(id) /\ to.id # 0
      /\ IF n = 0 THEN t' = Returned(t, "error") /\ UNCHANGED bufs
         ELSE /\ t' = [ t EXCEPT !.in = IF end THEN Tail(@) ELSE @, !.free = to.free,
                                 !.allocated = @ + to.new, !.out = Append(@, to.id) ]
              /\ bufs' = [ bufs EXCEPT ![to.id].data = SubSeq(data, 1, n), ![to.id].size = to.size,
                                       ![to.id].last = bufs[id].last /\ end,
                                       ![id].data = SubSeq(data, n + 1, Len(data)) ]
Fill ==
  /\ t.pc = "fill" /\ t.in # <<>>
  /\ Move(Head(t.in)) \/ Copy(Head(t.in))
  /\ UNCHANGED <<resp, client, room>>
\* One round of the outer loop: the next filter.
Filled ==
  /\ t.pc = "fill"
  /\ t.in # <<>> => NeedToCopy(Head(t.in)) /\ CopyTo(t, Head(t.in)).id = 0
  /\ t' = IF t.out = <<>> /\ t.last # "none" THEN Returned(t, t.last)
          ELSE [t EXCEPT !.pc = "filter"]
  /\ UNCHANGED <<resp, bufs, client, room>>
Filter ==
  /\ t.pc = "filter"
  /\ t' = WriteFilter([t EXCEPT !.busy = @ \o t.out], t.out, "loop")
  /\ UNCHANGED <<resp, bufs, client, room>>
Filtered ==
  /\ t.pc = "filtered"
  /\ t' = CASE t.caller = "header" -> IF t.rc = "error" THEN Over(t, "closed") ELSE [t EXCEPT !.pc = "body"]
            [] t.caller = "short" -> Returned(t, t.rc)
            [] t.caller = "loop" -> IF t.rc = "error" THEN Returned(t, t.rc)
                                    ELSE [Updated(t) EXCEPT !.last = t.rc, !.pc = "fill"]
  /\ UNCHANGED <<resp, bufs, client, room>>

\* ngx_http_copy_filter(): the short path, or the loop.
OutputFilter(u, in) ==
  IF u.in = <<>> /\ (in = <<>> \/ (Len(in) = 1 /\ ~NeedToCopy(in[1])))
  THEN WriteFilter(u, in, "short")
  ELSE [u EXCEPT !.in = @ \o in, !.last = "none", !.pc = "fill"]

-----------------------------------------------------------------------------
(* The handler of the content, the events and the client.                    *)

\* ngx_http_header_filter() calls the last filter.
Header ==
  /\ t.pc = "header"
  /\ t' = WriteFilter(t, <<1>>, "header")
  /\ UNCHANGED <<resp, bufs, client, room>>
Body ==
  /\ t.pc = "body"
  /\ t' = OutputFilter([t EXCEPT !.chains = Tail(@)], Head(t.chains))
  /\ UNCHANGED <<resp, bufs, client, room>>

\* ngx_http_writer().
WriteEvent ==
  /\ t.pc = "wait" /\ t.edge
  /\ LET u == [t EXCEPT !.edge = FALSE, !.ready = TRUE, !.writer = TRUE] IN
     t' = IF u.delayed THEN u ELSE OutputFilter(u, <<>>)
  /\ UNCHANGED <<resp, bufs, client, room>>
WriteTimer ==
  /\ t.pc = "wait" /\ t.timer # "off"
  /\ LET u == [t EXCEPT !.timer = "off", !.writer = TRUE] IN
     t' = IF ~u.delayed THEN Over(u, "timed out")
          ELSE LET v == [u EXCEPT !.delayed = FALSE] IN
               IF v.ready THEN OutputFilter(v, <<>>) ELSE [v EXCEPT !.timer = "send"]
  /\ UNCHANGED <<resp, bufs, client, room>>

\* The client takes data, at any time, but only a call of the socket sees it; the edge
\* comes when the socket was full.
Takes ==
  /\ t.pc \in {"send", "wait"} /\ room < Room
  /\ \E n \in 1 .. Room - room : room' = room + n
  /\ t' = [t EXCEPT !.edge = @ \/ room = 0]
  /\ UNCHANGED <<resp, bufs, client>>

Handler == Header \/ Body \/ Fill \/ Filled \/ Filter \/ Send \/ Interrupted \/ NotReady \/ Failed \/ Filtered
Next == Handler \/ WriteEvent \/ WriteTimer \/ Takes
Spec == Init /\ [][Next]_vars

-----------------------------------------------------------------------------
(* Properties.                                                               *)

TypeOK ==
  /\ t.pc \in {"header", "body", "fill", "filter", "send", "filtered", "wait", "over"}
  /\ t.rc \in {"ok", "again", "error"} /\ t.last \in {"none", "ok", "again", "error"}
  /\ t.timer \in {"off", "send", "delay"} /\ t.allocated \in 0 .. resp.num
  /\ room \in 0 .. Room /\ t.end \in {"none", "sent", "timed out", "closed"}
  /\ \A id \in Copies : Len(bufs[id].data) <= bufs[id].size /\ bufs[id].size <= Max({resp.size, 1} \cup {(5 * resp.size) \div 4})

Left == (IF t.pc = "header" THEN <<1>> ELSE <<>>) \o t.saved \o t.out \o t.in \o FlattenSeq(t.chains)
All == FlattenSeq([id \in 1 .. Sources |-> resp.bufs[id].data])
\* What the socket has taken and what is on its way are the response, each byte once
\* and in order, however often a copy's buffer is used again; a response that was
\* not refused or given up is sent whole; and between two pauses the rate is kept,
\* but for the rest of a page.
ResponseWhole ==
  /\ t.end # "closed" => client \o Units(Left) = All
  /\ t.end = "sent" => client = All
  /\ resp.limit_rate > 0 => Len(client) - t.from < resp.limit_rate + Page

\* A response that waits, for the socket or for the end of a pause, has a timer that
\* ends the wait: no sequence of filters, events and pauses leaves it without one.
ResponseTimed == t.pc = "wait" => t.timer # "off"
=============================================================================
