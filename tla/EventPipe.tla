------------------------------ MODULE EventPipe ------------------------------
(***************************************************************************)
(* The event pipe: the body of a proxied response on its way from the      *)
(* upstream socket through a fixed number of raw buffers, and a temporary  *)
(* file when the client is slow, to the client's socket                    *)
(* (event/ngx_event_pipe.c, ngx_chain_update_chains in core/ngx_buf.c, and *)
(* ngx_http_proxy_process_body, which calls it).                           *)
(*                                                                         *)
(* The response is the sequence of units 1, 2, 3 ... A raw buffer is read  *)
(* into; a shadow buffer points to the part of a raw buffer, and later of  *)
(* the file, that one input filter call passed on. Both are numbered: the  *)
(* links raw.shadow and shadow.shadow matter when they are reused. p is    *)
(* ngx_event_pipe_t with cachable, single_buf and cyclic_temp_file off;    *)
(* p.last is what the output filter was handed at the end.                 *)
(***************************************************************************)
EXTENDS Integers, Sequences, FiniteSets, SequencesExt

CONSTANTS
  Total,      \* bound: units the upstream sends
  Size,       \* bufs.size, in units
  Num,        \* bufs.num
  HeadRoom,   \* what the header left free in header_in
  BusySize, WriteSize, MaxFileSize  \* the limits of the location

EventPipeAssumption ==
  /\ Total \in Nat \ {0} /\ Size \in Nat \ {0} /\ Num \in Nat \ {0, 1}
  /\ HeadRoom \in 1 .. Size
  /\ BusySize \in Nat /\ WriteSize \in Nat /\ MaxFileSize \in Nat
  /\ Size <= BusySize /\ Size <= WriteSize /\ Size <= MaxFileSize

Raws    == 0 .. Num        \* 0 is header_in
Shadows == 1 .. Total
None    == -1
Room(r) == IF r = 0 THEN HeadRoom ELSE Size

VARIABLES
  p,               \* ngx_event_pipe_t
  raw,             \* the raw buffers: last - start, and shadow
  mem,             \* the memory of each raw buffer
  sh,              \* the shadow buffers
  file,            \* the units in the temporary file
  uready, dready,  \* upstream->read->ready, downstream->write->ready
  client,          \* the units sent to the client
  got,             \* units read from the upstream
  pc

vars == <<p, raw, mem, sh, file, uready, dready, client, got, pc>>

\* lo, hi: pos and last in the memory of raw buffer "of"; infile: in_file and
\* temp_file; fpos: file_pos; shadow, last_shadow: the link back.
NoShadow == [ of |-> 0, lo |-> 0, hi |-> 0, infile |-> FALSE, fpos |-> 0,
              shadow |-> None, last_shadow |-> FALSE ]

Init ==
  /\ p = [ free_raw |-> <<>>, in |-> <<>>, out |-> <<>>, busy |-> <<>>,
           free |-> <<>>, last |-> <<>>, used |-> 0, allocated |-> 0, offset |-> 0,
           preread |-> TRUE, read |-> FALSE, blocked |-> FALSE, eof |-> FALSE,
           error |-> FALSE, done |-> FALSE, derror |-> FALSE ]
  /\ raw = [r \in Raws |-> [last |-> 0, shadow |-> None]]
  /\ mem = [r \in Raws |-> <<>>]
  /\ sh = [b \in Shadows |-> NoShadow]
  /\ file = <<>>
  /\ uready \in BOOLEAN /\ dready \in BOOLEAN
  /\ client = <<>> /\ got = 0
  /\ pc = "read"

Length(b)  == sh[b].hi - sh[b].lo           \* ngx_buf_size
Content(b) == IF sh[b].infile
              THEN SubSeq(file, sh[b].fpos + 1, sh[b].fpos + Length(b))
              ELSE SubSeq(mem[sh[b].of], sh[b].lo + 1, sh[b].hi)
Contents(chain) == FoldLeft(LAMBDA c, b : c \o Content(b), <<>>, chain)
Units(chain) == FoldLeft(LAMBDA n, b : n + Length(b), 0, chain)

\* What the functions below take and return: the pipe and its buffers, and
\* whether every pointer they followed was there.
S == [ p |-> p, raw |-> raw, mem |-> mem, sh |-> sh, got |-> got, ok |-> TRUE ]
Becomes(s) ==
  p' = s.p /\ raw' = s.raw /\ mem' = s.mem /\ sh' = s.sh /\ got' = s.got

-----------------------------------------------------------------------------
(* Buffers.                                                                *)

\* Mutant: a free buffer goes before the one that is partly filled.
AddFreeBufFirst(s, r) == [s EXCEPT !.p.free_raw = <<r>> \o @]

\* ngx_event_pipe_add_free_buf: the partly filled buffer stays first.
AddFreeBuf(s, r) ==
  LET f == s.p.free_raw IN
  IF f # <<>> /\ s.raw[Head(f)].last # 0
  THEN [s EXCEPT !.p.free_raw = <<Head(f), r>> \o Tail(f)]
  ELSE [s EXCEPT !.p.free_raw = <<r>> \o f]

\* Mutant: the raw buffer of a sent shadow buffer is forgotten.
FreeShadowOnly(s, b) ==
  [s EXCEPT !.sh[b].shadow = None, !.sh[b].last_shadow = FALSE]

\* A shadow buffer gives its raw buffer back and loses its link.
FreeShadow(s, b) ==
  LET r == s.sh[b].shadow
      t == [s EXCEPT !.sh[b].shadow = None, !.sh[b].last_shadow = FALSE]
  IN  IF s.sh[b].last_shadow
      THEN AddFreeBuf([t EXCEPT !.raw[r] = [last |-> 0, shadow |-> None]], r)
      ELSE t

\* ngx_event_pipe_remove_shadow_links, before r is read into. It follows the
\* links up to a last_shadow, which a buffer reused in between has lost.
RemoveShadowLinks(s, r) ==
  LET b == s.raw[r].shadow IN
  IF b = None THEN s
  ELSE [s EXCEPT !.ok = @ /\ s.sh[b].last_shadow, !.raw[r].shadow = None, !.sh[b].shadow = None,
                 !.sh[b].last_shadow = FALSE, !.sh[b].infile = FALSE]

\* ngx_event_pipe_copy_input_filter: a shadow buffer for the units in r.
InputFilter(s, r) ==
  LET reused == s.p.free # <<>>
      b      == IF reused THEN Head(s.p.free) ELSE s.p.used + 1
  IN  IF s.raw[r].last = 0 THEN s
      ELSE [s EXCEPT
              !.p.free = IF reused THEN Tail(@) ELSE @,
              !.p.used = IF reused THEN @ ELSE @ + 1,
              !.p.in = Append(@, b),
              !.raw[r].shadow = b,
              !.sh[b] = [NoShadow EXCEPT !.of = r, !.hi = s.raw[r].last,
                                         !.shadow = r, !.last_shadow = TRUE]]

-----------------------------------------------------------------------------
(* ngx_event_pipe_read_upstream.                                           *)

Ended == p.eof \/ p.error
RoomIn(s, chain) ==
  FoldLeft(LAMBDA n, r : n + Room(r) - s.raw[r].last, 0, chain)

\* n units more are spread over the raw buffers of the chain: a full one goes
\* to the input filter, the others are free again.
Filled(s, chain, n) ==
  LET till == s.got + n
      step(t, r) ==
        LET had  == t.raw[r].last
            room == Room(r) - had
            put  == IF till - t.got < room THEN till - t.got ELSE room
            u == [RemoveShadowLinks(t, r) EXCEPT
                    !.raw[r].last = had + put,
                    !.mem[r] = SubSeq(@, 1, had) \o [j \in 1 .. put |-> t.got + j]
                               \o SubSeq(@, had + put + 1, Len(@)),
                    !.got = @ + put]
        IN  IF t.got = till THEN [t EXCEPT !.p.free_raw = Append(@, r)]
            ELSE IF put = room THEN InputFilter(u, r)
            ELSE [u EXCEPT !.p.free_raw = Append(@, r)]
      f == FoldLeft(step, [s EXCEPT !.p.free_raw = <<>>], chain)
  IN  IF n = 0 THEN [s EXCEPT !.p.free_raw = chain]
      ELSE [s EXCEPT !.p.free_raw = f.p.free_raw, !.p.in = f.p.in, !.p.free = f.p.free,
                     !.p.used = f.p.used, !.raw = f.raw, !.mem = f.mem, !.sh = f.sh,
                     !.got = f.got, !.ok = f.ok]

\* ngx_recv_chain: EAGAIN, an error, the end, or n units. Epoll is greedy, so
\* "ready" stays until EAGAIN.
Recv(s, chain) ==
  LET kept == [s EXCEPT !.p.free_raw = chain] IN
  /\ \/ Becomes(kept) /\ uready' = FALSE /\ pc' = "read_end" /\ chain # <<>>
     \/ Becomes([kept EXCEPT !.p.error = TRUE]) /\ uready' = FALSE
        /\ pc' = "loop" /\ chain # <<>>
     \/ Becomes([kept EXCEPT !.p.eof = TRUE, !.p.read = TRUE])
        /\ uready' = FALSE /\ pc' = "read_end"
     \/ \E n \in 1 .. RoomIn(s, chain) :
          /\ got + n <= Total
          /\ LET f == Filled(s, chain, n) IN
             /\ Becomes([f EXCEPT !.p.read = TRUE])
             /\ pc' = IF f.ok THEN "read" ELSE "crashed"
          /\ UNCHANGED uready
  /\ UNCHANGED <<dready, client>>

\* The bytes that came with the header.
ReadPreread ==
  /\ pc = "read" /\ ~Ended /\ p.preread
  /\ \E n \in 0 .. HeadRoom :
       /\ n <= Total
       /\ Becomes([Filled(S, <<0>>, n) EXCEPT !.p.preread = FALSE,
                                              !.p.read = n > 0])
  /\ UNCHANGED <<file, uready, dready, client, pc>>

CanRead == pc = "read" /\ ~Ended /\ ~p.preread /\ uready
NoRawBuf == CanRead /\ p.free_raw = <<>> /\ p.allocated = Num

ReadFree ==
  /\ CanRead /\ p.free_raw # <<>>
  /\ Recv(S, p.free_raw)
  /\ UNCHANGED file

ReadNew ==
  /\ CanRead /\ p.free_raw = <<>> /\ p.allocated < Num
  /\ Recv([S EXCEPT !.p.allocated = @ + 1], <<p.allocated + 1>>)
  /\ UNCHANGED file

\* The client can be written to: that is tried before the temporary file.
ReadBlocked ==
  /\ NoRawBuf /\ dready
  /\ p' = [p EXCEPT !.blocked = TRUE]
  /\ pc' = "read_end"
  /\ UNCHANGED <<raw, mem, sh, file, uready, dready, client, got>>

\* Mutant: what is in the file already is not counted.
FitsUncounted(k) ==
  LET n == Units(SubSeq(p.in, 1, k)) IN n <= WriteSize /\ n <= MaxFileSize

\* ngx_event_pipe_write_chain_to_temp_file writes the first k of the "in"
\* chain: as many as the two limits allow.
Fits(k) ==
  LET n == Units(SubSeq(p.in, 1, k)) IN
  n <= WriteSize /\ p.offset + n <= MaxFileSize
Written(k) ==
  LET step(s, b) ==
        LET r == s.sh[b].shadow
            t == [s EXCEPT !.p.out = Append(@, b), !.p.offset = @ + Length(b),
                           !.sh[b].infile = TRUE, !.sh[b].fpos = s.p.offset]
        IN  IF s.sh[b].last_shadow
            THEN [t EXCEPT !.raw[r].last = 0, !.p.free_raw = Append(@, r)]
            ELSE t
      w == FoldLeft(step, S, SubSeq(p.in, 1, k))
  IN  [S EXCEPT !.p.in = SubSeq(@, k + 1, Len(@)), !.p.out = w.p.out, !.p.offset = w.p.offset,
                !.p.free_raw = w.p.free_raw, !.raw = w.raw, !.sh = w.sh]

ReadToFile ==
  /\ NoRawBuf /\ ~dready /\ p.offset < MaxFileSize
  /\ \E k \in 1 .. Len(p.in) :
       /\ Fits(k) /\ (k < Len(p.in) => ~Fits(k + 1))
       /\ file' = file \o Contents(SubSeq(p.in, 1, k))
       /\ Recv(Written(k), Written(k).p.free_raw)

\* The chain is empty, or its first buffer does not fit: a null pointer is
\* read, or written to.
ReadCrashes ==
  /\ NoRawBuf /\ ~dready /\ p.offset < MaxFileSize
  /\ ~(p.in # <<>> /\ Fits(1))
  /\ pc' = "crashed"
  /\ UNCHANGED <<p, raw, mem, sh, file, uready, dready, client, got>>

ReadNoBufs ==
  /\ pc = "read" /\ ~Ended
  /\ \/ ~p.preread /\ ~uready
     \/ NoRawBuf /\ ~dready /\ p.offset >= MaxFileSize
  /\ pc' = "read_end"
  /\ UNCHANGED <<p, raw, mem, sh, file, uready, dready, client, got>>

ReadOver ==
  /\ pc = "read" /\ Ended
  /\ pc' = "loop"
  /\ UNCHANGED <<p, raw, mem, sh, file, uready, dready, client, got>>

\* At the end of the response the partly filled buffer is passed on.
ReadEnd ==
  /\ pc = "read_end"
  /\ IF Ended /\ p.free_raw # <<>>
     THEN Becomes([InputFilter(S, Head(p.free_raw)) EXCEPT !.p.free_raw = Tail(@)])
     ELSE Becomes(S)
  /\ pc' = "loop"
  /\ UNCHANGED <<file, uready, dready, client>>

-----------------------------------------------------------------------------
(* ngx_event_pipe_write_to_downstream.                                     *)

\* ngx_event_pipe_drain_chains: nothing is sent any more.
Drained(s) ==
  LET step(t, b) == [FreeShadow(t, b) EXCEPT !.p.free = <<b>> \o @]
      d == FoldLeft(step, s, s.p.busy \o s.p.out \o s.p.in)
  IN  [s EXCEPT !.p.busy = <<>>, !.p.out = <<>>, !.p.in = <<>>, !.p.free = d.p.free,
                !.p.free_raw = d.p.free_raw, !.raw = d.raw, !.sh = d.sh]

\* Mutant: upstream_blocked is not reset.
ToReadBlocked(s) == [s EXCEPT !.p.read = FALSE]

\* The top of the loop in ngx_event_pipe.
ToRead(s) == [s EXCEPT !.p.read = FALSE, !.p.blocked = FALSE]

WriteDrain ==
  /\ pc = "write" /\ p.derror
  /\ Becomes(ToRead(Drained(S))) /\ pc' = "read"
  /\ UNCHANGED <<file, uready, dready, client>>

\* The output filter fails: the client is gone, and the chains are drained.
WriteError(s) ==
  /\ Becomes([s EXCEPT !.p.derror = TRUE])
  /\ UNCHANGED <<file, uready, dready, client, pc>>

\* Mutant: at the end only the out chain is handed on.
WriteLastOut ==
  /\ pc = "write" /\ ~p.derror /\ Ended
  /\ Becomes(ToRead([S EXCEPT !.p.last = @ \o p.out, !.p.out = <<>>,
                              !.p.done = TRUE]))
  /\ pc' = "read"
  /\ UNCHANGED <<file, uready, dready, client>>

\* The end of the response: both chains are handed to the output filter.
WriteLast ==
  /\ pc = "write" /\ ~p.derror /\ Ended
  /\ \/ \E o \in {p.out, <<>>} : WriteError([S EXCEPT !.p.out = o])
     \/ /\ Becomes(ToRead([S EXCEPT !.p.last = @ \o p.out \o p.in,
                                    !.p.out = <<>>, !.p.in = <<>>,
                                    !.p.done = TRUE]))
        /\ pc' = "read"
        /\ UNCHANGED <<file, uready, dready, client>>

\* The k first buffers fit with the busy ones into busy_size; if others are
\* left, the output filter is called even with none.
Gathered(k) ==
  LET chain == p.out \o p.in
      size(j) == Len(p.busy) * Size + Units(SubSeq(chain, 1, j))
  IN  /\ k = 0 \/ size(k) <= BusySize
      /\ k < Len(chain) => size(k + 1) > BusySize
Flush(k) == k < Len(p.out \o p.in)

\* The output filter sends n units of the chain.
Sent(s, chain, n) ==
  LET before(k) == Units(SubSeq(chain, 1, k - 1))
      part(k)   == IF n < before(k) THEN 0
                   ELSE IF n - before(k) < Length(chain[k]) THEN n - before(k)
                   ELSE Length(chain[k])
      sent == FoldLeftDomain(LAMBDA t, k : [t EXCEPT ![chain[k]].lo = @ + part(k),
                                                     ![chain[k]].fpos = @ + part(k)],
                             s.sh, chain)
  IN  [s EXCEPT !.sh = sent]

\* ngx_chain_update_chains, and the raw buffers of what is free now. A buffer
\* in the file gave its raw buffer back when it was written there.
Updated(s, chain) ==
  LET gone == {k \in DOMAIN chain :
                 \A j \in 1 .. k : s.sh[chain[j]].lo = s.sh[chain[j]].hi}
      back(t, b) == IF t.sh[b].infile THEN t ELSE FreeShadow(t, b)
      n == Cardinality(gone)
      free == Reverse(SubSeq(chain, 1, n)) \o s.p.free
      u == FoldLeft(back, s, free)
  IN  [s EXCEPT !.p.busy = SubSeq(chain, n + 1, Len(chain)), !.p.free = free,
                !.p.free_raw = u.p.free_raw, !.raw = u.raw, !.sh = u.sh]

WriteOut ==
  /\ pc = "write" /\ ~p.derror /\ ~Ended /\ dready
  /\ \E k \in 0 .. Len(p.out \o p.in) :
       LET all   == p.out \o p.in
           chain == p.busy \o SubSeq(all, 1, k)
           o     == IF k < Len(p.out) THEN SubSeq(p.out, k + 1, Len(p.out)) ELSE <<>>
           rest  == SubSeq(all, k + 1, Len(all))
           taken == [S EXCEPT !.p.out = o,
                              !.p.in = SubSeq(rest, Len(o) + 1, Len(rest))]
       IN  /\ Gathered(k) /\ (k > 0 \/ Flush(k))
           /\ \/ WriteError(taken)
              \/ \E n \in 0 .. Units(chain) :
                   /\ Becomes(Updated(Sent(taken, chain, n), chain))
                   /\ client' = client \o SubSeq(Contents(chain), 1, n)
                   /\ dready' = (n = Units(chain))
                   /\ UNCHANGED <<file, uready, pc>>

WriteEnd ==
  /\ pc = "write" /\ ~p.derror /\ ~Ended
  /\ dready => p.out = <<>> /\ p.in = <<>>
  /\ Becomes(ToRead(S)) /\ pc' = "read"
  /\ UNCHANGED <<file, uready, dready, client>>

-----------------------------------------------------------------------------
(* ngx_event_pipe and ngx_http_proxy_process_body.                         *)

\* Mutant: what was read is not written in the same call.
LoopOnce ==
  /\ pc = "loop"
  /\ pc' = IF p.blocked THEN "write" ELSE IF Ended \/ p.derror THEN "over" ELSE "idle"
  /\ UNCHANGED <<p, raw, mem, sh, file, uready, dready, client, got>>

\* Reading and writing alternate while anything was read; then the proxy
\* finalizes the request or waits for the next event.
Loop ==
  /\ pc = "loop"
  /\ pc' = IF p.read \/ p.blocked THEN "write"
           ELSE IF Ended \/ p.derror THEN "over" ELSE "idle"
  /\ UNCHANGED <<p, raw, mem, sh, file, uready, dready, client, got>>

UpstreamEvent ==
  /\ pc = "idle"
  /\ uready' = TRUE
  /\ Becomes(ToRead(S)) /\ pc' = "read"
  /\ UNCHANGED <<file, dready, client>>

DownstreamEvent ==
  /\ pc = "idle" /\ ~dready
  /\ dready' = TRUE /\ pc' = "write"
  /\ UNCHANGED <<p, raw, mem, sh, file, uready, client, got>>

\* A timer ends the response, the upstream's or the client's.
Timeout ==
  /\ pc = "idle"
  /\ \/ p' = [p EXCEPT !.error = TRUE]
     \/ p' = [p EXCEPT !.derror = TRUE]
  /\ pc' = "over"
  /\ UNCHANGED <<raw, mem, sh, file, uready, dready, client, got>>

-----------------------------------------------------------------------------
Reading == ReadPreread \/ ReadFree \/ ReadNew \/ ReadBlocked \/ ReadToFile
           \/ ReadCrashes \/ ReadNoBufs \/ ReadOver \/ ReadEnd
Writing == WriteDrain \/ WriteLast \/ WriteOut \/ WriteEnd

Next == Reading \/ Writing \/ Loop \/ UpstreamEvent \/ DownstreamEvent \/ Timeout

Spec == Init /\ [][Next]_vars

\* A call of ngx_event_pipe runs on; no event has to come.
FairSpec == Spec /\ WF_vars(Reading \/ Writing \/ Loop)

-----------------------------------------------------------------------------
(* Properties.                                                             *)

Chain == Seq(Shadows)

\* The state has the shape the C declarations give it.
TypeOK ==
  /\ p \in [ free_raw : Seq(Raws), in : Chain, out : Chain, busy : Chain,
             free : Chain, last : Chain, used : 0 .. Total, allocated : 0 .. Num,
             offset : 0 .. MaxFileSize, preread : BOOLEAN, read : BOOLEAN,
             blocked : BOOLEAN, eof : BOOLEAN, error : BOOLEAN, done : BOOLEAN,
             derror : BOOLEAN ]
  /\ raw \in [Raws -> [last : 0 .. Size, shadow : Shadows \cup {None}]]
  /\ mem \in [Raws -> Seq(1 .. Total)]
  /\ sh \in [Shadows -> [ of : Raws, lo : 0 .. Size, hi : 0 .. Size,
               infile : BOOLEAN, fpos : 0 .. MaxFileSize,
               shadow : Raws \cup {None}, last_shadow : BOOLEAN]]
  /\ file \in Seq(1 .. Total) /\ client \in Seq(1 .. Total)
  /\ uready \in BOOLEAN /\ dready \in BOOLEAN
  /\ got \in 0 .. Total
  /\ pc \in {"read", "read_end", "loop", "write", "idle", "over", "crashed"}

Spilled == file # <<>>
Partial == IF p.free_raw = <<>> THEN <<>>
           ELSE SubSeq(mem[Head(p.free_raw)], 1, raw[Head(p.free_raw)].last)
Held == p.busy \o p.last \o p.out \o p.in

\* As long as nothing had to be written to the temporary file: what the client
\* has, what is on its way in the chains, and what is in the partly filled
\* buffer are the units read from the upstream, each once and in order.
NothingLost ==
  ~Spilled /\ ~p.derror =>
    client \o Contents(Held) \o Partial = [k \in 1 .. got |-> k]

\* The same with the file (the comment in ngx_event_pipe_read_upstream: save
\* some bufs to a temporary file, and add them to the out chain).
NothingLostWithFile ==
  ~p.derror => client \o Contents(Held) \o Partial = [k \in 1 .. got |-> k]

\* When the upstream has ended the response, all of it was handed to the
\* output filter before the request is finalized.
EndIsPassed ==
  pc = "over" /\ p.eof /\ ~p.derror => p.done /\ p.out = <<>> /\ p.in = <<>>

\* A call that returns while the client could be written to has handed all of
\* the response to the output filter: the write event was edge-triggered and
\* does not come again. (What the filter keeps as busy may stay there: without
\* new buffers the pipe does not call it.)
ReadyMeansFlushed ==
  pc = "idle" /\ dready => p.out \o p.in = <<>>

\* A raw buffer is free or the memory of one buffer to be sent, never both
\* and never neither: none leaks, and none is read into too early.
RawBufsConserved ==
  ~Spilled /\ pc = "idle" =>
    \A r \in Raws : (r = 0 \/ r <= p.allocated) =>
      LET uses == {k \in DOMAIN Held : sh[Held[k]].shadow = r}
          free == {k \in DOMAIN p.free_raw : p.free_raw[k] = r}
      IN  Cardinality(uses) + Cardinality(free) = 1

\* The data and the memory it is in stay together, within their sizes.
DataConserved == TypeOK /\ NothingLost /\ RawBufsConserved

\* Nothing waits in the pipe for an event that does not come: neither at the
\* end of the response nor at the end of a call.
NothingStuck == EndIsPassed /\ ReadyMeansFlushed

\* A call of ngx_event_pipe returns: reading and writing do not wait for each
\* other inside it.
EveryCallReturns == pc \notin {"idle", "over"} ~> pc \in {"idle", "over", "crashed"}

=============================================================================
