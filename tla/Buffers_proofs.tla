--------------------------- MODULE Buffers_proofs ---------------------------
(***************************************************************************)
(* Proofs about the two places where bytes wait in buffers for a socket:   *)
(* the relay of Imap, for any sizes of buffers and sockets, and the chains *)
(* of OutputChain, for any response, setting of the location and socket.   *)
(***************************************************************************)
EXTENDS Imap, SequenceTheorems, TLAPS

(* The response of OutputChain.                                            *)
CONSTANTS Responses, Room, Page, MaxInterrupts
VARIABLES resp, bufs, t, client, room
Oc == INSTANCE OutputChain

-----------------------------------------------------------------------------
(* One way of the relay, whatever the session was before.                  *)

Numbers(low, q) == \A k \in 1 .. Len(q) : q[k] = low + k
WayFields == {"sent", "wire", "eof", "buf", "off", "got", "full", "read", "write",
              "readable", "writable"}
\* The units that arrived, that are in the buffer and in the socket are numbered on.
Parts(got, buf, wir, sent) ==
  /\ got \in Seq(Nat) /\ buf \in Seq(Nat) /\ wir \in Seq(Nat) /\ sent \in Nat
  /\ sent = Len(got) + Len(buf) + Len(wir)
  /\ Numbers(0, got) /\ Numbers(Len(got), buf) /\ Numbers(Len(got) + Len(buf), wir)
Whole(w) == DOMAIN w = WayFields /\ Parts(w.got, w.buf, w.wire, w.sent)
\* Fits: the buffer and the socket are not overrun.
Fits(w, size) ==
  /\ w.off \in Nat /\ w.full \in 0 .. SocketBuf /\ Len(w.buf) + w.off <= size
  /\ w.read \in BOOLEAN /\ w.write \in BOOLEAN /\ w.readable \in BOOLEAN /\ w.writable \in BOOLEAN
\* A side that is not ready has nothing to take, or its event is to come.
Ready(w) ==
  /\ w.read = FALSE => w.wire = <<>> \/ w.readable = TRUE
  /\ w.write = FALSE => w.full = SocketBuf \/ w.writable = TRUE
\* What the buffer has waits for the socket; what the socket has, for the buffer.
Flushed(w) == w.buf = <<>> \/ w.full = SocketBuf \/ w.writable = TRUE
Drained(w, size) == w.wire = <<>> \/ w.readable = TRUE \/ Len(w.buf) + w.off = size

WayInv(d) == Whole(way[d]) /\ Fits(way[d], Size(d)) /\ Ready(way[d])
\* The handler of the other way leaves this one alone; its own handler has yet to
\* write, if it is to write, and to read.
Handled(d) ==
  /\ ~(call.way = d /\ call.step = "write" /\ call.do_write = TRUE) => Flushed(way[d])
  /\ call.way # d => Drained(way[d], Size(d))

Calls ==
  {NoCall} \cup [way : Ways, step : {"write", "read"}, do_write : BOOLEAN, again : BOOLEAN]
RelayInv ==
  /\ DOMAIN way = Ways /\ call \in Calls
  /\ \A d \in Ways : WayInv(d) /\ Handled(d)

LEMMA NumbersAppend ==
  ASSUME NEW low \in Nat, NEW q \in Seq(Nat), Numbers(low, q)
  PROVE  LET r == Append(q, low + Len(q) + 1)
         IN  r \in Seq(Nat) /\ Len(r) = Len(q) + 1 /\ Numbers(low, r)
<1> DEFINE r == Append(q, low + Len(q) + 1)
<1>1. Len(q) \in Nat /\ low + Len(q) + 1 \in Nat
  OBVIOUS
<1>2. /\ r \in Seq(Nat) /\ Len(r) = Len(q) + 1 /\ r[Len(q) + 1] = low + Len(q) + 1
      /\ \A i \in 1 .. Len(q) : r[i] = q[i]
  BY <1>1, AppendProperties
<1> HIDE DEF r
<1>3. ASSUME NEW k \in 1 .. Len(r) PROVE r[k] = low + k
  <2>1. CASE k = Len(q) + 1
    BY <1>1, <1>2, <2>1
  <2>2. CASE k \in 1 .. Len(q)
    BY <1>2, <2>2 DEF Numbers
  <2> QED
    BY <1>1, <1>2, <2>1, <2>2
<1> QED
  BY <1>2, <1>3 DEF Numbers, r

\* A part of q moves to the end of p.
LEMMA NumbersMove ==
  ASSUME NEW low \in Nat, NEW p \in Seq(Nat), NEW q \in Seq(Nat), NEW n \in 0 .. Len(q),
         Numbers(low, p), Numbers(low + Len(p), q)
  PROVE  LET r == p \o SubSeq(q, 1, n)
             tl == SubSeq(q, n + 1, Len(q))
         IN  /\ r \in Seq(Nat) /\ Len(r) = Len(p) + n /\ Numbers(low, r)
             /\ tl \in Seq(Nat) /\ Len(tl) = Len(q) - n /\ Numbers(low + Len(p) + n, tl)
<1> DEFINE h == SubSeq(q, 1, n)
           r == p \o h
           tl == SubSeq(q, n + 1, Len(q))
<1>1. Len(p) \in Nat /\ Len(q) \in Nat /\ n \in Nat /\ n <= Len(q)
  OBVIOUS
<1>2. h \in Seq(Nat) /\ Len(h) = n /\ \A i \in 1 .. n : h[i] = q[i]
  <2>1. \A i \in 1 .. n : q[i] \in Nat
    BY <1>1
  <2>2. /\ h \in Seq(Nat) /\ Len(h) = IF 1 <= n THEN n - 1 + 1 ELSE 0
        /\ \A i \in 1 .. n - 1 + 1 : h[i] = q[1 + i - 1]
    BY <1>1, <2>1, SubSeqProperties
  <2> HIDE DEF h
  <2> QED
    BY <1>1, <2>2
<1>3. tl \in Seq(Nat) /\ Len(tl) = Len(q) - n /\ \A i \in 1 .. Len(q) - n : tl[i] = q[n + i]
  <2>1. \A i \in n + 1 .. Len(q) : q[i] \in Nat
    BY <1>1
  <2>2. /\ tl \in Seq(Nat) /\ Len(tl) = IF n + 1 <= Len(q) THEN Len(q) - (n + 1) + 1 ELSE 0
        /\ \A i \in 1 .. Len(q) - (n + 1) + 1 : tl[i] = q[n + 1 + i - 1]
    BY <1>1, <2>1, SubSeqProperties
  <2>3. n \in Nat /\ Len(q) \in Nat /\ n <= Len(q)
    BY <1>1
  <2> HIDE DEF tl, h, r
  <2>4. Len(q) - (n + 1) + 1 = Len(q) - n /\ (n + 1 > Len(q) => Len(q) - n = 0)
    BY <2>3
  <2>5. Len(tl) = Len(q) - n
    <3>1. CASE n + 1 <= Len(q)
      BY <2>2, <2>4, <3>1
    <3>2. CASE ~(n + 1 <= Len(q))
      <4>1. n = Len(q)
        BY <2>3, <3>2
      <4>2. Len(tl) = 0
        BY <2>2, <3>2
      <4> QED
        BY <2>3, <4>1, <4>2
    <3> QED
      BY <3>1, <3>2
  <2>6. ASSUME NEW i \in 1 .. Len(q) - n PROVE tl[i] = q[n + i]
    <3>1. n + 1 + i - 1 = n + i
      BY <2>3
    <3> QED
      BY <2>2, <2>4, <3>1
  <2> QED
    BY <2>2, <2>5, <2>6
<1> HIDE DEF h
<1>4. /\ r \in Seq(Nat) /\ Len(r) = Len(p) + n
      /\ \A i \in 1 .. Len(p) + n : r[i] = IF i <= Len(p) THEN p[i] ELSE h[i - Len(p)]
  BY <1>1, <1>2, ConcatProperties
<1> HIDE DEF r, tl
<1>5. ASSUME NEW k \in 1 .. Len(r) PROVE r[k] = low + k
  <2>1. CASE k <= Len(p)
    <3>1. k \in 1 .. Len(p) /\ r[k] = p[k]
      BY <1>1, <1>4, <2>1
    <3> QED
      BY <3>1 DEF Numbers
  <2>2. CASE k > Len(p)
    <3>1. k - Len(p) \in 1 .. n /\ k - Len(p) \in 1 .. Len(q)
      BY <1>1, <1>4, <2>2
    <3>2. r[k] = q[k - Len(p)] /\ q[k - Len(p)] = low + Len(p) + (k - Len(p))
      BY <1>1, <1>2, <1>4, <2>2, <3>1 DEF Numbers
    <3> QED
      BY <1>1, <3>2
  <2> QED
    BY <1>1, <2>1, <2>2
<1>6. ASSUME NEW k \in 1 .. Len(tl) PROVE tl[k] = low + Len(p) + n + k
  <2>1. n + k \in 1 .. Len(q) /\ tl[k] = q[n + k]
    BY <1>1, <1>3
  <2>2. q[n + k] = low + Len(p) + (n + k)
    BY <2>1 DEF Numbers
  <2> QED
    BY <1>1, <2>1, <2>2
<1> QED
  BY <1>3, <1>4, <1>5, <1>6 DEF Numbers, r, tl, h

\* A unit is said; a part of the buffer is sent; a part of the socket is read.
LEMMA PartsSaid ==
  ASSUME NEW g, NEW b, NEW x, NEW sent, Parts(g, b, x, sent)
  PROVE  Parts(g, b, Append(x, sent + 1), sent + 1)
<1> DEFINE y == Append(x, sent + 1)
<1>1. /\ g \in Seq(Nat) /\ b \in Seq(Nat) /\ x \in Seq(Nat) /\ sent \in Nat
      /\ sent = Len(g) + Len(b) + Len(x)
      /\ Numbers(0, g) /\ Numbers(Len(g), b) /\ Numbers(Len(g) + Len(b), x)
  BY DEF Parts
<1>2. Len(g) \in Nat /\ Len(b) \in Nat /\ Len(x) \in Nat /\ Len(g) + Len(b) \in Nat
  BY <1>1
<1>3. y \in Seq(Nat) /\ Len(y) = Len(x) + 1 /\ Numbers(Len(g) + Len(b), y)
  BY <1>1, <1>2, NumbersAppend
<1> HIDE DEF y
<1>4. sent + 1 \in Nat /\ sent + 1 = Len(g) + Len(b) + Len(y)
  BY <1>1, <1>2, <1>3
<1>5. Parts(g, b, y, sent + 1)
  BY <1>1, <1>3, <1>4 DEF Parts
<1> QED
  BY <1>5 DEF y

LEMMA PartsSent ==
  ASSUME NEW g, NEW b, NEW x, NEW sent, Parts(g, b, x, sent), NEW n \in 0 .. Len(b)
  PROVE  LET r == SubSeq(b, n + 1, Len(b))
         IN  Parts(g \o SubSeq(b, 1, n), r, x, sent) /\ Len(r) = Len(b) - n
<1> DEFINE f == g \o SubSeq(b, 1, n)
           r == SubSeq(b, n + 1, Len(b))
<1>1. /\ g \in Seq(Nat) /\ b \in Seq(Nat) /\ x \in Seq(Nat) /\ sent \in Nat
      /\ sent = Len(g) + Len(b) + Len(x)
      /\ Numbers(0, g) /\ Numbers(Len(g), b) /\ Numbers(Len(g) + Len(b), x)
  BY DEF Parts
<1>2. Len(g) \in Nat /\ Len(b) \in Nat /\ Len(x) \in Nat /\ n \in Nat
  BY <1>1
<1>3. /\ f \in Seq(Nat) /\ Len(f) = Len(g) + n /\ Numbers(0, f)
      /\ r \in Seq(Nat) /\ Len(r) = Len(b) - n /\ Numbers(Len(g) + n, r)
  <2>1. 0 + Len(g) = Len(g)
    BY <1>2
  <2>2. /\ f \in Seq(Nat) /\ Len(f) = Len(g) + n /\ Numbers(0, f)
        /\ r \in Seq(Nat) /\ Len(r) = Len(b) - n /\ Numbers(0 + Len(g) + n, r)
    BY <1>1, <2>1, NumbersMove
  <2> HIDE DEF f, r
  <2> QED
    BY <2>1, <2>2
<1> HIDE DEF f, r
<1>4. Len(f) + Len(r) = Len(g) + Len(b)
  BY <1>2, <1>3
<1>5. sent = Len(f) + Len(r) + Len(x)
  BY <1>1, <1>4
<1>6. Parts(f, r, x, sent) /\ Len(r) = Len(b) - n
  BY <1>1, <1>3, <1>4, <1>5 DEF Parts
<1> QED
  BY <1>6 DEF f, r

LEMMA PartsRead ==
  ASSUME NEW g, NEW b, NEW x, NEW sent, Parts(g, b, x, sent), NEW n \in 0 .. Len(x)
  PROVE  LET c == b \o SubSeq(x, 1, n)
             y == SubSeq(x, n + 1, Len(x))
         IN  Parts(g, c, y, sent) /\ Len(c) = Len(b) + n /\ Len(y) = Len(x) - n
<1> DEFINE c == b \o SubSeq(x, 1, n)
           y == SubSeq(x, n + 1, Len(x))
<1>1. /\ g \in Seq(Nat) /\ b \in Seq(Nat) /\ x \in Seq(Nat) /\ sent \in Nat
      /\ sent = Len(g) + Len(b) + Len(x)
      /\ Numbers(0, g) /\ Numbers(Len(g), b) /\ Numbers(Len(g) + Len(b), x)
  BY DEF Parts
<1>2. Len(g) \in Nat /\ Len(b) \in Nat /\ Len(x) \in Nat /\ n \in Nat /\ n <= Len(x)
  BY <1>1
<1>3. /\ c \in Seq(Nat) /\ Len(c) = Len(b) + n /\ Numbers(Len(g), c)
      /\ y \in Seq(Nat) /\ Len(y) = Len(x) - n /\ Numbers(Len(g) + Len(b) + n, y)
  BY <1>1, <1>2, NumbersMove
<1> HIDE DEF c, y
<1>4. Len(g) + Len(b) + n = Len(g) + Len(c) /\ sent = Len(g) + Len(c) + Len(y)
  BY <1>1, <1>2, <1>3
<1>5. Parts(g, c, y, sent) /\ Len(c) = Len(b) + n /\ Len(y) = Len(x) - n
  BY <1>1, <1>3, <1>4 DEF Parts
<1> QED
  BY <1>5 DEF c, y

LEMMA SizeIs ==
  ASSUME ImapAssumption
  PROVE  SocketBuf \in Nat \ {0} /\ \A d \in Ways : Size(d) \in Nat \ {0}
BY DEF ImapAssumption, Size, Ways

LEMMA RelayInit ==
  ASSUME ImapAssumption, Init PROVE RelayInv
<1> DEFINE w0 == [ sent |-> 0, wire |-> <<>>, eof |-> FALSE, buf |-> <<>>, off |-> 0,
                   got |-> <<>>, full |-> 0, read |-> TRUE, write |-> TRUE,
                   readable |-> FALSE, writable |-> FALSE ]
<1>1. way = [d \in Ways |-> w0] /\ call = NoCall
  BY DEF Init
<1>2. Whole(w0)
  BY DEF Whole, WayFields, Parts, Numbers
<1>3. \A d \in Ways : Fits(w0, Size(d)) /\ Ready(w0) /\ Flushed(w0) /\ Drained(w0, Size(d))
  BY SizeIs DEF Fits, Ready, Flushed, Drained
<1> HIDE DEF w0
<1> QED
  BY <1>1, <1>2, <1>3 DEF RelayInv, WayInv, Handled, Calls

\* A step that changes one way, and the call.
LEMMA OneWay ==
  ASSUME RelayInv, NEW d \in Ways, NEW w,
         DOMAIN way' = Ways, way'[d] = w, \A e \in Ways \ {d} : way'[e] = way[e],
         Whole(w), Fits(w, Size(d)), Ready(w), call' \in Calls,
         call.way = d \/ call' = call \/ call = NoCall, call'.way = d \/ call' = call \/ call' = NoCall,
         ~(call'.way = d /\ call'.step = "write" /\ call'.do_write = TRUE) => Flushed(w),
         call'.way # d => Drained(w, Size(d))
  PROVE  RelayInv'
<1>1. WayInv(d)' /\ Handled(d)'
  BY DEF WayInv, Handled, Size
<1>2. ASSUME NEW e \in Ways \ {d} PROVE WayInv(e)' /\ Handled(e)'
  <2>1. way'[e] = way[e] /\ WayInv(e) /\ Handled(e)
    BY DEF RelayInv
  <2>2. NoCall.way # e
    BY DEF NoCall, Ways
  <2>3. call'.way = e => call' = call
    BY <2>2
  <2>4. Flushed(way[e]) \/ (call.way = e /\ call.step = "write" /\ call.do_write = TRUE)
    BY <2>1 DEF Handled
  <2>5. call.way = e => call' = call
    BY <2>2
  <2>6. call.way # e => Drained(way[e], Size(e))
    BY <2>1 DEF Handled
  <2> QED
    BY <2>1, <2>2, <2>3, <2>4, <2>5, <2>6 DEF WayInv, Handled, Size
<1> QED
  BY <1>1, <1>2 DEF RelayInv

\* What RelayInv says of a way after EXCEPT.
LEMMA Changed ==
  ASSUME RelayInv, NEW d \in Ways, NEW w, way' = [way EXCEPT ![d] = w]
  PROVE  DOMAIN way' = Ways /\ way'[d] = w /\ \A e \in Ways \ {d} : way'[e] = way[e]
BY DEF RelayInv

\* What RelayInv says of a way.
LEMMA WayIs ==
  ASSUME RelayInv, NEW d \in Ways
  PROVE  /\ Whole(way[d]) /\ Fits(way[d], Size(d)) /\ Ready(way[d]) /\ call \in Calls
         /\ ~(call.way = d /\ call.step = "write" /\ call.do_write = TRUE) => Flushed(way[d])
         /\ call.way # d => Drained(way[d], Size(d))
BY DEF RelayInv, WayInv, Handled

LEMMA CallIs ==
  ASSUME call \in Calls
  PROVE  /\ call.step \in {"none", "write", "read"}
         /\ call.step # "none" => call \in [way : Ways, step : {"write", "read"},
                                            do_write : BOOLEAN, again : BOOLEAN]
         /\ call = NoCall => call.way \notin Ways /\ call.step = "none"
<1>1. CASE call = NoCall
  BY <1>1 DEF NoCall, Ways
<1>2. CASE call \in [way : Ways, step : {"write", "read"}, do_write : BOOLEAN, again : BOOLEAN]
  <2>1. call.step \in {"write", "read"}
    BY <1>2
  <2>2. call # NoCall
    BY <2>1 DEF NoCall
  <2> QED
    BY <1>2, <2>1, <2>2
<1> QED
  BY <1>1, <1>2 DEF Calls

LEMMA SaysKeeps ==
  ASSUME ImapAssumption, RelayInv, NEW d \in Ways, Says(d) PROVE RelayInv'
<1> DEFINE u == way[d]
           w == [u EXCEPT !.sent = @ + 1, !.wire = Append(@, u.sent + 1), !.readable = TRUE]
<1>1. way' = [way EXCEPT ![d] = w] /\ call' = call
  BY DEF Says, RelayInv
<1>2. Whole(u) /\ Fits(u, Size(d)) /\ Ready(u)
      /\ (~(call.way = d /\ call.step = "write" /\ call.do_write = TRUE) => Flushed(u))
  BY WayIs
<1>3. Whole(w)
  <2>1. /\ DOMAIN w = WayFields /\ w.got = u.got /\ w.buf = u.buf /\ w.sent = u.sent + 1
        /\ w.wire = Append(u.wire, u.sent + 1)
    BY <1>2 DEF Whole, WayFields
  <2>2. Parts(u.got, u.buf, u.wire, u.sent)
    BY <1>2 DEF Whole
  <2> HIDE DEF w, u
  <2> QED
    BY <2>1, <2>2, PartsSaid DEF Whole
<1>4. Fits(w, Size(d)) /\ Ready(w) /\ Drained(w, Size(d)) /\ (Flushed(u) => Flushed(w))
  BY <1>2 DEF Whole, WayFields, Fits, Ready, Drained, Flushed
<1>5. call \in Calls
  BY WayIs
<1> HIDE DEF w, u
<1> QED
  BY <1>1, <1>2, <1>3, <1>4, <1>5, Changed, OneWay

LEMMA LeavesKeeps ==
  ASSUME ImapAssumption, RelayInv, NEW d \in Ways, Leaves(d) PROVE RelayInv'
<1> DEFINE u == way[d]
           w == [u EXCEPT !.eof = TRUE, !.readable = TRUE]
<1>1. way' = [way EXCEPT ![d] = w] /\ call' = call
  BY DEF Leaves, RelayInv
<1>2. Whole(u) /\ Fits(u, Size(d)) /\ Ready(u)
      /\ (~(call.way = d /\ call.step = "write" /\ call.do_write = TRUE) => Flushed(u))
  BY WayIs
<1>3. Whole(w)
  BY <1>2 DEF Whole, WayFields
<1>4. Fits(w, Size(d)) /\ Ready(w) /\ Drained(w, Size(d)) /\ (Flushed(u) => Flushed(w))
  BY <1>2 DEF Whole, WayFields, Fits, Ready, Drained, Flushed
<1>5. call \in Calls
  BY WayIs
<1> HIDE DEF w, u
<1> QED
  BY <1>1, <1>2, <1>3, <1>4, <1>5, Changed, OneWay

\* A socket that was full becomes writable, and says so.
LEMMA TakesKeeps ==
  ASSUME ImapAssumption, RelayInv, NEW d \in Ways, Takes(d) PROVE RelayInv'
<1> DEFINE u == way[d]
           w == [u EXCEPT !.full = @ - 1, !.writable = @ \/ u.full = SocketBuf]
<1>1. way' = [way EXCEPT ![d] = w] /\ call' = call /\ u.full > 0
  BY DEF Takes, RelayInv
<1>2. Whole(u) /\ Fits(u, Size(d)) /\ Ready(u)
      /\ (~(call.way = d /\ call.step = "write" /\ call.do_write = TRUE) => Flushed(u))
      /\ (call.way # d => Drained(u, Size(d)))
  BY WayIs
<1>3. Whole(w)
  BY <1>2 DEF Whole, WayFields
<1>4. w.full = u.full - 1 /\ (w.writable = TRUE <=> u.writable = TRUE \/ u.full = SocketBuf)
      /\ w.writable \in BOOLEAN
      /\ w.off = u.off /\ w.buf = u.buf /\ w.wire = u.wire /\ w.read = u.read
      /\ w.write = u.write /\ w.readable = u.readable
  BY <1>2 DEF Whole, WayFields, Fits
<1>5. Fits(w, Size(d)) /\ Ready(w) /\ (Flushed(u) => Flushed(w))
      /\ (Drained(u, Size(d)) => Drained(w, Size(d)))
  <2> HIDE DEF w, u
  <2> QED
    BY <1>1, <1>2, <1>4, SizeIs DEF Fits, Ready, Drained, Flushed
<1>6. call \in Calls
  BY WayIs
<1> HIDE DEF w, u
<1> QED
  BY <1>1, <1>2, <1>3, <1>5, <1>6, Changed, OneWay

LEMMA EventKeeps ==
  ASSUME ImapAssumption, RelayInv, NEW d \in Ways, ReadEvent(d) \/ WriteEvent(d)
  PROVE  RelayInv'
<1> DEFINE u == way[d]
           w == IF ReadEvent(d) THEN [u EXCEPT !.readable = FALSE, !.read = TRUE]
                ELSE [u EXCEPT !.writable = FALSE, !.write = TRUE]
           c == [way |-> d, step |-> "write", do_write |-> ~ReadEvent(d), again |-> FALSE]
<1>1. way' = [way EXCEPT ![d] = w] /\ call' = c /\ call = NoCall
  <2>1. CASE ReadEvent(d)
    BY <2>1 DEF ReadEvent, RelayInv, Idle
  <2>2. CASE ~ReadEvent(d) /\ WriteEvent(d)
    BY <2>2 DEF WriteEvent, RelayInv, Idle
  <2> QED
    BY <2>1, <2>2
<1>2. Whole(u) /\ Fits(u, Size(d)) /\ Ready(u) /\ Flushed(u) /\ Drained(u, Size(d))
  BY <1>1, WayIs DEF NoCall, Ways
<1>3. Whole(w)
  BY <1>2 DEF Whole, WayFields
<1>4. Fits(w, Size(d)) /\ Ready(w) /\ (ReadEvent(d) => Flushed(w))
  <2>1. CASE ReadEvent(d)
    BY <1>2, <2>1 DEF Whole, WayFields, Fits, Ready, Flushed
  <2>2. CASE ~ReadEvent(d)
    BY <1>2, <2>2 DEF Whole, WayFields, Fits, Ready, Flushed
  <2> QED
    BY <2>1, <2>2
<1>5. c \in Calls /\ c.way = d /\ c.step = "write" /\ (c.do_write = TRUE <=> ~ReadEvent(d))
  BY DEF Calls
<1> HIDE DEF w, u, c
<1> QED
  BY <1>1, <1>2, <1>3, <1>4, <1>5, Changed, OneWay

\* send() of a part of the buffer.
LEMMA SentInOrder ==
  ASSUME NEW u, NEW w, Whole(u), NEW n \in 0 .. Len(u.buf),
         DOMAIN w = WayFields, w.got = u.got \o SubSeq(u.buf, 1, n),
         w.buf = IF n = Len(u.buf) THEN <<>> ELSE SubSeq(u.buf, n + 1, Len(u.buf)),
         w.wire = u.wire, w.sent = u.sent
  PROVE  Whole(w) /\ Len(w.buf) = Len(u.buf) - n
<1> DEFINE tail == SubSeq(u.buf, n + 1, Len(u.buf))
<1>1. DOMAIN u = WayFields /\ Parts(u.got, u.buf, u.wire, u.sent)
  BY DEF Whole
<1>2. Parts(u.got \o SubSeq(u.buf, 1, n), tail, u.wire, u.sent) /\ Len(tail) = Len(u.buf) - n
  BY <1>1, PartsSent
<1>3. n = Len(u.buf) => tail = <<>>
  BY SubSeqEmpty, <1>1 DEF Parts
<1>4. w.buf = tail
  BY <1>3
<1> HIDE DEF tail
<1> QED
  BY <1>2, <1>4 DEF Whole

LEMMA MinIs ==
  ASSUME NEW a \in Nat, NEW b \in Nat
  PROVE  Min({a, b}) = IF a <= b THEN a ELSE b
<1>1. CASE a <= b
  <2>1. a \in {a, b} /\ \A y \in {a, b} : a <= y
    BY <1>1
  <2>2. \A m \in {a, b} : (\A y \in {a, b} : m <= y) => m = a
    BY <1>1
  <2> QED
    BY <1>1, <2>1, <2>2 DEF Min
<1>2. CASE ~(a <= b)
  <2>1. b \in {a, b} /\ \A y \in {a, b} : b <= y
    BY <1>2
  <2>2. \A m \in {a, b} : (\A y \in {a, b} : m <= y) => m = b
    BY <1>2
  <2> QED
    BY <1>2, <2>1, <2>2 DEF Min
<1> QED
  BY <1>1, <1>2

\* The buffer after a part of n was sent from it.
LEMMA SentFits ==
  ASSUME NEW b \in Nat, NEW off \in Nat, NEW size \in Nat, NEW n \in 0 .. b, b + off <= size
  PROVE  LET o == IF n = b THEN 0 ELSE off + n IN o \in Nat /\ (b - n) + o <= size
OBVIOUS

\* The handler sends what the socket takes; what stays has a full socket before it.
LEMMA WriteStepKeeps ==
  ASSUME ImapAssumption, RelayInv, WriteStep PROVE RelayInv'
<1> DEFINE d == call.way
           u == way[d]
           size == Len(u.buf)
           n == Min({size, Space(d)})
           w == [Sent(u, n) EXCEPT !.got = @ \o SubSeq(u.buf, 1, n), !.full = @ + n, !.write = n = size]
<1>1. /\ d \in Ways /\ call.step = "write" /\ call.do_write \in BOOLEAN
      /\ call \in [way : Ways, step : {"write", "read"}, do_write : BOOLEAN, again : BOOLEAN]
  <2>1. call \in Calls /\ call.step = "write"
    BY DEF RelayInv, WriteStep
  <2> QED
    BY <2>1, CallIs
<1>2. Whole(u) /\ Fits(u, Size(d)) /\ Ready(u)
      /\ (~(call.step = "write" /\ call.do_write = TRUE) => Flushed(u))
  BY <1>1, WayIs
<1>3. /\ u.buf \in Seq(Nat) /\ size \in Nat /\ u.full \in 0 .. SocketBuf /\ SocketBuf \in Nat
      /\ u.off \in Nat /\ Space(d) = SocketBuf - u.full /\ DOMAIN u = WayFields
  BY <1>2, SizeIs DEF Whole, Parts, Fits, Space
<1>4. /\ n = (IF size <= Space(d) THEN size ELSE Space(d)) /\ n \in 0 .. size
      /\ n + u.full <= SocketBuf /\ (n # size => n + u.full = SocketBuf)
  <2>1. Space(d) \in Nat
    BY <1>3
  <2>2. n = IF size <= Space(d) THEN size ELSE Space(d)
    BY <1>3, <2>1, MinIs
  <2> HIDE DEF n, u, size, d
  <2> QED
    BY <1>3, <2>1, <2>2
<1>5. CASE call.do_write = TRUE /\ size > 0 /\ u.write = TRUE
  <2>1. way' = [way EXCEPT ![d] = w] /\ call' = [call EXCEPT !.step = "read", !.again = n > 0]
    BY <1>5 DEF WriteStep
  <2>2. call' \in Calls /\ call'.way = d /\ call'.step = "read"
    <3> DEFINE b == n > 0
    <3>1. b \in BOOLEAN /\ call' = [call EXCEPT !.step = "read", !.again = b]
      BY <2>1
    <3> HIDE DEF b, n, d
    <3>2. [call EXCEPT !.step = "read", !.again = b]
            \in [way : Ways, step : {"write", "read"}, do_write : BOOLEAN, again : BOOLEAN]
      BY <1>1, <3>1
    <3>3. call'.way = call.way /\ call'.step = "read"
      BY <1>1, <3>1
    <3> QED
      BY <3>1, <3>2, <3>3 DEF Calls, d
  <2>3. Sent(u, n).full = u.full
    BY <1>3 DEF Sent, WayFields
  <2>4. w = [Sent(u, n) EXCEPT !.got = @ \o SubSeq(u.buf, 1, n), !.full = u.full + n, !.write = n = size]
    BY <2>3
  <2> HIDE DEF w
  <2>5. /\ Whole(w) /\ w.full = u.full + n /\ w.write = (n = size)
        /\ w.wire = u.wire /\ w.read = u.read /\ w.readable = u.readable
        /\ w.writable = u.writable /\ Len(w.buf) = Len(u.buf) - n
        /\ w.off = (IF n = Len(u.buf) THEN 0 ELSE u.off + n)
    <3>1. /\ DOMAIN w = WayFields /\ w.got = u.got \o SubSeq(u.buf, 1, n) /\ w.wire = u.wire
          /\ w.buf = (IF n = Len(u.buf) THEN <<>> ELSE SubSeq(u.buf, n + 1, Len(u.buf)))
          /\ w.sent = u.sent /\ w.full = u.full + n /\ w.read = u.read
          /\ w.readable = u.readable /\ w.writable = u.writable
          /\ w.off = (IF n = Len(u.buf) THEN 0 ELSE u.off + n)
      <4> HIDE DEF n, u
      <4> QED
        BY <1>3, <2>4 DEF Sent, WayFields
    <3>2. w.write = (n = size)
      <4> HIDE DEF n, u, size
      <4> QED
        BY <1>3, <2>4 DEF Sent, WayFields
    <3>3. Whole(u) /\ n \in 0 .. Len(u.buf)
      BY <1>2, <1>4
    <3> HIDE DEF n, u
    <3>4. Whole(w) /\ Len(w.buf) = Len(u.buf) - n
      BY <3>1, <3>3, SentInOrder
    <3> QED
      BY <3>1, <3>2, <3>4
  <2>6. w.write \in BOOLEAN /\ (w.write = FALSE => n # size)
    BY <2>5
  <2>7. w.full \in 0 .. SocketBuf /\ (n # size => w.full = SocketBuf)
    <3> HIDE DEF n, u, size
    <3> QED
      BY <1>3, <1>4, <2>5
  <2>8. w.off \in Nat /\ Len(w.buf) + w.off <= Size(d) /\ Size(d) \in Nat
    <3>1. Size(d) \in Nat /\ size + u.off <= Size(d)
      BY <1>1, <1>2, SizeIs DEF Fits
    <3>2. size = Len(u.buf)
      OBVIOUS
    <3> DEFINE off == u.off
               o == w.off
               c == Len(w.buf)
               S == Size(d)
    <3>3. /\ size \in Nat /\ n \in 0 .. size /\ off \in Nat /\ S \in Nat /\ size + off <= S
          /\ c = size - n /\ o = (IF n = size THEN 0 ELSE off + n)
      BY <1>3, <1>4, <2>5, <3>1, <3>2
    <3> HIDE DEF n, size, off, o, c, S
    <3>4. o \in Nat /\ c + o <= S
      BY <3>3, SentFits
    <3> QED
      BY <3>3, <3>4 DEF o, c, S
  <2>9. n = size => w.buf = <<>>
    <3>1. w.buf \in Seq(Nat)
      BY <2>5 DEF Whole, Parts
    <3>2. n = size => Len(w.buf) = 0
      BY <1>3, <2>5
    <3> HIDE DEF n, size
    <3> QED
      BY <3>1, <3>2, EmptySeq
  <2>10. Fits(w, Size(d)) /\ Ready(w) /\ Flushed(w)
    <3> HIDE DEF n, u, size, d
    <3> QED
      BY <1>2, <2>5, <2>6, <2>7, <2>8, <2>9 DEF Fits, Ready, Flushed
  <2> HIDE DEF n, u, size
  <2> QED
    BY <1>1, <2>1, <2>2, <2>5, <2>10, Changed, OneWay
<1>6. CASE ~(call.do_write = TRUE /\ size > 0 /\ u.write = TRUE)
  <2>1. way' = way /\ call' = [call EXCEPT !.step = "read", !.again = FALSE]
    <3>1. ~(call.do_write /\ size > 0 /\ u.write)
      BY <1>1, <1>2, <1>6 DEF Fits
    <3> QED
      BY <3>1 DEF WriteStep
  <2>2. call' \in Calls /\ call'.way = d /\ call'.step = "read"
    BY <1>1, <2>1 DEF Calls
  <2>3. Flushed(u)
    <3>1. CASE call.do_write # TRUE
      BY <1>2, <3>1
    <3>2. CASE u.write # TRUE
      BY <1>2, <3>2 DEF Ready, Flushed, Fits
    <3>3. CASE ~(size > 0)
      <4>1. size = 0
        BY <1>3, <3>3
      <4> QED
        BY <1>3, <4>1, EmptySeq DEF Flushed
    <3> QED
      BY <1>6, <3>1, <3>2, <3>3
  <2>4. DOMAIN way' = Ways /\ way'[d] = u /\ \A e \in Ways \ {d} : way'[e] = way[e]
    BY <2>1 DEF RelayInv
  <2> HIDE DEF n, u, size
  <2> QED
    BY <1>1, <1>2, <2>2, <2>3, <2>4, OneWay
<1> QED
  BY <1>5, <1>6

\* The call that a handler makes of itself, or its end.
LEMMA LoopedIs ==
  ASSUME NEW c \in [way : Ways, step : {"write", "read"}, do_write : BOOLEAN, again : BOOLEAN]
  PROVE  /\ Looped(c) \in Calls /\ (Looped(c).way = c.way \/ Looped(c) = NoCall)
         /\ (c.again = TRUE => Looped(c).way = c.way)
         /\ (Looped(c) # NoCall => Looped(c).do_write = c.do_write)
<1>1. CASE c.again = TRUE
  <2>1. Looped(c) = [c EXCEPT !.step = "write"]
    BY <1>1 DEF Looped
  <2> QED
    BY <1>1, <2>1 DEF Calls
<1>2. CASE c.again = FALSE
  <2>1. Looped(c) = NoCall
    BY <1>2 DEF Looped
  <2> QED
    BY <1>2, <2>1 DEF Calls
<1> QED
  BY <1>1, <1>2

\* The handler reads what the buffer takes; when it ends there is nothing, or no room.
LEMMA ReadStepKeeps ==
  ASSUME ImapAssumption, RelayInv, ReadStep PROVE RelayInv'
<1> DEFINE d == call.way
           u == way[d]
           n == Min({Unused(d), Len(u.wire)})
<1>1. /\ d \in Ways /\ call.step = "read"
      /\ call \in [way : Ways, step : {"write", "read"}, do_write : BOOLEAN, again : BOOLEAN]
  <2>1. call \in Calls /\ call.step = "read"
    BY DEF RelayInv, ReadStep
  <2> QED
    BY <2>1, CallIs
<1>2. Whole(u) /\ Fits(u, Size(d)) /\ Ready(u) /\ Flushed(u)
  <2>1. ~(call.way = d /\ call.step = "write" /\ call.do_write = TRUE)
    BY <1>1
  <2> QED
    BY <1>1, <2>1, WayIs
<1>3. /\ u.buf \in Seq(Nat) /\ u.wire \in Seq(Nat) /\ Len(u.buf) \in Nat /\ Len(u.wire) \in Nat
      /\ u.off \in Nat /\ Size(d) \in Nat /\ Unused(d) = Size(d) - u.off - Len(u.buf)
      /\ DOMAIN u = WayFields /\ Len(u.buf) + u.off <= Size(d)
  BY <1>1, <1>2, SizeIs DEF Whole, Parts, Fits, Unused
<1>4. /\ Unused(d) \in Nat /\ n = (IF Unused(d) <= Len(u.wire) THEN Unused(d) ELSE Len(u.wire))
      /\ n \in 0 .. Len(u.wire) /\ n <= Unused(d)
  <2>1. Unused(d) \in Nat
    BY <1>3
  <2>2. n = IF Unused(d) <= Len(u.wire) THEN Unused(d) ELSE Len(u.wire)
    BY <1>3, <2>1, MinIs
  <2> HIDE DEF n, u, d
  <2> QED
    BY <1>3, <2>1, <2>2
<1>5. Drained(u, Size(d)) <=> (u.wire = <<>> \/ u.readable = TRUE \/ Unused(d) = 0)
  <2>1. Unused(d) = 0 <=> Len(u.buf) + u.off = Size(d)
    <3> DEFINE b == Len(u.buf)
               off == u.off
               size == Size(d)
               left == Unused(d)
    <3>1. b \in Nat /\ off \in Nat /\ size \in Nat /\ left = size - off - b
      BY <1>3
    <3> HIDE DEF b, off, size, left
    <3>2. left = 0 <=> b + off = size
      BY <3>1
    <3> QED
      BY <3>2 DEF b, off, size, left
  <2> QED
    BY <2>1 DEF Drained
<1>6. way' = way => DOMAIN way' = Ways /\ way'[d] = u /\ \A e \in Ways \ {d} : way'[e] = way[e]
  BY DEF RelayInv
<1>7. CASE ~(Unused(d) > 0 /\ u.read = TRUE)
  <2>1. way' = way /\ call' = Looped(call)
    <3>1. ~(Unused(d) > 0 /\ u.read)
      BY <1>2, <1>7 DEF Fits
    <3> QED
      BY <3>1 DEF ReadStep
  <2>2. Drained(u, Size(d))
    <3>1. CASE ~(Unused(d) > 0)
      BY <1>4, <1>5, <3>1
    <3>2. CASE u.read # TRUE
      BY <1>2, <1>5, <3>2 DEF Ready, Fits
    <3> QED
      BY <1>7, <3>1, <3>2
  <2>3. call' \in Calls /\ (call'.way = d \/ call' = NoCall)
    BY <1>1, <2>1, LoopedIs
  <2> HIDE DEF n, u
  <2> QED
    BY <1>1, <1>2, <1>6, <2>1, <2>2, <2>3, OneWay
<1>8. CASE Unused(d) > 0 /\ u.read = TRUE /\ n = 0
  <2>1. u.wire = <<>>
    <3>1. Len(u.wire) = 0
      <4> HIDE DEF n, u, d
      <4> QED
        BY <1>3, <1>4, <1>8
    <3> QED
      BY <1>3, <3>1, EmptySeq
  <2>2. CASE u.eof
    <3>1. way' = way /\ call' = NoCall
      BY <1>8, <2>2 DEF ReadStep
    <3>2. Drained(u, Size(d)) /\ NoCall \in Calls
      BY <2>1 DEF Drained, Calls
    <3> HIDE DEF n, u
    <3> QED
      BY <1>1, <1>2, <1>6, <3>1, <3>2, OneWay
  <2>3. CASE ~u.eof
    <3> DEFINE w == [u EXCEPT !.read = FALSE]
    <3>1. way' = [way EXCEPT ![d] = w] /\ call' = Looped(call)
      BY <1>8, <2>3 DEF ReadStep
    <3>2. /\ DOMAIN w = WayFields /\ w.got = u.got /\ w.buf = u.buf /\ w.wire = u.wire /\ w.sent = u.sent
          /\ w.off = u.off /\ w.full = u.full /\ w.read = FALSE /\ w.write = u.write
          /\ w.readable = u.readable /\ w.writable = u.writable
      BY <1>3 DEF WayFields
    <3> HIDE DEF w, n, u
    <3>3. Whole(w) /\ Fits(w, Size(d)) /\ Ready(w) /\ Flushed(w) /\ Drained(w, Size(d))
      BY <1>2, <2>1, <3>2 DEF Whole, Fits, Ready, Flushed, Drained
    <3>4. call' \in Calls /\ (call'.way = d \/ call' = NoCall)
      BY <1>1, <3>1, LoopedIs
    <3> QED
      BY <1>1, <3>1, <3>3, <3>4, Changed, OneWay
  <2> QED
    BY <2>2, <2>3
<1>9. CASE Unused(d) > 0 /\ u.read = TRUE /\ n # 0
  <2> DEFINE w == [u EXCEPT !.buf = @ \o SubSeq(u.wire, 1, n), !.wire = SubSeq(@, n + 1, Len(@))]
  <2>1. way' = [way EXCEPT ![d] = w] /\ call' = Looped(Read)
    <3>1. way' = [way EXCEPT ![d].buf = @ \o SubSeq(way[d].wire, 1, n),
                             ![d].wire = SubSeq(@, n + 1, Len(@))]
          /\ call' = Looped(Read)
      BY <1>9 DEF ReadStep
    <3>2. DOMAIN way = Ways
      BY DEF RelayInv
    <3> HIDE DEF n
    <3> QED
      BY <1>1, <1>3, <3>1, <3>2 DEF WayFields
  <2>2. /\ DOMAIN w = WayFields /\ w.got = u.got /\ w.sent = u.sent
        /\ w.buf = u.buf \o SubSeq(u.wire, 1, n) /\ w.wire = SubSeq(u.wire, n + 1, Len(u.wire))
        /\ w.off = u.off /\ w.full = u.full /\ w.read = u.read /\ w.write = u.write
        /\ w.readable = u.readable /\ w.writable = u.writable
    BY <1>3 DEF WayFields
  <2> HIDE DEF w
  <2>3. Whole(w) /\ Len(w.buf) = Len(u.buf) + n
    <3> HIDE DEF n, u
    <3> QED
      BY <1>2, <1>4, <2>2, PartsRead DEF Whole
  <2>4. Len(w.buf) + w.off <= Size(d)
    <3> DEFINE b == Len(u.buf)
               off == u.off
               size == Size(d)
               left == Unused(d)
               c == Len(w.buf)
    <3>1. /\ b \in Nat /\ off \in Nat /\ size \in Nat /\ left = size - off - b
          /\ n <= left /\ n \in 0 .. Len(u.wire) /\ c = b + n /\ w.off = off
      BY <1>3, <1>4, <2>2, <2>3
    <3>2. n \in Nat
      BY <1>3, <3>1
    <3> HIDE DEF b, off, size, left, c, n
    <3>3. c + off <= size
      BY <3>1, <3>2
    <3> QED
      BY <3>1, <3>3 DEF size, c
  <2>5. Fits(w, Size(d)) /\ Ready(w)
    <3> HIDE DEF n, u, d
    <3> QED
      BY <1>2, <1>9, <2>2, <2>4 DEF Fits, Ready
  <2>6. Read \in [way : Ways, step : {"write", "read"}, do_write : BOOLEAN, again : BOOLEAN]
        /\ Read.way = d /\ Read.again = TRUE /\ Read.do_write = TRUE
    BY <1>1 DEF Read
  <2>7. call' = [Read EXCEPT !.step = "write"]
    BY <2>1, <2>6 DEF Looped
  <2>8. call' \in Calls /\ call'.way = d /\ call'.step = "write" /\ call'.do_write = TRUE
    <3> HIDE DEF d
    <3> QED
      BY <2>6, <2>7 DEF Calls
  <2> HIDE DEF n, u
  <2> QED
    BY <1>1, <2>1, <2>3, <2>5, <2>8, Changed, OneWay
<1> QED
  BY <1>7, <1>8, <1>9

-----------------------------------------------------------------------------
(* The session: RelayInv in every state.                                    *)

LEMMA RelayNext ==
  ASSUME ImapAssumption, RelayInv, [Next]_vars PROVE RelayInv'
<1>1. ASSUME UNCHANGED <<way, call>> PROVE RelayInv'
  BY <1>1 DEF RelayInv, WayInv, Handled, Size
<1>2. CASE Login
  BY <1>1, <1>2 DEF Login, ClientSends, ClientLeaves, AuthState, Timer, UpstreamSays, UpstreamCloses, AuthHandler
<1>3. CASE Relay
  BY <1>1, <1>3, SaysKeeps, LeavesKeeps, TakesKeeps, EventKeeps, WriteStepKeeps, ReadStepKeeps
  DEF Relay, TimedOutEvent
<1>4. CASE UNCHANGED vars
  BY <1>1, <1>4 DEF vars
<1> QED
  BY <1>2, <1>3, <1>4 DEF Next

\* The relay keeps its parts in order, and no side that waits without an event to come.
THEOREM RelayHolds == ASSUME ImapAssumption PROVE Spec => []RelayInv
<1>1. Init => RelayInv
  BY RelayInit
<1>2. RelayInv /\ [Next]_vars => RelayInv'
  BY RelayNext
<1> QED
  BY <1>1, <1>2, PTL DEF Spec

LEMMA PartsWhole ==
  ASSUME NEW g, NEW b, NEW x, NEW sent, Parts(g, b, x, sent)
  PROVE  g \o b \o x = [k \in 1 .. sent |-> k]
<1> DEFINE f == g \o b
           h == f \o x
           id == [k \in 1 .. sent |-> k]
<1>1. /\ g \in Seq(Nat) /\ b \in Seq(Nat) /\ x \in Seq(Nat) /\ sent \in Nat
      /\ sent = Len(g) + Len(b) + Len(x)
      /\ Numbers(0, g) /\ Numbers(Len(g), b) /\ Numbers(Len(g) + Len(b), x)
  BY DEF Parts
<1>2. Len(g) \in Nat /\ Len(b) \in Nat /\ Len(x) \in Nat
  BY <1>1
<1>3. /\ f \in Seq(Nat) /\ Len(f) = Len(g) + Len(b)
      /\ \A k \in 1 .. Len(g) + Len(b) : f[k] = IF k <= Len(g) THEN g[k] ELSE b[k - Len(g)]
  BY <1>1, ConcatProperties
<1> HIDE DEF f
<1>4. /\ h \in Seq(Nat) /\ Len(h) = Len(f) + Len(x)
      /\ \A k \in 1 .. Len(f) + Len(x) : h[k] = IF k <= Len(f) THEN f[k] ELSE x[k - Len(f)]
  <2>1. f \in Seq(Nat) /\ x \in Seq(Nat)
    BY <1>1, <1>3
  <2> QED
    BY <2>1, ConcatProperties
<1> HIDE DEF h
<1>5. ASSUME NEW k \in 1 .. sent PROVE h[k] = k
  <2>1. CASE k <= Len(g)
    <3>1. k \in 1 .. Len(g) /\ h[k] = g[k]
      BY <1>1, <1>2, <1>3, <1>4, <2>1
    <3> QED
      BY <1>1, <3>1 DEF Numbers
  <2>2. CASE k > Len(g) /\ k <= Len(f)
    <3>1. k - Len(g) \in 1 .. Len(b) /\ h[k] = b[k - Len(g)]
      BY <1>1, <1>2, <1>3, <1>4, <2>2
    <3>2. b[k - Len(g)] = Len(g) + (k - Len(g))
      BY <1>1, <3>1 DEF Numbers
    <3> QED
      BY <1>2, <3>1, <3>2
  <2>3. CASE k > Len(f)
    <3>1. k - Len(f) \in 1 .. Len(x) /\ h[k] = x[k - Len(f)]
      BY <1>1, <1>2, <1>3, <1>4, <2>3
    <3>2. x[k - Len(f)] = Len(g) + Len(b) + (k - Len(f))
      BY <1>1, <3>1 DEF Numbers
    <3> QED
      BY <1>2, <1>3, <3>1, <3>2
  <2> QED
    BY <1>2, <1>3, <2>1, <2>2, <2>3
<1>6. id \in Seq(Nat) /\ Len(id) = sent
  BY <1>1
<1>7. Len(h) = sent /\ \A k \in 1 .. sent : id[k] = k
  BY <1>1, <1>2, <1>3, <1>4
<1> HIDE DEF id
<1>8. h = id
  BY <1>4, <1>5, <1>6, <1>7, SeqEqual
<1> QED
  BY <1>8 DEF f, h, id

\* What one side sends is what arrived, what the buffer has and what its socket has:
\* in order, each unit once, whatever the sizes and however the calls were cut; and
\* when no event is to come, whatever waits has no room where it goes.
\* ngx_imap_proxy_handler() forgets no unit, though epoll tells it of each only once.
THEOREM RelaySafe == ASSUME ImapAssumption PROVE Spec => []Relayed
<1>1. RelayInv => InOrder
  <2> SUFFICES ASSUME RelayInv, NEW d \in Ways
               PROVE  way[d].got \o way[d].buf \o way[d].wire = [k \in 1 .. way[d].sent |-> k]
    BY DEF InOrder
  <2>1. Parts(way[d].got, way[d].buf, way[d].wire, way[d].sent)
    BY WayIs DEF Whole
  <2> QED
    BY <2>1, PartsWhole
<1>2. RelayInv => NothingLeft
  <2> SUFFICES ASSUME RelayInv, call = NoCall, NEW d \in Ways, ~way[d].readable, ~way[d].writable
               PROVE  /\ (way[d].wire # <<>> => Unused(d) = 0)
                      /\ (way[d].buf # <<>> => Space(d) = 0)
    BY DEF NothingLeft, Idle
  <2>1. /\ Whole(way[d]) /\ Fits(way[d], Size(d)) /\ Flushed(way[d]) /\ Drained(way[d], Size(d))
    BY WayIs DEF NoCall, Ways
  <2>2. SocketBuf \in Nat /\ Size(d) \in Nat
    BY SizeIs
  <2> DEFINE u == way[d]
  <2>3. u.buf \in Seq(Nat) /\ u.off \in Nat /\ u.full \in 0 .. SocketBuf
    BY <2>1 DEF Whole, Parts, Fits
  <2>4. u.readable # TRUE /\ u.writable # TRUE
    OBVIOUS
  <2>5. Unused(d) = Size(d) - u.off - Len(u.buf) /\ Space(d) = SocketBuf - u.full
    BY DEF Unused, Space
  <2> HIDE DEF u
  <2>6. Len(u.buf) + u.off = Size(d) => Unused(d) = 0
    BY <2>2, <2>3, <2>5
  <2>7. u.full = SocketBuf => Space(d) = 0
    BY <2>2, <2>3, <2>5
  <2> QED
    BY <2>1, <2>4, <2>6, <2>7 DEF Flushed, Drained, u
<1> QED
  BY <1>1, <1>2, RelayHolds, PTL DEF Relayed

-----------------------------------------------------------------------------
(* The response: one that waits has a timer that ends the wait.            *)

Fields == { "pc", "in", "free", "busy", "allocated", "last", "out", "saved", "chain", "send", "from",
            "caller", "rc", "chains", "writer", "ready", "delayed", "timer", "edge", "interrupts", "end" }

\* What is left when the filters return "again": the socket is full, or a pause.
Blocked(u) == ~u.ready \/ u.delayed
InLoop(u) == u.pc \in {"fill", "filter"} \/ (u.pc \in {"send", "filtered"} /\ u.caller = "loop")

\* A pause has a timer, and so has a response that waits; "again", from the last
\* filter or remembered by the loop of ngx_output_chain(), is for a reason that
\* is still there.
Paused(u) == DOMAIN u = Fields /\ (u.delayed => u.timer # "off")
Timed(u) ==
  /\ Paused(u)
  /\ u.pc = "wait" => u.timer # "off"
  /\ u.pc \in {"send", "filtered"} => u.caller \in {"header", "short", "loop"}
  /\ u.pc = "filtered" /\ u.rc = "again" => Blocked(u)
  /\ InLoop(u) /\ u.last = "again" => Blocked(u)

-----------------------------------------------------------------------------
(* What the functions do to the contexts.                                  *)

LEMMA OverTimed ==
  ASSUME NEW u, NEW end, Paused(u)
  PROVE  Timed(Oc!Over(u, end))
<1> DEFINE v == Oc!Over(u, end)
<1>1. DOMAIN v = Fields /\ v.pc = "over" /\ v.delayed = FALSE
  BY DEF Oc!Over, Paused, Fields
<1> HIDE DEF v
<1>2. Timed(v)
  BY <1>1 DEF Timed, Paused, InLoop
<1> QED
  BY <1>2 DEF v

LEMMA ReturnedTimed ==
  ASSUME NEW u, NEW rc, Paused(u), rc = "again" => Blocked(u)
  PROVE  Timed(Oc!Returned(u, rc))
<1>1. Timed(Oc!Over(u, "closed")) /\ Timed(Oc!Over(u, "sent"))
  BY OverTimed
<1>2. Timed([u EXCEPT !.pc = "body"])
  BY DEF Timed, Paused, InLoop, Fields
<1>3. ASSUME rc = "again" PROVE Timed(Oc!WriterWaits(u)) /\ Timed(Oc!SetWriteHandler(u))
  BY <1>3 DEF Timed, Paused, InLoop, Blocked, Fields, Oc!WriterWaits, Oc!SetWriteHandler
<1> QED
  BY <1>1, <1>2, <1>3 DEF Oc!Returned

LEMMA WriteFilterTimed ==
  ASSUME NEW u, NEW new, NEW caller \in {"header", "short", "loop"}, Paused(u),
         caller = "loop" /\ u.last = "again" => Blocked(u)
  PROVE  Timed(Oc!WriteFilter(u, new, caller))
<1> DEFINE all == u.saved \o new
           v == [u EXCEPT !.saved = all, !.caller = caller, !.pc = "filtered", !.out = <<>>]
<1>1. /\ DOMAIN v = Fields /\ v.pc = "filtered" /\ v.caller = caller /\ v.last = u.last
      /\ v.ready = u.ready /\ v.delayed = u.delayed /\ v.timer = u.timer
  BY DEF Paused, Fields
<1>2. \/ Oc!WriteFilter(u, new, caller) = [v EXCEPT !.rc = "ok"]
      \/ u.delayed /\ Oc!WriteFilter(u, new, caller) = [v EXCEPT !.rc = "again"]
      \/ Oc!WriteFilter(u, new, caller) = [v EXCEPT !.pc = "send", !.chain = all, !.send = 0, !.from = Len(client)]
  BY DEF Oc!WriteFilter
<1> HIDE DEF v, all
<1>3. Timed([v EXCEPT !.rc = "ok"])
  BY <1>1 DEF Timed, Paused, InLoop, Blocked, Fields
<1>4. u.delayed => Timed([v EXCEPT !.rc = "again"])
  BY <1>1 DEF Timed, Paused, InLoop, Blocked, Fields
<1>5. Timed([v EXCEPT !.pc = "send", !.chain = all, !.send = 0, !.from = Len(client)])
  BY <1>1 DEF Timed, Paused, InLoop, Blocked, Fields
<1> QED
  BY <1>2, <1>3, <1>4, <1>5

LEMMA OutputFilterTimed ==
  ASSUME NEW u, NEW in, Paused(u)
  PROVE  Timed(Oc!OutputFilter(u, in))
<1>1. Timed(Oc!WriteFilter(u, in, "short"))
  BY WriteFilterTimed
<1>2. Timed([u EXCEPT !.in = @ \o in, !.last = "none", !.pc = "fill"])
  BY DEF Timed, Paused, InLoop, Fields
<1> QED
  BY <1>1, <1>2 DEF Oc!OutputFilter

LEMMA SendDoneTimed ==
  ASSUME NEW u, NEW chain, NEW error \in BOOLEAN, Paused(u), u.pc = "send",
         u.caller \in {"header", "short", "loop"},
         InLoop(u) /\ u.last = "again" => Blocked(u),
         chain = <<>> \/ error \/ ~u.ready \/ resp.limit_rate > 0
  PROVE  Timed(Oc!SendDone(u, chain, error))
<1> DEFINE v == IF resp.limit_rate > 0 THEN [u EXCEPT !.delayed = TRUE, !.timer = "delay"] ELSE u
           w == Oc!SendDone(u, chain, error)
<1>1. /\ DOMAIN v = Fields /\ v.pc = "send" /\ v.caller = u.caller /\ v.last = u.last
      /\ v.ready = u.ready /\ (v.delayed => v.timer # "off") /\ (u.delayed => v.delayed)
      /\ resp.limit_rate > 0 => v.delayed
  BY DEF Paused, Fields
<1>2. w = [ v EXCEPT !.pc = "filtered", !.saved = IF error THEN @ ELSE chain,
                     !.rc = IF error THEN "error" ELSE IF chain # <<>> THEN "again" ELSE "ok" ]
  BY DEF Oc!SendDone
<1> HIDE DEF v, w
<1>3. /\ DOMAIN w = Fields /\ w.pc = "filtered" /\ w.caller = u.caller /\ w.last = u.last
      /\ w.ready = v.ready /\ w.delayed = v.delayed /\ w.timer = v.timer
      /\ w.rc = "again" => ~error /\ chain # <<>>
  BY <1>1, <1>2 DEF Fields
<1> QED
  BY <1>1, <1>3 DEF Timed, Paused, InLoop, Blocked, w

-----------------------------------------------------------------------------
(* The steps.                                                              *)

LEMMA TimedInit == Oc!Init => Timed(t)
BY DEF Oc!Init, Timed, Paused, InLoop, Blocked, Fields

LEMMA HandlerTimed ==
  ASSUME Timed(t), Oc!Handler
  PROVE  Timed(t)'
<1>1. Paused(t)
  BY DEF Timed
<1>2. CASE Oc!Header
  BY <1>1, <1>2, WriteFilterTimed DEF Oc!Header
<1>3. CASE Oc!Body
  <2>1. Paused([t EXCEPT !.chains = Tail(@)])
    BY <1>1 DEF Paused, Fields
  <2> QED
    BY <1>3, <2>1, OutputFilterTimed DEF Oc!Body
<1>4. CASE Oc!Fill
  <2>1. t.pc = "fill"
    BY <1>4 DEF Oc!Fill
  <2>2. PICK id : Oc!Move(id) \/ Oc!Copy(id)
    BY <1>4 DEF Oc!Fill
  <2>3. Timed(Oc!Returned(t, "error"))
    BY <1>1, ReturnedTimed
  <2>4. ASSUME DOMAIN t' = Fields,
               \A x \in {"pc", "last", "rc", "caller", "ready", "delayed", "timer"} : t'[x] = t[x]
        PROVE  Timed(t)'
    BY <2>4 DEF Timed, Paused, InLoop, Blocked
  <2>5. CASE Oc!Move(id)
    BY <1>1, <2>4, <2>5 DEF Oc!Move, Paused, Fields
  <2>6. CASE Oc!Copy(id)
    BY <1>1, <2>3, <2>4, <2>6 DEF Oc!Copy, Paused, Fields
  <2> QED
    BY <2>2, <2>5, <2>6
<1>5. CASE Oc!Filled
  <2>1. t.pc = "fill" /\ (t.last = "again" => Blocked(t))
    BY <1>5 DEF Oc!Filled, Timed, InLoop
  <2>2. t' = Oc!Returned(t, t.last) \/ t' = [t EXCEPT !.pc = "filter"]
    BY <1>5 DEF Oc!Filled
  <2>3. Timed(Oc!Returned(t, t.last))
    BY <1>1, <2>1, ReturnedTimed
  <2>4. Timed([t EXCEPT !.pc = "filter"])
    BY <1>1, <2>1 DEF Timed, Paused, InLoop, Blocked, Fields
  <2> QED
    BY <2>2, <2>3, <2>4
<1>6. CASE Oc!Filter
  <2> DEFINE u == [t EXCEPT !.busy = @ \o t.out]
  <2>1. t.last = "again" => Blocked(t)
    BY <1>6 DEF Oc!Filter, Timed, InLoop
  <2>2. Paused(u) /\ (u.last = "again" => Blocked(u))
    BY <1>1, <2>1 DEF Paused, Blocked, Fields
  <2> HIDE DEF u
  <2>3. Timed(Oc!WriteFilter(u, t.out, "loop"))
    BY <2>2, WriteFilterTimed
  <2> QED
    BY <1>6, <2>3 DEF Oc!Filter, u
<1>7. CASE Oc!Send
  <2>1. t.pc = "send" /\ t.ready /\ t.caller \in {"header", "short", "loop"} /\ (InLoop(t) /\ t.last = "again" => Blocked(t))
    BY <1>7 DEF Oc!Send, Timed
  <2> DEFINE asked == Oc!Asked(t.chain, t.send)
             run == Oc!Run(t.chain)
             there == {k \in 1 .. asked : ~run.in_file \/ run.units[k] <= resp.there}
             sent == Oc!Min({room, Oc!Cardinality(there)})
             rest == Oc!Rest(t.chain, sent)
             u == [t EXCEPT !.send = @ + asked, !.chain = rest, !.ready = sent = asked]
  <2>2. t' = IF sent # asked \/ Oc!AtLimit(u.send) \/ rest = <<>> THEN Oc!SendDone(u, rest, FALSE) ELSE u
    BY <1>7 DEF Oc!Send
  <2> HIDE DEF asked, run, there, sent, rest
  <2>3. /\ Paused(u) /\ u.pc = "send" /\ u.caller = t.caller /\ u.last = t.last
        /\ u.delayed = t.delayed /\ (sent # asked => ~u.ready)
    BY <1>1, <2>1 DEF Paused, Fields
  <2> HIDE DEF u
  <2>4. InLoop(u) /\ u.last = "again" => Blocked(u)
    BY <2>1, <2>3 DEF InLoop, Blocked
  <2>5. Oc!AtLimit(u.send) => resp.limit_rate > 0
    BY DEF Oc!AtLimit
  <2>6. CASE sent # asked \/ Oc!AtLimit(u.send) \/ rest = <<>>
    BY <2>1, <2>2, <2>3, <2>4, <2>5, <2>6, SendDoneTimed
  <2>7. CASE ~(sent # asked \/ Oc!AtLimit(u.send) \/ rest = <<>>)
    BY <2>1, <2>2, <2>3, <2>4, <2>7 DEF Timed
  <2> QED
    BY <2>6, <2>7
<1>8. CASE Oc!Interrupted
  <2>1. DOMAIN t' = Fields /\ \A x \in {"pc", "last", "rc", "caller", "ready", "delayed", "timer"} : t'[x] = t[x]
    BY <1>1, <1>8 DEF Oc!Interrupted, Paused, Fields
  <2> QED
    BY <2>1 DEF Timed, Paused, InLoop, Blocked
<1>9. CASE Oc!NotReady
  <2>1. t.pc = "send" /\ ~t.ready /\ t' = Oc!SendDone(t, t.chain, FALSE)
    BY <1>9 DEF Oc!NotReady
  <2> QED
    BY <1>1, <2>1, SendDoneTimed DEF Timed
<1>10. CASE Oc!Failed
  <2>1. t.pc = "send" /\ t' = Oc!SendDone(t, t.chain, TRUE)
    BY <1>10 DEF Oc!Failed
  <2> QED
    BY <1>1, <2>1, SendDoneTimed DEF Timed
<1>11. CASE Oc!Filtered
  <2>1. t.pc = "filtered" /\ t.caller \in {"header", "short", "loop"} /\ (t.rc = "again" => Blocked(t))
    BY <1>11 DEF Oc!Filtered, Timed
  <2>2. Timed(Oc!Over(t, "closed")) /\ Timed(Oc!Returned(t, t.rc))
    BY <1>1, <2>1, OverTimed, ReturnedTimed
  <2>3. Timed([t EXCEPT !.pc = "body"])
    BY <1>1 DEF Timed, Paused, InLoop, Fields
  <2>4. Timed([Oc!Updated(t) EXCEPT !.last = t.rc, !.pc = "fill"])
    <3>1. DOMAIN Oc!Updated(t) = Fields /\ \A x \in Fields \ {"busy", "free"} : Oc!Updated(t)[x] = t[x]
      BY <1>1 DEF Oc!Updated, Paused, Fields
    <3> QED
      BY <1>1, <2>1, <3>1 DEF Timed, Paused, InLoop, Blocked, Fields
  <2>5. t' \in {Oc!Over(t, "closed"), Oc!Returned(t, t.rc), [t EXCEPT !.pc = "body"],
                [Oc!Updated(t) EXCEPT !.last = t.rc, !.pc = "fill"]}
    <3> HIDE DEF Timed
    <3> QED
      BY <1>11, <2>1 DEF Oc!Filtered
  <2> QED
    BY <2>2, <2>3, <2>4, <2>5
<1> QED
  BY <1>2, <1>3, <1>4, <1>5, <1>6, <1>7, <1>8, <1>9, <1>10, <1>11 DEF Oc!Handler

LEMMA TimedStep ==
  ASSUME Timed(t), [Oc!Next]_(Oc!vars)
  PROVE  Timed(t)'
<1>1. Paused(t)
  BY DEF Timed
<1>2. CASE UNCHANGED Oc!vars
  BY <1>2 DEF Oc!vars
<1>3. CASE Oc!Handler
  BY <1>3, HandlerTimed
<1>4. CASE Oc!WriteEvent
  <2> DEFINE u == [t EXCEPT !.edge = FALSE, !.ready = TRUE, !.writer = TRUE]
  <2>1. t.pc = "wait" /\ t.timer # "off"
    BY <1>4 DEF Oc!WriteEvent, Timed
  <2>2. Timed(u) /\ Paused(u)
    BY <1>1, <2>1 DEF Timed, Paused, InLoop, Fields
  <2>3. t' = u \/ t' = Oc!OutputFilter(u, <<>>)
    BY <1>4 DEF Oc!WriteEvent
  <2> HIDE DEF u
  <2> QED
    BY <2>2, <2>3, OutputFilterTimed
<1>5. CASE Oc!WriteTimer
  <2> DEFINE u == [t EXCEPT !.timer = "off", !.writer = TRUE]
             v == [u EXCEPT !.delayed = FALSE]
  <2>1. t.pc = "wait" /\ u.delayed = t.delayed /\ v.ready = t.ready
    BY <1>1, <1>5 DEF Oc!WriteTimer, Paused, Fields
  <2>2. \/ ~u.delayed /\ t' = Oc!Over(u, "timed out")
        \/ t' = Oc!OutputFilter(v, <<>>)
        \/ t' = [v EXCEPT !.timer = "send"]
    BY <1>5 DEF Oc!WriteTimer
  <2>3. ~u.delayed => Paused(u)
    BY <1>1 DEF Paused, Fields
  <2>4. Paused(v)
    BY <1>1 DEF Paused, Fields
  <2>5. Timed([v EXCEPT !.timer = "send"])
    BY <1>1, <2>1 DEF Timed, Paused, InLoop, Fields
  <2> HIDE DEF u, v
  <2> QED
    BY <2>2, <2>3, <2>4, <2>5, OverTimed, OutputFilterTimed
<1>6. CASE Oc!Takes
  <2>1. DOMAIN t' = Fields /\ \A x \in {"pc", "last", "rc", "caller", "ready", "delayed", "timer"} : t'[x] = t[x]
    BY <1>1, <1>6 DEF Oc!Takes, Paused, Fields
  <2> QED
    BY <2>1 DEF Timed, Paused, InLoop, Blocked
<1> QED
  BY <1>2, <1>3, <1>4, <1>5, <1>6 DEF Oc!Next

\* Whatever the response, the settings, the socket and the order of events, timers
\* and pauses: ngx_http_set_write_handler() and ngx_http_writer() leave no response
\* that waits without a timer.
THEOREM WaitsAreTimed == Oc!Spec => []Oc!ResponseTimed
<1>1. Timed(t) => Oc!ResponseTimed
  BY DEF Timed, Oc!ResponseTimed
<1> QED
  BY <1>1, TimedInit, TimedStep, PTL DEF Oc!Spec
=============================================================================
