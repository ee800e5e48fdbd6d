------------------------ MODULE ProxyUpstream_proofs -------------------------
(***************************************************************************)
(* Proofs about ProxyUpstream for any requests, peers, parameters of the   *)
(* busy lock and conditions of the next_upstream directive; and about      *)
(* EventPipe, for buffers and limits of any size.                          *)
(***************************************************************************)
EXTENDS ProxyUpstream, FiniteSetTheorems, WellFoundedInduction, TLAPS

-----------------------------------------------------------------------------
(* The choice of a peer.                                                   *)

LEMMA LeastExists ==
  ASSUME NEW T, T \subseteq Nat, T # {}
  PROVE  \E x \in T : \A y \in T : x <= y
<1>1. PICK x \in T : \A y \in T : <<y, x>> \notin OpToRel(<, Nat)
  BY WFMin, NatLessThanWellFounded, Zenon
<1>2. \A y \in T : ~(y < x)
  BY <1>1, Zenon DEF OpToRel
<1> QED
  BY <1>2

\* No more peers are passed over than there are tries left.
LEMMA PassedIs ==
  ASSUME NEW r \in Reqs, req[r].tries \in Nat
  PROVE  Passed(r) \in 0 .. req[r].tries
<1> DEFINE cold == {k \in 0 .. req[r].tries - 1 : Cursor(r, k) \notin hot}
<1>1. cold # {} => \E k \in cold : \A j \in cold : k <= j
  <2>1. cold \subseteq Nat
    OBVIOUS
  <2> QED
    BY <2>1, LeastExists
<1> QED
  BY <1>1 DEF Passed

LEMMA CursorIs ==
  ASSUME NEW r \in Reqs, NEW k \in Nat, current \in Peers, req[r].cur \in Peers
  PROVE  Cursor(r, k) \in Peers
BY ProxyUpstreamAssumption DEF Cursor, Peers

-----------------------------------------------------------------------------
(* Type correctness. A request that talks to a peer has a try left, and    *)
(* one that goes to the next peer has a reason.                            *)

Fields == {"at", "tries", "cur", "open", "sent", "pos", "whole", "hdr", "wh", "rh",
           "wtimer", "rtimer", "time", "headers", "asked", "skipped", "why", "status"}
Framed(q) == q = [f \in Fields |-> q[f]]
Typed(q) ==
  /\ q.at \in Points /\ q.tries \in 0 .. N /\ q.cur \in Peers
  /\ q.open \in BOOLEAN /\ q.sent \in BOOLEAN /\ q.pos \in {"start", "mid", "end"}
  /\ q.whole \in BOOLEAN /\ q.hdr \in {"empty", "own", "stale"}
  /\ q.wh \in {"send", "dummy"} /\ q.rh \in {"status", "headers", "body"}
  /\ q.wtimer \in BOOLEAN /\ q.rtimer \in BOOLEAN /\ q.time \in Nat /\ q.headers \in Nat
  /\ q.asked \in Seq(Peers) /\ q.skipped \in SUBSET Peers
  /\ q.why \in Reasons \cup {"none"}
  /\ q.status \in {0, 404, 499, 500, 502, 503, 504}

\* What an update of a few fields keeps is easier to see of the fields one by one.
LEMMA ContextIs == \A q : q \in Contexts <=> Framed(q) /\ Typed(q)
<1>1. ASSUME NEW q \in Contexts PROVE Typed(q)
  BY <1>1 DEF Typed, Contexts
<1>2. ASSUME NEW q \in Contexts PROVE Framed(q)
  BY <1>2 DEF Framed, Contexts, Fields
<1>3. ASSUME NEW q, Framed(q), Typed(q) PROVE q \in Contexts
  BY <1>3 DEF Typed, Framed, Contexts, Fields
<1> QED
  BY <1>1, <1>2, <1>3

Talking == {"send", "idle", "next", "headers", "body"}

Sound(q) == /\ Framed(q) /\ Typed(q)
            /\ q.at \in Talking => q.tries > 0
            /\ q.at = "next" => q.why \in Reasons

Shape == TypeOK /\ \A r \in Reqs : Sound(req[r])

\* The part of TypeOK about what is shared.
SharedOK == /\ fails \in [Peers -> 0 .. MaxFails + 1] /\ hot \subseteq Peers
            /\ current \in Peers /\ busy \in Int /\ waiting \in Int

LEMMA SetSound ==
  ASSUME Shape, NEW r \in Reqs, NEW new, Sound(new), Set(r, new)
  PROVE  req' \in [Reqs -> Contexts] /\ \A s \in Reqs : Sound(req'[s])
<1>1. new \in Contexts
  BY ContextIs DEF Sound
<1> QED
  BY <1>1 DEF Shape, TypeOK, Set

\* Moving the cursor keeps a request's shape.
LEMMA ChosenSound ==
  ASSUME Shape, NEW r \in Reqs
  PROVE  /\ Framed(Chosen(r)) /\ Typed(Chosen(r))
         /\ Chosen(r).tries <= req[r].tries
         /\ \A f \in Fields \ {"cur", "tries", "skipped"} : Chosen(r)[f] = req[r][f]
<1>1. Framed(req[r]) /\ Typed(req[r])
  BY DEF Shape, Sound
<1>2. req[r].tries \in Nat /\ req[r].cur \in Peers /\ current \in Peers
  BY <1>1 DEF Shape, TypeOK, Typed
<1> DEFINE k == Passed(r)
           over == {Cursor(r, j) : j \in 0 .. k - 1}
<1>3. k \in 0 .. req[r].tries
  BY <1>2, PassedIs
<1>4. Cursor(r, k) \in Peers /\ over \subseteq Peers
  BY <1>2, <1>3, CursorIs
<1>5. req[r].tries - k \in 0 .. N /\ req[r].tries - k <= req[r].tries
  BY <1>1, <1>3, ProxyUpstreamAssumption DEF Typed
<1>6. Chosen(r) = [req[r] EXCEPT !.cur = IF N = 1 THEN @ ELSE Cursor(r, k),
                                 !.tries = @ - k, !.skipped = @ \cup over]
  BY DEF Chosen
<1> HIDE DEF k, over
<1> DEFINE cur == IF N = 1 THEN req[r].cur ELSE Cursor(r, k)
<1>7. cur \in Peers
  BY <1>2, <1>4
<1>8. Chosen(r) = [req[r] EXCEPT !.cur = cur, !.tries = @ - k, !.skipped = @ \cup over]
  BY <1>6
<1> HIDE DEF cur
<1>9. /\ Framed(Chosen(r))
      /\ \A f \in Fields \ {"cur", "tries", "skipped"} : Chosen(r)[f] = req[r][f]
  BY <1>1, <1>8 DEF Framed, Fields
<1>10. /\ Chosen(r).cur = cur /\ Chosen(r).tries = req[r].tries - k
       /\ Chosen(r).skipped = req[r].skipped \cup over
  BY <1>1, <1>8 DEF Framed, Fields
<1> QED
  BY <1>1, <1>4, <1>5, <1>7, <1>9, <1>10 DEF Typed, Fields

LEMMA FinishedSound ==
  ASSUME NEW q, Framed(q), Typed(q), NEW s \in {0, 404, 499, 500, 502, 503, 504}
  PROVE  Sound(Finished(q, s))
<1> DEFINE e == IF q.headers > 0 THEN 0 ELSE s
           end == [q EXCEPT !.at = "done", !.open = FALSE, !.wtimer = FALSE,
                            !.rtimer = FALSE, !.status = e]
<1>1. Finished(q, s) = end /\ e \in {0, 404, 499, 500, 502, 503, 504}
  BY DEF Finished
<1> HIDE DEF e
<1>2. Framed(end)
  BY DEF Framed
<1>3. Typed(end) /\ end.at = "done"
  BY <1>1 DEF Framed, Typed, Fields, Points
<1> HIDE DEF end
<1> QED
  BY <1>1, <1>2, <1>3 DEF Sound, Talking

LEMMA TypeInit == Init => Shape
<1> SUFFICES ASSUME Init PROVE Shape
  OBVIOUS
<1>1. Sound(NewRequest)
  <2>1. Framed(NewRequest)
    BY DEF NewRequest, Framed, Fields
  <2>2. Typed(NewRequest)
    BY ProxyUpstreamAssumption DEF NewRequest, Typed, Points, Peers
  <2> QED
    BY <2>1, <2>2 DEF NewRequest, Sound, Talking
<1>2. req \in [Reqs -> Contexts] /\ \A r \in Reqs : Sound(req[r])
  BY <1>1, ContextIs DEF Init, Sound
<1>3. SharedOK
  BY ProxyUpstreamAssumption DEF Init, SharedOK, Peers
<1> QED
  BY <1>2, <1>3 DEF Shape, SharedOK, TypeOK

\* The steps of a request, as the proofs split them.
Step(r) ==
  \/ Arrives(r) \/ LockTaken(r) \/ LockWait(r) \/ LockRefused(r) \/ WaitTimer(r)
  \/ ConnectFails(r) \/ ConnectRefused(r) \/ Connect(r)
  \/ WriteEvent(r) \/ WriteTimeout(r) \/ SendError(r) \/ SendAgain(r) \/ SendOK(r)
  \/ ReadTimeout(r) \/ ReadError(r) \/ StatusPartial(r) \/ StatusInvalid(r)
  \/ \E code \in {"ok", "http_500", "http_404"} : StatusLine(r, code)
  \/ HeadersPartial(r) \/ HeadersInvalid(r) \/ HeadersDone(r)
  \/ BodyWaits(r) \/ BodyEnds(r) \/ BodyAborts(r) \/ NextUpstream(r) \/ ClientGone(r)

LEMMA NextIsStep ==
  Next => (\E r \in Reqs : Step(r)) \/ (\E p \in Peers : Cools(p))
BY DEF Next, Step, Handler, Locking, Connecting, Sending, Answering, Timers, BodyTimeout

LEMMA ReceivedSound ==
  ASSUME NEW q, Framed(q), Typed(q)
  PROVE  /\ Framed(Received(q)) /\ Typed(Received(q))
         /\ \A f \in Fields \ {"hdr"} : Received(q)[f] = q[f]
<1>1. CASE q.hdr = "stale"
  BY <1>1 DEF Received
<1>2. CASE q.hdr # "stale"
  BY <1>2 DEF Received, Framed, Typed, Fields
<1> QED
  BY <1>1, <1>2

LEMMA ReinitSound ==
  ASSUME NEW q, Framed(q), Typed(q)
  PROVE  /\ Framed(Reinit(q)) /\ Typed(Reinit(q))
         /\ \A f \in Fields \ {"pos", "hdr"} : Reinit(q)[f] = q[f]
<1>1. CASE q.tries > 1 /\ q.sent
  <2> DEFINE p == [q EXCEPT !.pos = "start", !.hdr = "empty"]
  <2>1. Reinit(q) = p
    BY <1>1 DEF Reinit
  <2>2. Framed(p)
    BY DEF Framed
  <2>3. Typed(p)
    BY DEF Framed, Typed, Fields
  <2>4. \A f \in Fields \ {"pos", "hdr"} : p[f] = q[f]
    BY DEF Framed, Fields
  <2> QED
    BY <2>1, <2>2, <2>3, <2>4
<1>2. CASE ~(q.tries > 1 /\ q.sent)
  <2> DEFINE h == IF q.hdr = "empty" THEN q.hdr ELSE "stale"
  <2>1. h \in {"empty", "stale"} /\ Reinit(q) = [q EXCEPT !.hdr = h]
    BY <1>2 DEF Reinit
  <2> HIDE DEF h
  <2>2. Framed([q EXCEPT !.hdr = h])
    BY DEF Framed
  <2>3. /\ Typed([q EXCEPT !.hdr = h])
        /\ \A f \in Fields \ {"pos", "hdr"} : [q EXCEPT !.hdr = h][f] = q[f]
    BY <2>1 DEF Framed, Typed, Fields
  <2> QED
    BY <2>1, <2>2, <2>3
<1> QED
  BY <1>1, <1>2

\* What ngx_http_proxy_send_request leaves when all is sent.
Passing(q, corked) ==
  [q EXCEPT !.sent = TRUE, !.pos = "end", !.wtimer = FALSE, !.rtimer = @ \/ ~corked,
            !.wh = IF corked THEN @ ELSE "dummy", !.at = "idle"]

LEMMA PassingSound ==
  ASSUME NEW q, Framed(q), Typed(q), q.tries > 0, NEW corked \in BOOLEAN
  PROVE  Sound(Passing(q, corked))
<1> DEFINE rtimer == q.rtimer \/ ~corked
           wh == IF corked THEN q.wh ELSE "dummy"
           new == [q EXCEPT !.sent = TRUE, !.pos = "end", !.wtimer = FALSE,
                            !.rtimer = rtimer, !.wh = wh, !.at = "idle"]
<1>1. rtimer \in BOOLEAN /\ wh \in {"send", "dummy"} /\ Passing(q, corked) = new
  BY DEF Passing, Typed
<1> HIDE DEF rtimer, wh
<1>2. Framed(new)
  BY DEF Framed
<1>3. Typed(new) /\ new.at = "idle" /\ new.tries = q.tries
  BY <1>1 DEF Framed, Typed, Fields, Points
<1> HIDE DEF new
<1> QED
  BY <1>1, <1>2, <1>3 DEF Sound

\* The request as ngx_http_proxy_next_upstream leaves it before it decides.
Left(q) ==
  [IF q.why # "http_404" THEN PeerFailed(q) ELSE q EXCEPT
     !.open = FALSE, !.wtimer = FALSE, !.rtimer = FALSE]

LEMMA LeftSound ==
  ASSUME NEW q, Framed(q), Typed(q), q.tries > 0
  PROVE  Framed(Left(q)) /\ Typed(Left(q))
<1> DEFINE p == IF q.why # "http_404" THEN PeerFailed(q) ELSE q
<1>1. Framed(PeerFailed(q)) /\ Typed(PeerFailed(q))
  <2>1. (q.cur + 1) % N \in Peers /\ q.tries - 1 \in 0 .. N
    BY ProxyUpstreamAssumption DEF Typed, Peers
  <2>2. Framed(PeerFailed(q))
    BY DEF PeerFailed, Framed
  <2>3. Typed(PeerFailed(q))
    BY <2>1 DEF PeerFailed, Framed, Typed, Fields
  <2> QED
    BY <2>2, <2>3
<1>2. Framed(p) /\ Typed(p)
  BY <1>1
<1>3. Left(q) = [p EXCEPT !.open = FALSE, !.wtimer = FALSE, !.rtimer = FALSE]
  BY DEF Left
<1> HIDE DEF p
<1>4. Framed([p EXCEPT !.open = FALSE, !.wtimer = FALSE, !.rtimer = FALSE])
  BY <1>2 DEF Framed
<1>5. Typed([p EXCEPT !.open = FALSE, !.wtimer = FALSE, !.rtimer = FALSE])
  BY <1>2 DEF Framed, Typed, Fields
<1> QED
  BY <1>3, <1>4, <1>5

\* A new attempt, on the peer that was chosen.
LEMMA ConnectedSound ==
  ASSUME Shape, NEW r \in Reqs, Chosen(r).tries > 0, NEW rc \in {"again", "ok"}
  PROVE  Sound(Connected(r, rc))
<1> DEFINE p == Reinit(Chosen(r))
           new == [p EXCEPT !.open = TRUE, !.asked = Append(@, p.cur),
                            !.whole = p.pos = "start", !.sent = FALSE,
                            !.wh = "send", !.rh = "status", !.wtimer = rc = "again",
                            !.at = IF rc = "again" THEN "idle" ELSE "send"]
<1>1. Framed(p) /\ Typed(p) /\ p.tries > 0
  BY ChosenSound, ReinitSound DEF Fields
<1>2. Connected(r, rc) = new
  BY DEF Connected
<1> HIDE DEF p
<1>3. Framed(new)
  BY <1>1 DEF Framed
<1>4. Typed(new)
  <2>1. Append(p.asked, p.cur) \in Seq(Peers)
    BY <1>1 DEF Typed
  <2> QED
    BY <1>1, <2>1 DEF Framed, Typed, Fields, Points
<1>5. new.tries = p.tries /\ new.at # "next"
  BY <1>1 DEF Framed, Fields
<1> HIDE DEF new
<1> QED
  BY <1>1, <1>2, <1>3, <1>4, <1>5 DEF Sound

Kept(r) == SharedOK' /\ \E new : Sound(new) /\ Set(r, new)

LEMMA StepKeeps ==
  ASSUME Shape, NEW r \in Reqs, Step(r)
  PROVE  Kept(r)
<1> DEFINE q == req[r]
<1>a. SharedOK
  BY DEF Shape, TypeOK, SharedOK
<1>b. Framed(q) /\ Typed(q) /\ (q.at \in Talking => q.tries > 0)
      /\ (q.at = "next" => q.why \in Reasons)
  BY DEF Shape, Sound
<1> HIDE DEF q
<1>1. CASE Arrives(r)
  <2> DEFINE new == [q EXCEPT !.at = Begin]
  <2>2. Set(r, new) /\ SharedOK'
    BY <1>a, <1>1 DEF Arrives, SharedOK, peers, lock, Count, q
  <2>3. Framed(new)
    BY <1>b DEF Framed
  <2>4. Typed(new) /\ new.at = Begin /\ new.tries = q.tries
    BY <1>b DEF Framed, Typed, Fields, Points, Begin
  <2> HIDE DEF new
  <2> QED
    BY <2>2, <2>3, <2>4 DEF Kept, Sound, Talking, Begin
<1>2. CASE LockTaken(r)
  <2> DEFINE new == [q EXCEPT !.at = "connect", !.time = 0]
  <2>2. Set(r, new) /\ SharedOK'
    BY <1>a, <1>2 DEF LockTaken, SharedOK, peers, lock, Count, q
  <2>3. Framed(new)
    BY <1>b DEF Framed
  <2>4. Typed(new) /\ new.at = "connect" /\ new.tries = q.tries
    BY <1>b DEF Framed, Typed, Fields, Points
  <2> HIDE DEF new
  <2> QED
    BY <2>2, <2>3, <2>4 DEF Kept, Sound, Talking
<1>3. CASE LockWait(r)
  <2> DEFINE new == [q EXCEPT !.at = "wait"]
  <2>2. Set(r, new) /\ SharedOK'
    BY <1>a, <1>3 DEF LockWait, SharedOK, peers, lock, Count, q
  <2>3. Framed(new)
    BY <1>b DEF Framed
  <2>4. Typed(new) /\ new.at = "wait" /\ new.tries = q.tries
    BY <1>b DEF Framed, Typed, Fields, Points
  <2> HIDE DEF new
  <2> QED
    BY <2>2, <2>3, <2>4 DEF Kept, Sound, Talking
<1>4. CASE LockRefused(r)
  <2>1. Sound(Finished(q, 503))
    BY <1>b, FinishedSound
  <2>2. Set(r, Finished(q, 503)) /\ SharedOK'
    BY <1>a, <1>4 DEF LockRefused, SharedOK, peers, lock, CloseCount, Count, q
  <2> QED
    BY <2>1, <2>2 DEF Kept
<1>5. CASE WaitTimer(r)
  <2> DEFINE new == [q EXCEPT !.at = "lock", !.time = @ + 1]
  <2>2. Set(r, new) /\ SharedOK'
    BY <1>a, <1>5 DEF WaitTimer, SharedOK, peers, lock, Count, q
  <2>3. Framed(new)
    BY <1>b DEF Framed
  <2>4. Typed(new) /\ new.at = "lock" /\ new.tries = q.tries
    BY <1>b DEF Framed, Typed, Fields, Points
  <2> HIDE DEF new
  <2> QED
    BY <2>2, <2>3, <2>4 DEF Kept, Sound, Talking
<1>6. CASE ConnectFails(r)
  <2>1. Sound(Finished(Chosen(r), 500))
    BY ChosenSound, FinishedSound
  <2>2. Set(r, Finished(Chosen(r), 500)) /\ UNCHANGED <<fails, hot, waiting>>
    BY <1>6 DEF ConnectFails
  <2>3. current' \in Peers
    BY <1>a, <1>6, ProxyUpstreamAssumption DEF ConnectFails, NextCurrent, SharedOK,
       Peers
  <2>4. busy' \in Int
    BY <1>a, <1>6 DEF ConnectFails, SharedOK, Count
  <2> QED
    BY <1>a, <2>1, <2>2, <2>3, <2>4 DEF Kept, SharedOK
<1>7. CASE ConnectRefused(r)
  <2> DEFINE c == Chosen(r)
             new == [c EXCEPT !.open = TRUE, !.asked = Append(@, c.cur),
                              !.at = "next", !.why = "error"]
  <2>1. Framed(c) /\ Typed(c)
    BY ChosenSound
  <2>2. Set(r, new) /\ c.tries > 0 /\ UNCHANGED <<fails, hot, lock>>
    BY <1>7 DEF ConnectRefused
  <2>3. current' \in Peers
    BY <1>a, <1>7, ProxyUpstreamAssumption DEF ConnectRefused, NextCurrent, SharedOK,
       Peers
  <2>4. Append(c.asked, c.cur) \in Seq(Peers)
    BY <2>1 DEF Typed
  <2> HIDE DEF c
  <2>5. Framed(new)
    BY <2>1 DEF Framed
  <2>6. Typed(new) /\ new.at = "next" /\ new.tries = c.tries /\ new.why \in Reasons
    BY <2>1, <2>4 DEF Framed, Typed, Fields, Points, Reasons
  <2> HIDE DEF new
  <2> QED
    BY <1>a, <2>2, <2>3, <2>5, <2>6 DEF Kept, Sound, SharedOK, lock
<1>8. CASE Connect(r)
  <2>1. PICK rc \in {"again", "ok"} : Set(r, Connected(r, rc))
    BY <1>8 DEF Connect
  <2>2. current' \in Peers /\ UNCHANGED <<fails, hot, lock>>
    BY <1>a, <1>8, ProxyUpstreamAssumption DEF Connect, NextCurrent, SharedOK, Peers
  <2>3. Sound(Connected(r, rc))
    BY <1>8, ConnectedSound DEF Connect
  <2> QED
    BY <1>a, <2>1, <2>2, <2>3 DEF Kept, SharedOK, lock
<1>9. CASE WriteEvent(r)
  <2> DEFINE new == [q EXCEPT !.at = "send"]
  <2>1. q.tries > 0
    BY <1>b, <1>9 DEF WriteEvent, At, q, Talking
  <2>2. Set(r, new) /\ SharedOK'
    BY <1>a, <1>9 DEF WriteEvent, SharedOK, peers, lock, Count, q
  <2>3. Framed(new)
    BY <1>b DEF Framed
  <2>4. Typed(new) /\ new.at = "send" /\ new.tries = q.tries
    BY <1>b DEF Framed, Typed, Fields, Points
  <2> HIDE DEF new
  <2> QED
    BY <2>1, <2>2, <2>3, <2>4 DEF Kept, Sound, Talking
<1>10. CASE WriteTimeout(r)
  <2> DEFINE new == [q EXCEPT !.wtimer = FALSE, !.at = "next", !.why = "timeout"]
  <2>1. q.tries > 0
    BY <1>b, <1>10 DEF WriteTimeout, At, q, Talking
  <2>2. Set(r, new) /\ SharedOK'
    BY <1>a, <1>10 DEF WriteTimeout, SharedOK, peers, lock, Count, q
  <2>3. Framed(new)
    BY <1>b DEF Framed
  <2>4. Typed(new) /\ new.at = "next" /\ new.tries = q.tries /\ new.why \in Reasons
    BY <1>b DEF Framed, Typed, Fields, Points, Reasons
  <2> HIDE DEF new
  <2> QED
    BY <2>1, <2>2, <2>3, <2>4 DEF Kept, Sound, Talking
<1>11. CASE SendError(r)
  <2>1. PICK pos \in {"start", "mid", "end"} :
          Set(r, [q EXCEPT !.pos = pos, !.at = "next", !.why = "error"])
    BY ZenonT(40), <1>b, <1>11 DEF SendError, Typed, q
  <2>2. q.tries > 0
    BY <1>b, <1>11 DEF SendError, At, Talking, q
  <2> DEFINE new == [q EXCEPT !.pos = pos, !.at = "next", !.why = "error"]
  <2>3. Framed(new)
    BY <1>b DEF Framed
  <2>4. Typed(new) /\ new.at = "next" /\ new.tries = q.tries /\ new.why \in Reasons
    BY <1>b DEF Framed, Typed, Fields, Points, Reasons
  <2>5. Sound(new)
    BY <2>2, <2>3, <2>4 DEF Sound
  <2>6. SharedOK'
    BY <1>a, <1>11 DEF SendError, SharedOK, peers, lock
  <2> QED
    BY <2>1, <2>5, <2>6 DEF Kept
<1>12. CASE SendAgain(r)
  <2> DEFINE new == [q EXCEPT !.sent = TRUE, !.pos = "mid", !.wtimer = TRUE, !.at = "idle"]
  <2>1. q.tries > 0
    BY <1>b, <1>12 DEF SendAgain, At, q, Talking
  <2>2. Set(r, new) /\ SharedOK'
    BY <1>a, <1>12 DEF SendAgain, SharedOK, peers, lock, Count, q
  <2>3. Framed(new)
    BY <1>b DEF Framed
  <2>4. Typed(new) /\ new.at = "idle" /\ new.tries = q.tries
    BY <1>b DEF Framed, Typed, Fields, Points
  <2> HIDE DEF new
  <2> QED
    BY <2>1, <2>2, <2>3, <2>4 DEF Kept, Sound, Talking
<1>13. CASE SendOK(r)
  <2>1. PICK corked \in BOOLEAN : Set(r, Passing(q, corked))
    BY <1>13 DEF SendOK, Passing, q
  <2>2. q.tries > 0
    BY <1>b, <1>13 DEF SendOK, At, Talking, q
  <2>3. Sound(Passing(q, corked))
    BY <1>b, <2>2, PassingSound
  <2>4. SharedOK'
    BY <1>a, <1>13 DEF SendOK, SharedOK, peers, lock
  <2> QED
    BY <2>1, <2>3, <2>4 DEF Kept
<1>14. CASE ReadTimeout(r)
  <2> DEFINE new == [q EXCEPT !.at = "next", !.why = "timeout"]
  <2>1. q.tries > 0
    BY <1>b, <1>14 DEF ReadTimeout, At, q, Talking
  <2>2. Set(r, new) /\ SharedOK'
    BY <1>a, <1>14 DEF ReadTimeout, Fail, SharedOK, peers, lock, Count, q
  <2>3. Framed(new)
    BY <1>b DEF Framed
  <2>4. Typed(new) /\ new.at = "next" /\ new.tries = q.tries /\ new.why \in Reasons
    BY <1>b DEF Framed, Typed, Fields, Points, Reasons
  <2> HIDE DEF new
  <2> QED
    BY <2>1, <2>2, <2>3, <2>4 DEF Kept, Sound, Talking
<1>15. CASE ReadError(r)
  <2> DEFINE new == [q EXCEPT !.at = "next", !.why = "error"]
  <2>1. q.tries > 0
    BY <1>b, <1>15 DEF ReadError, At, q, Talking
  <2>2. Set(r, new) /\ SharedOK'
    BY <1>a, <1>15 DEF ReadError, Fail, SharedOK, peers, lock, Count, q
  <2>3. Framed(new)
    BY <1>b DEF Framed
  <2>4. Typed(new) /\ new.at = "next" /\ new.tries = q.tries /\ new.why \in Reasons
    BY <1>b DEF Framed, Typed, Fields, Points, Reasons
  <2> HIDE DEF new
  <2> QED
    BY <2>1, <2>2, <2>3, <2>4 DEF Kept, Sound, Talking
<1>16. CASE StatusPartial(r)
  <2>1. Sound(Received(q))
    BY <1>b, <1>16, ReceivedSound DEF Sound, StatusPartial, At, Talking, Fields, q
  <2>2. Set(r, Received(q)) /\ SharedOK'
    BY <1>a, <1>16 DEF StatusPartial, SharedOK, peers, lock, CloseCount, Count, q
  <2> QED
    BY <2>1, <2>2 DEF Kept
<1>17. CASE StatusInvalid(r)
  <2> DEFINE p == Received(q)
             new == [p EXCEPT !.at = "next", !.why = "invalid_header"]
  <2>1. Framed(p) /\ Typed(p) /\ p.tries > 0
    BY <1>b, <1>17, ReceivedSound DEF StatusInvalid, At, Talking, Fields, q
  <2>2. Set(r, new) /\ SharedOK'
    BY <1>a, <1>17 DEF StatusInvalid, SharedOK, peers, lock, q
  <2> HIDE DEF p
  <2>3. Framed(new)
    BY <2>1 DEF Framed
  <2>4. Typed(new) /\ new.at = "next" /\ new.tries = p.tries /\ new.why \in Reasons
    BY <2>1 DEF Framed, Typed, Fields, Points, Reasons
  <2> HIDE DEF new
  <2> QED
    BY <2>1, <2>2, <2>3, <2>4 DEF Kept, Sound
<1>18. CASE \E code \in {"ok", "http_500", "http_404"} : StatusLine(r, code)
  <2> DEFINE p == Received(q)
  <2>1. PICK code \in {"ok", "http_500", "http_404"} : StatusLine(r, code)
    BY <1>18
  <2>2. Framed(p) /\ Typed(p) /\ p.tries > 0
    BY <1>b, <2>1, ReceivedSound DEF StatusLine, At, Talking, Fields, q
  <2>3. SharedOK'
    BY <1>a, <2>1 DEF StatusLine, SharedOK, peers, lock
  <2> DEFINE next == [p EXCEPT !.at = "next", !.why = code]
             on == [p EXCEPT !.at = "headers", !.rh = "headers"]
  <2>4. \/ Set(r, next) /\ code \in {"http_500", "http_404"}
        \/ Set(r, on)
    BY <2>1 DEF StatusLine, q
  <2> HIDE DEF p
  <2>5. ASSUME code \in {"http_500", "http_404"} PROVE Sound(next)
    <3>1. Framed(next)
      BY <2>2 DEF Framed
    <3>2. /\ Typed(next) /\ next.at = "next" /\ next.tries = p.tries
          /\ next.why \in Reasons
      BY <2>2, <2>5 DEF Framed, Typed, Fields, Points, Reasons
    <3> QED
      BY <2>2, <3>1, <3>2 DEF Sound
  <2>6. Sound(on)
    <3>1. Framed(on)
      BY <2>2 DEF Framed
    <3>2. Typed(on) /\ on.at = "headers" /\ on.tries = p.tries
      BY <2>2 DEF Framed, Typed, Fields, Points
    <3> QED
      BY <2>2, <3>1, <3>2 DEF Sound
  <2> QED
    BY <2>3, <2>4, <2>5, <2>6 DEF Kept
<1>19. CASE HeadersPartial(r)
  <2> DEFINE new == [q EXCEPT !.at = "idle"]
  <2>1. q.tries > 0
    BY <1>b, <1>19 DEF HeadersPartial, At, Reading, q, Talking
  <2>2. Set(r, new) /\ SharedOK'
    BY <1>a, <1>19 DEF HeadersPartial, SharedOK, peers, lock, Count, q
  <2>3. Framed(new)
    BY <1>b DEF Framed
  <2>4. Typed(new) /\ new.at = "idle" /\ new.tries = q.tries
    BY <1>b DEF Framed, Typed, Fields, Points
  <2> HIDE DEF new
  <2> QED
    BY <2>1, <2>2, <2>3, <2>4 DEF Kept, Sound, Talking
<1>20. CASE HeadersInvalid(r)
  <2> DEFINE new == [q EXCEPT !.at = "next", !.why = "invalid_header"]
  <2>1. q.tries > 0
    BY <1>b, <1>20 DEF HeadersInvalid, At, Reading, q, Talking
  <2>2. Set(r, new) /\ SharedOK'
    BY <1>a, <1>20 DEF HeadersInvalid, Fail, SharedOK, peers, lock, Count, q
  <2>3. Framed(new)
    BY <1>b DEF Framed
  <2>4. Typed(new) /\ new.at = "next" /\ new.tries = q.tries /\ new.why \in Reasons
    BY <1>b DEF Framed, Typed, Fields, Points, Reasons
  <2> HIDE DEF new
  <2> QED
    BY <2>1, <2>2, <2>3, <2>4 DEF Kept, Sound, Talking
<1>21. CASE HeadersDone(r)
  <2> DEFINE new == [q EXCEPT !.headers = @ + 1, !.rh = "body", !.at = "body"]
  <2>1. q.tries > 0
    BY <1>b, <1>21 DEF HeadersDone, At, Reading, q, Talking
  <2>2. Set(r, new) /\ SharedOK'
    BY <1>a, <1>21 DEF HeadersDone, SharedOK, peers, lock, Count, q
  <2>3. Framed(new)
    BY <1>b DEF Framed
  <2>4. Typed(new) /\ new.at = "body" /\ new.tries = q.tries
    BY <1>b DEF Framed, Typed, Fields, Points
  <2> HIDE DEF new
  <2> QED
    BY <2>1, <2>2, <2>3, <2>4 DEF Kept, Sound, Talking
<1>22. CASE BodyWaits(r)
  <2> DEFINE new == [q EXCEPT !.at = "idle", !.rtimer = TRUE]
  <2>1. q.tries > 0
    BY <1>b, <1>22 DEF BodyWaits, At, InBody, q, Talking
  <2>2. Set(r, new) /\ SharedOK'
    BY <1>a, <1>22 DEF BodyWaits, SharedOK, peers, lock, Count, q
  <2>3. Framed(new)
    BY <1>b DEF Framed
  <2>4. Typed(new) /\ new.at = "idle" /\ new.tries = q.tries
    BY <1>b DEF Framed, Typed, Fields, Points
  <2> HIDE DEF new
  <2> QED
    BY <2>1, <2>2, <2>3, <2>4 DEF Kept, Sound, Talking
<1>23. CASE BodyEnds(r)
  <2>1. Sound(Finished(q, 0))
    BY <1>b, FinishedSound
  <2>2. Set(r, Finished(q, 0)) /\ SharedOK'
    BY <1>a, <1>23 DEF BodyEnds, SharedOK, peers, lock, CloseCount, Count, q
  <2> QED
    BY <2>1, <2>2 DEF Kept
<1>24. CASE BodyAborts(r)
  <2>1. Sound(Finished(q, 0))
    BY <1>b, FinishedSound
  <2>2. Set(r, Finished(q, 0)) /\ SharedOK'
    BY <1>a, <1>24 DEF BodyAborts, SharedOK, peers, lock, CloseCount, Count, q
  <2> QED
    BY <2>1, <2>2 DEF Kept
<1>25. CASE NextUpstream(r)
  <2>1. q.at = "next" /\ q.why \in Reasons /\ q.tries > 0
    BY <1>b, <1>25 DEF NextUpstream, At, Talking, q
  <2>2. \/ Set(r, Finished(Left(q), Status[q.why]))
        \/ Set(r, [Left(q) EXCEPT !.at = Begin])
    BY <1>25 DEF NextUpstream, Left, q
  <2>3. Framed(Left(q)) /\ Typed(Left(q))
    BY <1>b, <2>1, LeftSound
  <2>4. Sound(Finished(Left(q), Status[q.why]))
    BY <2>1, <2>3, FinishedSound DEF Status, Reasons
  <2>5. Sound([Left(q) EXCEPT !.at = Begin])
    <3> DEFINE l == Left(q)
    <3> HIDE DEF l
    <3>1. Framed([l EXCEPT !.at = Begin])
      BY <2>3 DEF Framed, l
    <3>2. Typed([l EXCEPT !.at = Begin]) /\ [l EXCEPT !.at = Begin].at = Begin
      BY <2>3 DEF Framed, Typed, Fields, Points, Begin, l
    <3> QED
      BY <3>1, <3>2 DEF Sound, Talking, Begin, l
  <2>6. SharedOK'
    <3>1. busy' \in Int /\ waiting' \in Int /\ current' \in Peers
      BY <1>a, <1>25 DEF NextUpstream, SharedOK, CloseCount, Count
    <3>2. q.cur \in Peers
      BY <1>b DEF Typed
    <3>3. fails' \in [Peers -> 0 .. MaxFails + 1] /\ hot' \subseteq Peers
      BY <1>a, <1>25, <3>2, ProxyUpstreamAssumption DEF NextUpstream, SharedOK, q
    <3> QED
      BY <3>1, <3>3 DEF SharedOK
  <2> QED
    BY <2>2, <2>4, <2>5, <2>6 DEF Kept
<1>26. CASE ClientGone(r)
  <2>1. Sound(Finished(q, 499))
    BY <1>b, FinishedSound
  <2>2. Set(r, Finished(q, 499)) /\ SharedOK'
    BY <1>a, <1>26 DEF ClientGone, SharedOK, peers, lock, CloseCount, Count, q
  <2> QED
    BY <2>1, <2>2 DEF Kept
<1> QED
  BY <1>1, <1>2, <1>3, <1>4, <1>5, <1>6, <1>7, <1>8, <1>9, <1>10, <1>11, <1>12, <1>13,
     <1>14, <1>15, <1>16, <1>17, <1>18, <1>19, <1>20, <1>21, <1>22, <1>23, <1>24,
     <1>25, <1>26 DEF Step

LEMMA TypeStep == Shape /\ [Next]_vars => Shape'
<1> SUFFICES ASSUME Shape, [Next]_vars PROVE Shape'
  OBVIOUS
<1>1. ASSUME NEW r \in Reqs, Step(r) PROVE Shape'
  <2>1. SharedOK' /\ \E new : Sound(new) /\ Set(r, new)
    BY <1>1, StepKeeps DEF Kept
  <2> QED
    BY <2>1, SetSound DEF Shape, TypeOK, SharedOK
<1>2. ASSUME NEW p \in Peers, Cools(p) PROVE Shape'
  BY <1>2 DEF Cools, Shape, TypeOK, lock
<1>3. CASE UNCHANGED vars
  BY <1>3 DEF vars, peers, lock, Shape, TypeOK
<1> QED
  BY <1>1, <1>2, <1>3, NextIsStep

LEMMA ShapeKept == Spec => []Shape
BY TypeInit, TypeStep, PTL DEF Spec

\* Every reachable state has the shape the C declarations give it, and every index of
\* a peer is in the array.
THEOREM TypeCorrect == Spec => []TypeOK
BY ShapeKept, PTL DEF Shape

-----------------------------------------------------------------------------
(* Waits. A request in the queue of the busy lock is counted as long as it *)
(* is there, and only there has a time; one that waits for its peer, or    *)
(* reads from it, has a timer.                                             *)

Waits(q) == q.at = "wait" \/ (q.at = "lock" /\ q.time > 0)
Timely(q) == /\ q.at \notin {"wait", "lock", "done"} => q.time = 0
             /\ q.at \in {"idle", "headers"} => q.wtimer \/ q.rtimer

\* What a step does to the count follows what it does to the request.
Timed(r) == \E new : /\ Set(r, new) /\ Timely(new)
                     /\ waiting' >= waiting - Count(Waits(req[r])) + Count(Waits(new))

\* The fields of a new attempt and of a failed one, one by one.
LEMMA ConnectedIs ==
  ASSUME Shape, NEW r \in Reqs, NEW rc \in {"again", "ok"}
  PROVE  LET c == Chosen(r)
             n == Connected(r, rc) IN
         /\ Framed(n)
         /\ n.pos = Reinit(c).pos /\ n.hdr = Reinit(c).hdr
         /\ n.open = TRUE /\ n.whole = (Reinit(c).pos = "start") /\ n.sent = FALSE
         /\ n.wh = "send" /\ n.rh = "status" /\ n.wtimer = (rc = "again")
         /\ n.at = IF rc = "again" THEN "idle" ELSE "send"
         /\ n.tries = c.tries /\ n.time = req[r].time /\ n.headers = req[r].headers
<1> DEFINE p == Reinit(Chosen(r))
           new == [p EXCEPT !.open = TRUE, !.asked = Append(@, p.cur),
                            !.whole = p.pos = "start", !.sent = FALSE,
                            !.wh = "send", !.rh = "status", !.wtimer = rc = "again",
                            !.at = IF rc = "again" THEN "idle" ELSE "send"]
<1>1. /\ Framed(p) /\ p.tries = Chosen(r).tries /\ p.time = req[r].time
      /\ p.headers = req[r].headers
  BY ChosenSound, ReinitSound DEF Fields
<1>2. Connected(r, rc) = new
  BY DEF Connected
<1>3. p = Reinit(Chosen(r))
  OBVIOUS
<1> HIDE DEF p
<1>4. Framed(new)
  BY <1>1 DEF Framed
<1>5. /\ new.pos = p.pos /\ new.hdr = p.hdr /\ new.tries = p.tries /\ new.time = p.time
      /\ new.headers = p.headers
  BY <1>1 DEF Framed, Fields
<1>6. /\ new.open = TRUE /\ new.sent = FALSE /\ new.wh = "send" /\ new.rh = "status"
      /\ new.at = IF rc = "again" THEN "idle" ELSE "send"
  BY <1>1 DEF Framed, Fields
<1>7. new.whole = (p.pos = "start") /\ new.wtimer = (rc = "again")
  BY <1>1 DEF Framed, Fields
<1> HIDE DEF new
<1> QED
  BY <1>1, <1>2, <1>3, <1>4, <1>5, <1>6, <1>7

LEMMA LeftIs ==
  ASSUME NEW q, Framed(q), Typed(q)
  PROVE  /\ Framed(Left(q)) /\ Left(q).tries <= q.tries /\ Left(q).open = FALSE
         /\ \A g \in Fields \ {"tries", "cur", "open", "wtimer", "rtimer"} :
              Left(q)[g] = q[g]
<1> DEFINE p == IF q.why # "http_404" THEN PeerFailed(q) ELSE q
<1>1. /\ Framed(PeerFailed(q)) /\ PeerFailed(q).tries <= q.tries
      /\ \A g \in Fields \ {"tries", "cur"} : PeerFailed(q)[g] = q[g]
  <2>1. Framed(PeerFailed(q))
    BY DEF PeerFailed, Framed
  <2>2. PeerFailed(q).tries = q.tries - 1 /\ q.tries \in Int
    BY ProxyUpstreamAssumption DEF PeerFailed, Framed, Typed, Fields
  <2>3. \A g \in Fields \ {"tries", "cur"} : PeerFailed(q)[g] = q[g]
    BY DEF PeerFailed, Framed, Fields
  <2> QED
    BY <2>1, <2>2, <2>3
<1>2. /\ Framed(p) /\ p.tries <= q.tries
      /\ \A g \in Fields \ {"tries", "cur"} : p[g] = q[g]
  BY <1>1, ProxyUpstreamAssumption DEF Typed
<1> DEFINE l == [p EXCEPT !.open = FALSE, !.wtimer = FALSE, !.rtimer = FALSE]
<1>3. Left(q) = l
  BY DEF Left
<1> HIDE DEF p
<1>4. Framed(l)
  BY <1>2 DEF Framed
<1>5. l.tries = p.tries /\ l.open = FALSE
  BY <1>2 DEF Framed, Fields
<1>6. \A g \in Fields \ {"tries", "cur", "open", "wtimer", "rtimer"} : l[g] = p[g]
  BY <1>2 DEF Framed, Fields
<1> HIDE DEF l
<1> QED
  BY <1>2, <1>3, <1>4, <1>5, <1>6 DEF Fields

LEMMA StepTimed ==
  ASSUME Shape, \A s \in Reqs : Timely(req[s]), Corked = FALSE, NEW r \in Reqs, Step(r)
  PROVE  Timed(r)
<1> DEFINE q == req[r]
<1>a. waiting \in Int
  BY DEF Shape, TypeOK
<1>b. Framed(q) /\ Typed(q)
  BY DEF Shape, Sound
<1>c. Timely(q)
  OBVIOUS
<1> HIDE DEF q
<1>1. CASE Arrives(r)
  <2> DEFINE new == [q EXCEPT !.at = Begin]
  <2>1. Set(r, new) /\ Timely(new)
    BY <1>b, <1>c, <1>1 DEF Arrives, At, Timely, Framed, Typed, Fields, Begin, q
  <2>2. waiting' >= waiting - Count(Waits(q)) + Count(Waits(new))
    BY <1>a, <1>b, <1>c, <1>1 DEF Arrives, At, Timely, Waits, Framed, Typed, Fields,
       Begin, Count, peers, lock, q
  <2> QED
    BY <2>1, <2>2 DEF Timed, q
<1>2. CASE LockTaken(r)
  <2> DEFINE new == [q EXCEPT !.at = "connect", !.time = 0]
  <2>1. Set(r, new) /\ Timely(new)
    BY <1>b, <1>c, <1>2 DEF LockTaken, At, Timely, Framed, Typed, Fields, Begin, q
  <2>2. waiting' >= waiting - Count(Waits(q)) + Count(Waits(new))
    BY <1>a, <1>b, <1>c, <1>2 DEF LockTaken, At, Timely, Waits, Framed, Typed, Fields,
       Begin, Count, peers, lock, q
  <2> QED
    BY <2>1, <2>2 DEF Timed, q
<1>3. CASE LockWait(r)
  <2> DEFINE new == [q EXCEPT !.at = "wait"]
  <2>1. Set(r, new) /\ Timely(new)
    BY <1>b, <1>c, <1>3 DEF LockWait, At, Timely, Framed, Typed, Fields, Begin, q
  <2>2. waiting' >= waiting - Count(Waits(q)) + Count(Waits(new))
    BY <1>a, <1>b, <1>c, <1>3 DEF LockWait, At, Timely, Waits, Framed, Typed, Fields,
       Begin, Count, peers, lock, q
  <2> QED
    BY <2>1, <2>2 DEF Timed, q
<1>4. CASE LockRefused(r)
  <2>1. Set(r, Finished(q, 503)) /\ waiting' >= waiting - Count(Waits(q))
    BY <1>a, <1>4 DEF LockRefused, Waits, peers, lock, Count, At, q
  <2>2. Finished(q, 503).at = "done"
    BY <1>b DEF Finished, Framed, Fields
  <2> QED
    BY <1>a, <2>1, <2>2 DEF Timed, Waits, Timely, Count, q
<1>5. CASE WaitTimer(r)
  <2> DEFINE new == [q EXCEPT !.at = "lock", !.time = @ + 1]
  <2>1. Set(r, new) /\ Timely(new)
    BY <1>b, <1>c, <1>5 DEF WaitTimer, At, Timely, Framed, Typed, Fields, Begin, q
  <2>2. waiting' >= waiting - Count(Waits(q)) + Count(Waits(new))
    BY <1>a, <1>b, <1>c, <1>5 DEF WaitTimer, At, Timely, Waits, Framed, Typed, Fields,
       Begin, Count, peers, lock, q
  <2> QED
    BY <2>1, <2>2 DEF Timed, q
<1>6. CASE ConnectFails(r)
  <2>1. Set(r, Finished(Chosen(r), 500)) /\ waiting' >= waiting - Count(Waits(q))
    BY <1>a, <1>6 DEF ConnectFails, Waits, Count, At, q
  <2>2. Finished(Chosen(r), 500).at = "done"
    BY ChosenSound DEF Finished, Framed, Fields
  <2> QED
    BY <1>a, <2>1, <2>2 DEF Timed, Waits, Timely, Count, q
<1>7. CASE ConnectRefused(r)
  <2> DEFINE c == Chosen(r)
             new == [c EXCEPT !.open = TRUE, !.asked = Append(@, c.cur),
                              !.at = "next", !.why = "error"]
  <2>1. Set(r, new) /\ waiting' = waiting /\ q.at = "connect"
    BY <1>7 DEF ConnectRefused, lock, At, q
  <2>2. Framed(c) /\ c.time = q.time
    BY ChosenSound DEF Fields, q
  <2> HIDE DEF c
  <2>3. new.at = "next" /\ new.time = c.time
    BY <2>2 DEF Framed, Fields
  <2> HIDE DEF new
  <2> QED
    BY <1>a, <1>c, <2>1, <2>2, <2>3 DEF Timed, Waits, Timely, Count, q
<1>8. CASE Connect(r)
  <2>1. PICK rc \in {"again", "ok"} : Set(r, Connected(r, rc))
    BY <1>8 DEF Connect
  <2>2. waiting' = waiting /\ q.at = "connect"
    BY <1>8 DEF Connect, lock, At, q
  <2>3. /\ Connected(r, rc).time = q.time /\ Connected(r, rc).at \in {"idle", "send"}
        /\ Connected(r, rc).at = "idle" => Connected(r, rc).wtimer
    BY ConnectedIs DEF Fields, q
  <2> QED
    BY <1>a, <1>c, <2>1, <2>2, <2>3 DEF Timed, Waits, Timely, Count, q
<1>9. CASE WriteEvent(r)
  <2> DEFINE new == [q EXCEPT !.at = "send"]
  <2>1. Set(r, new) /\ Timely(new)
    BY <1>b, <1>c, <1>9 DEF WriteEvent, At, Timely, Framed, Typed, Fields, Begin, q
  <2>2. waiting' >= waiting - Count(Waits(q)) + Count(Waits(new))
    BY <1>a, <1>b, <1>c, <1>9 DEF WriteEvent, At, Timely, Waits, Framed, Typed,
       Fields, Begin, Count, peers, lock, q
  <2> QED
    BY <2>1, <2>2 DEF Timed, q
<1>10. CASE WriteTimeout(r)
  <2> DEFINE new == [q EXCEPT !.wtimer = FALSE, !.at = "next", !.why = "timeout"]
  <2>1. Set(r, new) /\ Timely(new)
    BY <1>b, <1>c, <1>10 DEF WriteTimeout, At, Timely, Framed, Typed, Fields, Begin, q
  <2>2. waiting' >= waiting - Count(Waits(q)) + Count(Waits(new))
    BY <1>a, <1>b, <1>c, <1>10 DEF WriteTimeout, At, Timely, Waits, Framed, Typed,
       Fields, Begin, Count, peers, lock, q
  <2> QED
    BY <2>1, <2>2 DEF Timed, q
<1>11. CASE SendError(r)
  <2>1. PICK pos \in {"start", "mid", "end"} :
          Set(r, [q EXCEPT !.pos = pos, !.at = "next", !.why = "error"])
    BY ZenonT(40), <1>b, <1>11 DEF SendError, Typed, q
  <2> DEFINE new == [q EXCEPT !.pos = pos, !.at = "next", !.why = "error"]
  <2>2. waiting' = waiting /\ q.at = "send"
    BY <1>11 DEF SendError, lock, At, q
  <2>3. new.at = "next" /\ new.time = q.time
    BY <1>b DEF Framed, Fields
  <2>4. Set(r, new)
    BY <2>1
  <2> HIDE DEF new
  <2> QED
    BY <1>a, <1>c, <2>2, <2>3, <2>4 DEF Timed, Waits, Timely, Count, q
<1>12. CASE SendAgain(r)
  <2> DEFINE new == [q EXCEPT !.sent = TRUE, !.pos = "mid", !.wtimer = TRUE, !.at = "idle"]
  <2>1. Set(r, new) /\ Timely(new)
    BY <1>b, <1>c, <1>12 DEF SendAgain, At, Timely, Framed, Typed, Fields, Begin, q
  <2>2. waiting' >= waiting - Count(Waits(q)) + Count(Waits(new))
    BY <1>a, <1>b, <1>c, <1>12 DEF SendAgain, At, Timely, Waits, Framed, Typed,
       Fields, Begin, Count, peers, lock, q
  <2> QED
    BY <2>1, <2>2 DEF Timed, q
<1>13. CASE SendOK(r)
  <2> DEFINE new == Passing(q, FALSE)
  <2>1. Set(r, new) /\ waiting' = waiting /\ q.at = "send"
    BY <1>13 DEF SendOK, Passing, lock, At, q
  <2>2. new.at = "idle" /\ new.time = q.time /\ new.rtimer = TRUE
    BY ZenonT(40), <1>b DEF Passing, Framed, Typed, Fields
  <2> HIDE DEF new
  <2> QED
    BY <1>a, <1>c, <2>1, <2>2 DEF Timed, Waits, Timely, Count, q
<1>14. CASE ReadTimeout(r)
  <2> DEFINE new == [q EXCEPT !.at = "next", !.why = "timeout"]
  <2>1. Set(r, new) /\ Timely(new)
    BY <1>b, <1>c, <1>14 DEF ReadTimeout, At, Fail, Timely, Framed, Typed, Fields,
       Begin, q
  <2>2. waiting' >= waiting - Count(Waits(q)) + Count(Waits(new))
    BY <1>a, <1>b, <1>c, <1>14 DEF ReadTimeout, At, Fail, Timely, Waits, Framed,
       Typed, Fields, Begin, Count, peers, lock, q
  <2> QED
    BY <2>1, <2>2 DEF Timed, q
<1>15. CASE ReadError(r)
  <2> DEFINE new == [q EXCEPT !.at = "next", !.why = "error"]
  <2>1. Set(r, new) /\ Timely(new)
    BY <1>b, <1>c, <1>15 DEF ReadError, At, Fail, Timely, Framed, Typed, Fields,
       Begin, q
  <2>2. waiting' >= waiting - Count(Waits(q)) + Count(Waits(new))
    BY <1>a, <1>b, <1>c, <1>15 DEF ReadError, At, Fail, Timely, Waits, Framed, Typed,
       Fields, Begin, Count, peers, lock, q
  <2> QED
    BY <2>1, <2>2 DEF Timed, q
<1>16. CASE StatusPartial(r)
  <2> DEFINE new == Received(q)
  <2>1. Set(r, new) /\ waiting' = waiting /\ q.at = "idle"
    BY <1>16 DEF StatusPartial, lock, At, q
  <2>2. /\ new.at = q.at /\ new.time = q.time /\ new.rtimer = q.rtimer
        /\ new.wtimer = q.wtimer
    BY <1>b, ReceivedSound DEF Fields
  <2> HIDE DEF new
  <2> QED
    BY <1>a, <1>c, <2>1, <2>2 DEF Timed, Waits, Timely, Count, q
<1>17. CASE StatusInvalid(r)
  <2> DEFINE p == Received(q)
             new == [p EXCEPT !.at = "next", !.why = "invalid_header"]
  <2>1. Set(r, new) /\ waiting' = waiting /\ q.at = "idle"
    BY <1>17 DEF StatusInvalid, lock, At, q
  <2>2. Framed(p) /\ p.time = q.time
    BY <1>b, ReceivedSound DEF Fields
  <2> HIDE DEF p
  <2>3. new.at = "next" /\ new.time = p.time
    BY <2>2 DEF Framed, Fields
  <2> HIDE DEF new
  <2> QED
    BY <1>a, <1>c, <2>1, <2>2, <2>3 DEF Timed, Waits, Timely, Count, q
<1>18. CASE \E code \in {"ok", "http_500", "http_404"} : StatusLine(r, code)
  <2> DEFINE p == Received(q)
  <2>1. PICK code \in {"ok", "http_500", "http_404"} : StatusLine(r, code)
    BY <1>18
  <2> DEFINE next == [p EXCEPT !.at = "next", !.why = code]
             on == [p EXCEPT !.at = "headers", !.rh = "headers"]
  <2>2. (Set(r, next) \/ Set(r, on)) /\ waiting' = waiting /\ q.at = "idle"
    BY <2>1 DEF StatusLine, lock, At, q
  <2>3. Framed(p) /\ p.time = q.time /\ p.wtimer = q.wtimer /\ p.rtimer = q.rtimer
    BY <1>b, ReceivedSound DEF Fields
  <2> HIDE DEF p
  <2>4. /\ next.at = "next" /\ next.time = p.time /\ on.at = "headers"
        /\ on.time = p.time
        /\ on.wtimer = p.wtimer /\ on.rtimer = p.rtimer
    BY <2>3 DEF Framed, Fields
  <2> HIDE DEF next, on
  <2> QED
    BY <1>a, <1>c, <2>2, <2>3, <2>4 DEF Timed, Waits, Timely, Count, q
<1>19. CASE HeadersPartial(r)
  <2> DEFINE new == [q EXCEPT !.at = "idle"]
  <2>1. Set(r, new) /\ Timely(new)
    BY <1>b, <1>c, <1>19 DEF HeadersPartial, At, Reading, Timely, Framed, Typed,
       Fields, Begin, q
  <2>2. waiting' >= waiting - Count(Waits(q)) + Count(Waits(new))
    BY <1>a, <1>b, <1>c, <1>19 DEF HeadersPartial, At, Reading, Timely, Waits, Framed,
       Typed, Fields, Begin, Count, peers, lock, q
  <2> QED
    BY <2>1, <2>2 DEF Timed, q
<1>20. CASE HeadersInvalid(r)
  <2> DEFINE new == [q EXCEPT !.at = "next", !.why = "invalid_header"]
  <2>1. Set(r, new) /\ Timely(new)
    BY <1>b, <1>c, <1>20 DEF HeadersInvalid, At, Fail, Reading, Timely, Framed, Typed,
       Fields, Begin, q
  <2>2. waiting' >= waiting - Count(Waits(q)) + Count(Waits(new))
    BY <1>a, <1>b, <1>c, <1>20 DEF HeadersInvalid, At, Fail, Reading, Timely, Waits,
       Framed, Typed, Fields, Begin, Count, peers, lock, q
  <2> QED
    BY <2>1, <2>2 DEF Timed, q
<1>21. CASE HeadersDone(r)
  <2> DEFINE new == [q EXCEPT !.headers = @ + 1, !.rh = "body", !.at = "body"]
  <2>1. Set(r, new) /\ Timely(new)
    BY <1>b, <1>c, <1>21 DEF HeadersDone, At, Reading, Timely, Framed, Typed, Fields,
       Begin, q
  <2>2. waiting' >= waiting - Count(Waits(q)) + Count(Waits(new))
    BY <1>a, <1>b, <1>c, <1>21 DEF HeadersDone, At, Reading, Timely, Waits, Framed,
       Typed, Fields, Begin, Count, peers, lock, q
  <2> QED
    BY <2>1, <2>2 DEF Timed, q
<1>22. CASE BodyWaits(r)
  <2> DEFINE new == [q EXCEPT !.at = "idle", !.rtimer = TRUE]
  <2>1. Set(r, new) /\ Timely(new)
    BY <1>b, <1>c, <1>22 DEF BodyWaits, At, InBody, Timely, Framed, Typed, Fields,
       Begin, q
  <2>2. waiting' >= waiting - Count(Waits(q)) + Count(Waits(new))
    BY <1>a, <1>b, <1>c, <1>22 DEF BodyWaits, At, InBody, Timely, Waits, Framed,
       Typed, Fields, Begin, Count, peers, lock, q
  <2> QED
    BY <2>1, <2>2 DEF Timed, q
<1>23. CASE BodyEnds(r)
  <2>1. Set(r, Finished(q, 0)) /\ waiting' >= waiting - Count(Waits(q))
    BY <1>a, <1>23 DEF BodyEnds, Waits, peers, lock, Count, At, q
  <2>2. Finished(q, 0).at = "done"
    BY <1>b DEF Finished, Framed, Fields
  <2> QED
    BY <1>a, <2>1, <2>2 DEF Timed, Waits, Timely, Count, q
<1>24. CASE BodyAborts(r)
  <2>1. Set(r, Finished(q, 0)) /\ waiting' >= waiting - Count(Waits(q))
    BY <1>a, <1>24 DEF BodyAborts, Waits, peers, lock, Count, At, q
  <2>2. Finished(q, 0).at = "done"
    BY <1>b DEF Finished, Framed, Fields
  <2> QED
    BY <1>a, <2>1, <2>2 DEF Timed, Waits, Timely, Count, q
<1>25. CASE NextUpstream(r)
  <2>1. q.at = "next" /\ waiting' = waiting
    BY <1>25 DEF NextUpstream, At, q
  <2>2. \/ Set(r, Finished(Left(q), Status[q.why]))
        \/ Set(r, [Left(q) EXCEPT !.at = Begin])
    BY <1>25 DEF NextUpstream, Left, q
  <2>3. Framed(Left(q)) /\ Left(q).time = q.time
    BY <1>b, LeftIs DEF Fields
  <2> DEFINE end == Finished(Left(q), Status[q.why])
             again == [Left(q) EXCEPT !.at = Begin]
  <2>4. end.at = "done"
    BY <2>3 DEF Finished, Framed, Fields
  <2>5. again.at \in {"lock", "connect"} /\ again.time = q.time
    BY <2>3 DEF Framed, Fields, Begin
  <2> HIDE DEF end, again
  <2>6. Set(r, end) \/ Set(r, again)
    BY <2>2 DEF end, again
  <2> QED
    BY <1>a, <1>c, <2>1, <2>4, <2>5, <2>6 DEF Timed, Waits, Timely, Count, q
<1>26. CASE ClientGone(r)
  <2>1. Set(r, Finished(q, 499)) /\ waiting' >= waiting - Count(Waits(q))
    BY <1>a, <1>26 DEF ClientGone, Waits, peers, lock, Count, At, q
  <2>2. Finished(q, 499).at = "done"
    BY <1>b DEF Finished, Framed, Fields
  <2> QED
    BY <1>a, <2>1, <2>2 DEF Timed, Waits, Timely, Count, q
<1> QED
  BY <1>1, <1>2, <1>3, <1>4, <1>5, <1>6, <1>7, <1>8, <1>9, <1>10, <1>11, <1>12, <1>13,
     <1>14, <1>15, <1>16, <1>17, <1>18, <1>19, <1>20, <1>21, <1>22, <1>23, <1>24,
     <1>25, <1>26 DEF Step

LEMMA CountedIs ==
  WaitersCounted <=> Cardinality({s \in Reqs : Waits(req[s])}) <= waiting
<1>1. {s \in Reqs : Waits(req[s])} =
        {s \in Reqs : At(s, {"wait"}) \/ (At(s, {"lock"}) /\ req[s].time > 0)}
  BY DEF Waits, At
<1> QED
  BY <1>1 DEF WaitersCounted

LEMMA StepCounted ==
  ASSUME Shape, IsFiniteSet(Reqs), WaitersCounted, NEW r \in Reqs, Timed(r), Shape'
  PROVE  WaitersCounted'
<1> DEFINE W == {s \in Reqs : Waits(req[s])}
           V == {s \in Reqs : Waits(req'[s])}
<1>1. PICK new : /\ Set(r, new) /\ Timely(new)
                 /\ waiting' >= waiting - Count(Waits(req[r])) + Count(Waits(new))
  BY DEF Timed
<1>2. req'[r] = new /\ \A s \in Reqs : s # r => req'[s] = req[s]
  BY <1>1 DEF Set, Shape, TypeOK
<1>3. V = IF Waits(new) THEN W \cup {r} ELSE W \ {r}
  BY <1>2
<1>4. IsFiniteSet(W) /\ Cardinality(W) \in Nat /\ (r \in W <=> Waits(req[r]))
  BY FS_Subset, FS_CardinalityType
<1>5. /\ Cardinality(W \cup {r}) = IF r \in W THEN Cardinality(W) ELSE Cardinality(W) + 1
      /\ Cardinality(W \ {r}) = IF r \in W THEN Cardinality(W) - 1 ELSE Cardinality(W)
  BY <1>4, FS_AddElement, FS_RemoveElement
<1>6. Cardinality(W) <= waiting /\ waiting \in Int /\ waiting' \in Int
  BY CountedIs DEF Shape, TypeOK
<1> HIDE DEF W, V
<1>7. Cardinality(V) <= waiting'
  BY <1>1, <1>3, <1>4, <1>5, <1>6 DEF Count
<1>8. V = {s \in Reqs : At(s, {"wait"})' \/ (At(s, {"lock"})' /\ req'[s].time > 0)}
  BY DEF V, Waits, At
<1> QED
  BY <1>7, <1>8 DEF WaitersCounted

AllTimely == WaitersCounted /\ \A r \in Reqs : Timely(req[r])

LEMMA WaitsInit ==
  ASSUME IsFiniteSet(Reqs)
  PROVE  Init => AllTimely
<1> SUFFICES ASSUME Init PROVE AllTimely
  OBVIOUS
<1>1. \A r \in Reqs : Timely(req[r]) /\ ~Waits(req[r])
  BY DEF Init, NewRequest, Timely, Waits
<1>2. {s \in Reqs : Waits(req[s])} = {}
  BY <1>1
<1> QED
  BY <1>1, <1>2, FS_EmptySet, CountedIs DEF AllTimely, Init

LEMMA WaitsStep ==
  ASSUME IsFiniteSet(Reqs), Corked = FALSE
  PROVE  Shape /\ Shape' /\ AllTimely /\ [Next]_vars => AllTimely'
<1> SUFFICES ASSUME Shape, Shape', AllTimely, [Next]_vars PROVE AllTimely'
  OBVIOUS
<1>1. ASSUME NEW r \in Reqs, Step(r) PROVE AllTimely'
  <2>1. Timed(r)
    BY <1>1, StepTimed DEF AllTimely
  <2>2. WaitersCounted'
    BY <2>1, StepCounted DEF AllTimely
  <2>3. \A s \in Reqs : Timely(req'[s])
    BY <2>1 DEF Timed, Set, AllTimely, Shape, TypeOK
  <2> QED
    BY <2>2, <2>3 DEF AllTimely
<1>2. ASSUME UNCHANGED <<req, waiting>> PROVE AllTimely'
  BY <1>2 DEF AllTimely, WaitersCounted, At
<1>3. ASSUME NEW p \in Peers, Cools(p) PROVE AllTimely'
  BY <1>2, <1>3 DEF Cools, lock
<1>4. CASE UNCHANGED vars
  BY <1>2, <1>4 DEF vars, lock
<1> QED
  BY <1>1, <1>3, <1>4, NextIsStep

\* Whichever way a request leaves the busy lock, waiting counts at least those that are
\* in it, so w= bounds them; and no request waits for its peer without a timer,
\* unless TCP_CORK makes ngx_http_proxy_send_request return early.
THEOREM WaitsAlwaysBounded ==
  ASSUME IsFiniteSet(Reqs), Corked = FALSE
  PROVE  Spec => []WaitsBounded
<1>1. Shape /\ AllTimely => WaitsBounded
  BY DEF AllTimely, Timely, WaitsBounded, WaitIsTimed, At
<1> QED
  BY <1>1, ShapeKept, WaitsInit, WaitsStep, PTL DEF Spec

-----------------------------------------------------------------------------
(* Retries. When a peer takes no part of a request before an error, and    *)
(* answers after all of it, a peer that is not the last one starts from     *)
(* nothing, and no peer is asked for once the header was sent.             *)

\* What is left of the attempt before, as long as there is another try.
Fresher(q) ==
  /\ q.tries > 1 =>
       /\ q.hdr # "stale"
       /\ q.sent = FALSE => q.pos = "start" /\ q.hdr = "empty"
       /\ q.at \in {"send", "idle", "headers", "body"} => q.whole = TRUE
  /\ q.open = TRUE => q.at \in Talking

\* The answer is read after the request was sent: the write handler is done by then,
\* and neither it nor its timer begins another attempt.
Ordered(q) ==
  /\ q.at = "send" => q.rh = "status"
  /\ q.at = "idle" /\ q.sent = TRUE /\ q.pos = "end" =>
       q.wh = "dummy" /\ q.wtimer = FALSE
  /\ q.at \in {"idle", "headers", "body"} /\ q.rh # "status" =>
       q.sent = TRUE /\ q.pos = "end" /\ q.wh = "dummy" /\ q.wtimer = FALSE
  /\ q.at = "headers" => q.rh = "headers"
  /\ q.at = "body" => q.rh = "body"
  /\ q.headers <= 1
  /\ q.headers > 0 => q.at = "done" \/ (q.at \in {"body", "idle"} /\ q.rh = "body")

Clean(q) == Fresher(q) /\ Ordered(q)

\* An end or the way to another peer is clean if the header was not sent twice, nor before.
LEMMA EndClean ==
  ASSUME NEW q, Framed(q), Typed(q), Clean(q), NEW s
  PROVE  Clean(Finished(q, s))
<1> DEFINE new == Finished(q, s)
<1>1. new.at = "done" /\ new.open = FALSE
  BY DEF Finished, Framed, Fields
<1>2. /\ new.tries = q.tries /\ new.hdr = q.hdr /\ new.sent = q.sent /\ new.pos = q.pos
      /\ new.headers = q.headers
  BY DEF Finished, Framed, Fields
<1> HIDE DEF new
<1>3. Fresher(new)
  BY <1>1, <1>2 DEF Clean, Fresher, Typed
<1>4. Ordered(new)
  BY <1>1, <1>2 DEF Clean, Ordered, Typed
<1> QED
  BY <1>3, <1>4 DEF Clean, new

LEMMA ReceivedClean ==
  ASSUME NEW q, Framed(q), Typed(q), Clean(q), q.sent = TRUE
  PROVE  Clean(Received(q))
<1>1. Received(q).hdr = IF q.hdr = "stale" THEN "stale" ELSE "own"
  BY DEF Received, Framed, Fields
<1>2. \A g \in Fields \ {"hdr"} : Received(q)[g] = q[g]
  BY ReceivedSound
<1> DEFINE new == Received(q)
<1>3. /\ new.tries = q.tries /\ new.sent = q.sent /\ new.pos = q.pos
      /\ new.whole = q.whole /\ new.open = q.open /\ new.at = q.at /\ new.rh = q.rh
      /\ new.wh = q.wh /\ new.wtimer = q.wtimer /\ new.headers = q.headers
  BY <1>2 DEF Fields
<1> HIDE DEF new
<1> QED
  BY <1>1, <1>3 DEF Clean, Fresher, Ordered, new

LEMMA ChosenClean ==
  ASSUME Shape, NEW r \in Reqs, Clean(req[r])
  PROVE  Clean(Chosen(r))
<1> DEFINE q == req[r]
           new == Chosen(r)
<1>1. Typed(q) /\ Typed(new) /\ new.tries <= q.tries
  BY ChosenSound DEF Shape, Sound
<1>2. /\ new.hdr = q.hdr /\ new.sent = q.sent /\ new.pos = q.pos
      /\ new.whole = q.whole /\ new.open = q.open /\ new.at = q.at /\ new.rh = q.rh
      /\ new.wh = q.wh /\ new.wtimer = q.wtimer /\ new.headers = q.headers
  BY ChosenSound DEF Fields
<1> HIDE DEF q, new
<1>3. Clean(q)
  BY DEF q
<1>4. Clean(new)
  BY <1>1, <1>2, <1>3 DEF Clean, Fresher, Ordered, Typed
<1> QED
  BY <1>4 DEF new

\* Only a request with a try left goes to the next peer.
LEMMA StillTrying ==
  ASSUME Shape, NEW r \in Reqs, req[r].at = "next"
  PROVE  req[r].tries > 0
BY DEF Shape, Sound, Talking

LEMMA StepClean ==
  ASSUME Shape, EarlyAnswers = FALSE, PartialErrors = FALSE, Corked = FALSE,
         NEW r \in Reqs, Clean(req[r]), Step(r)
  PROVE  \E new : Set(r, new) /\ Clean(new)
<1> DEFINE q == req[r]
<1>b. Framed(q) /\ Typed(q)
  BY DEF Shape, Sound
<1>c. Clean(q)
  OBVIOUS
<1> HIDE DEF q
<1>1. CASE Arrives(r)
  <2> DEFINE new == [q EXCEPT !.at = Begin]
  <2>1. Set(r, new) /\ (q.at = "new")
    BY <1>b, <1>1 DEF Arrives, At, Typed, q
  <2>2. /\ new.tries = q.tries /\ new.hdr = q.hdr /\ new.sent = q.sent
        /\ new.pos = q.pos /\ new.whole = q.whole /\ new.open = q.open
        /\ new.rh = q.rh /\ new.wh = q.wh /\ new.wtimer = q.wtimer
        /\ new.headers = q.headers /\ new.at \in {"lock", "connect"}
    BY <1>b DEF Framed, Fields, Begin
  <2> HIDE DEF new
  <2>3. Fresher(new)
    BY <1>b, <1>c, <2>1, <2>2 DEF Clean, Fresher, Ordered, Typed, Talking
  <2>4. Ordered(new)
    BY <1>b, <1>c, <2>1, <2>2 DEF Clean, Ordered, Typed
  <2> QED
    BY <2>1, <2>3, <2>4 DEF Clean
<1>2. CASE LockTaken(r)
  <2> DEFINE new == [q EXCEPT !.at = "connect", !.time = 0]
  <2>1. Set(r, new) /\ (q.at = "lock")
    BY <1>b, <1>2 DEF LockTaken, At, Typed, q
  <2>2. /\ new.tries = q.tries /\ new.hdr = q.hdr /\ new.sent = q.sent
        /\ new.pos = q.pos /\ new.whole = q.whole /\ new.open = q.open
        /\ new.at = "connect" /\ new.rh = q.rh /\ new.wh = q.wh
        /\ new.wtimer = q.wtimer /\ new.headers = q.headers
    BY <1>b DEF Framed, Fields
  <2> HIDE DEF new
  <2>3. Fresher(new)
    BY <1>b, <1>c, <2>1, <2>2 DEF Clean, Fresher, Ordered, Typed, Talking
  <2>4. Ordered(new)
    BY <1>b, <1>c, <2>1, <2>2 DEF Clean, Ordered, Typed
  <2> QED
    BY <2>1, <2>3, <2>4 DEF Clean
<1>3. CASE LockWait(r)
  <2> DEFINE new == [q EXCEPT !.at = "wait"]
  <2>1. Set(r, new) /\ (q.at = "lock")
    BY <1>b, <1>3 DEF LockWait, At, Typed, q
  <2>2. /\ new.tries = q.tries /\ new.hdr = q.hdr /\ new.sent = q.sent
        /\ new.pos = q.pos /\ new.whole = q.whole /\ new.open = q.open
        /\ new.at = "wait" /\ new.rh = q.rh /\ new.wh = q.wh
        /\ new.wtimer = q.wtimer /\ new.headers = q.headers
    BY <1>b DEF Framed, Fields
  <2> HIDE DEF new
  <2>3. Fresher(new)
    BY <1>b, <1>c, <2>1, <2>2 DEF Clean, Fresher, Ordered, Typed, Talking
  <2>4. Ordered(new)
    BY <1>b, <1>c, <2>1, <2>2 DEF Clean, Ordered, Typed
  <2> QED
    BY <2>1, <2>3, <2>4 DEF Clean
<1>4. CASE LockRefused(r)
  <2>1. Set(r, Finished(q, 503))
    BY <1>4 DEF LockRefused, q
  <2> QED
    BY <1>b, <1>c, <2>1, EndClean
<1>5. CASE WaitTimer(r)
  <2> DEFINE new == [q EXCEPT !.at = "lock", !.time = @ + 1]
  <2>1. Set(r, new) /\ (q.at = "wait")
    BY <1>b, <1>5 DEF WaitTimer, At, Typed, q
  <2>2. /\ new.tries = q.tries /\ new.hdr = q.hdr /\ new.sent = q.sent
        /\ new.pos = q.pos /\ new.whole = q.whole /\ new.open = q.open
        /\ new.at = "lock" /\ new.rh = q.rh /\ new.wh = q.wh
        /\ new.wtimer = q.wtimer /\ new.headers = q.headers
    BY <1>b DEF Framed, Fields
  <2> HIDE DEF new
  <2>3. Fresher(new)
    BY <1>b, <1>c, <2>1, <2>2 DEF Clean, Fresher, Ordered, Typed, Talking
  <2>4. Ordered(new)
    BY <1>b, <1>c, <2>1, <2>2 DEF Clean, Ordered, Typed
  <2> QED
    BY <2>1, <2>3, <2>4 DEF Clean
<1>6. CASE ConnectFails(r)
  <2>1. Set(r, Finished(Chosen(r), 500))
    BY <1>6 DEF ConnectFails
  <2> QED
    BY <1>6, <2>1, ChosenClean, EndClean, ChosenSound DEF ConnectFails, q
<1>7. CASE ConnectRefused(r)
  <2> DEFINE c == Chosen(r)
             new == [c EXCEPT !.open = TRUE, !.asked = Append(@, c.cur),
                              !.at = "next", !.why = "error"]
  <2>1. Set(r, new) /\ q.at = "connect"
    BY <1>7 DEF ConnectRefused, At, q
  <2>2. Framed(c) /\ Typed(c) /\ c.at = q.at /\ Clean(c)
    BY <1>c, ChosenSound, ChosenClean DEF Fields, q
  <2> HIDE DEF c
  <2>3. /\ new.tries = c.tries /\ new.hdr = c.hdr /\ new.sent = c.sent
        /\ new.pos = c.pos /\ new.whole = c.whole /\ new.open = TRUE
        /\ new.at = "next" /\ new.rh = c.rh /\ new.wh = c.wh
        /\ new.wtimer = c.wtimer /\ new.headers = c.headers
    BY <2>2 DEF Framed, Fields
  <2> HIDE DEF new
  <2>4. Clean(new)
    BY <2>1, <2>2, <2>3 DEF Clean, Fresher, Ordered, Typed, Talking
  <2> QED
    BY <2>1, <2>4
<1>8. CASE Connect(r)
  <2>1. PICK rc \in {"again", "ok"} : Set(r, Connected(r, rc))
    BY <1>8 DEF Connect
  <2> DEFINE c == Chosen(r)
             new == Connected(r, rc)
  <2>2. Framed(c) /\ Typed(c) /\ c.at = "connect" /\ c.headers = q.headers /\ Clean(c)
    BY <1>c, <1>8, ChosenSound, ChosenClean DEF Fields, Connect, At, q
  <2>3. /\ new.pos = Reinit(c).pos /\ new.hdr = Reinit(c).hdr /\ new.open = TRUE
        /\ Reinit(c).pos = "start" => new.whole = TRUE
        /\ new.sent = FALSE /\ new.wh = "send" /\ new.rh = "status"
        /\ new.at \in {"idle", "send"}
        /\ new.tries = c.tries /\ new.headers = q.headers
    BY ConnectedIs DEF q
  <2> HIDE DEF c, new
  <2>4. c.tries > 1 => Reinit(c).pos = "start" /\ Reinit(c).hdr = "empty"
    <3>1. CASE c.tries > 1 /\ c.sent = TRUE
      BY <2>2, <3>1 DEF Reinit, Framed, Fields
    <3>2. CASE c.tries > 1 /\ c.sent = FALSE
      BY <2>2, <3>2 DEF Reinit, Framed, Fields, Clean, Fresher
    <3> QED
      BY ZenonT(40), <2>2, <3>1, <3>2 DEF Typed
  <2>5. Clean(new)
    BY <2>2, <2>3, <2>4 DEF Clean, Fresher, Ordered, Typed, Talking
  <2>6. Set(r, new)
    BY <2>1 DEF new
  <2> QED
    BY <2>5, <2>6
<1>9. CASE WriteEvent(r)
  <2> DEFINE new == [q EXCEPT !.at = "send"]
  <2>1. Set(r, new) /\ (q.at = "idle" /\ q.wh = "send")
    BY <1>b, <1>9 DEF WriteEvent, At, Typed, q
  <2>2. /\ new.tries = q.tries /\ new.hdr = q.hdr /\ new.sent = q.sent
        /\ new.pos = q.pos /\ new.whole = q.whole /\ new.open = q.open
        /\ new.at = "send" /\ new.rh = q.rh /\ new.wh = q.wh
        /\ new.wtimer = q.wtimer /\ new.headers = q.headers
    BY <1>b DEF Framed, Fields
  <2> HIDE DEF new
  <2>3. Fresher(new)
    BY <1>b, <1>c, <2>1, <2>2 DEF Clean, Fresher, Ordered, Typed, Talking
  <2>4. Ordered(new)
    BY <1>b, <1>c, <2>1, <2>2 DEF Clean, Ordered, Typed
  <2> QED
    BY <2>1, <2>3, <2>4 DEF Clean
<1>10. CASE WriteTimeout(r)
  <2> DEFINE new == [q EXCEPT !.wtimer = FALSE, !.at = "next", !.why = "timeout"]
  <2>1. Set(r, new) /\ (q.at = "idle" /\ q.wtimer = TRUE)
    BY <1>b, <1>10 DEF WriteTimeout, At, Typed, q
  <2>2. /\ new.tries = q.tries /\ new.hdr = q.hdr /\ new.sent = q.sent
        /\ new.pos = q.pos /\ new.whole = q.whole /\ new.open = q.open
        /\ new.at = "next" /\ new.rh = q.rh /\ new.wh = q.wh /\ new.wtimer = FALSE
        /\ new.headers = q.headers
    BY <1>b DEF Framed, Fields
  <2> HIDE DEF new
  <2>3. Fresher(new)
    BY <1>b, <1>c, <2>1, <2>2 DEF Clean, Fresher, Ordered, Typed, Talking
  <2>4. Ordered(new)
    BY <1>b, <1>c, <2>1, <2>2 DEF Clean, Ordered, Typed
  <2> QED
    BY <2>1, <2>3, <2>4 DEF Clean
<1>11. CASE SendError(r)
  <2> DEFINE new == [q EXCEPT !.pos = q.pos, !.at = "next", !.why = "error"]
  <2>1. Set(r, new) /\ q.at = "send"
    BY <1>11 DEF SendError, At, q
  <2>2. /\ new.tries = q.tries /\ new.hdr = q.hdr /\ new.sent = q.sent
        /\ new.pos = q.pos /\ new.whole = q.whole /\ new.open = q.open
        /\ new.at = "next" /\ new.rh = q.rh /\ new.wh = q.wh
        /\ new.wtimer = q.wtimer /\ new.headers = q.headers
    BY <1>b DEF Framed, Fields
  <2> HIDE DEF new
  <2>3. Clean(new)
    BY <1>b, <1>c, <2>1, <2>2 DEF Clean, Fresher, Ordered, Typed, Talking
  <2> QED
    BY <2>1, <2>3
<1>12. CASE SendAgain(r)
  <2> DEFINE new == [q EXCEPT !.sent = TRUE, !.pos = "mid", !.wtimer = TRUE, !.at = "idle"]
  <2>1. Set(r, new) /\ (q.at = "send" /\ q.pos = "start")
    BY <1>b, <1>12 DEF SendAgain, At, Typed, q
  <2>2. /\ new.tries = q.tries /\ new.hdr = q.hdr /\ new.sent = TRUE
        /\ new.pos = "mid" /\ new.whole = q.whole /\ new.open = q.open
        /\ new.at = "idle" /\ new.rh = q.rh /\ new.wh = q.wh /\ new.wtimer = TRUE
        /\ new.headers = q.headers
    BY <1>b DEF Framed, Fields
  <2> HIDE DEF new
  <2>3. Fresher(new)
    BY <1>b, <1>c, <2>1, <2>2 DEF Clean, Fresher, Ordered, Typed, Talking
  <2>4. Ordered(new)
    BY <1>b, <1>c, <2>1, <2>2 DEF Clean, Ordered, Typed
  <2> QED
    BY <2>1, <2>3, <2>4 DEF Clean
<1>13. CASE SendOK(r)
  <2> DEFINE new == Passing(q, FALSE)
  <2>1. Set(r, new) /\ q.at = "send"
    BY <1>13 DEF SendOK, Passing, At, q
  <2>2. /\ new.tries = q.tries /\ new.hdr = q.hdr /\ new.sent = TRUE
        /\ new.pos = "end" /\ new.whole = q.whole /\ new.open = q.open
        /\ new.at = "idle" /\ new.rh = q.rh /\ new.wh = "dummy"
        /\ new.wtimer = FALSE /\ new.headers = q.headers
    BY <1>b DEF Passing, Framed, Fields
  <2> HIDE DEF new
  <2>3. Clean(new)
    BY <1>b, <1>c, <2>1, <2>2 DEF Clean, Fresher, Ordered, Typed, Talking
  <2> QED
    BY <2>1, <2>3
<1>14. CASE ReadTimeout(r)
  <2> DEFINE new == [q EXCEPT !.at = "next", !.why = "timeout"]
  <2>1. Set(r, new) /\ (q.at = "idle" /\ q.rh # "body")
    BY <1>b, <1>14 DEF ReadTimeout, At, Fail, Typed, q
  <2>2. /\ new.tries = q.tries /\ new.hdr = q.hdr /\ new.sent = q.sent
        /\ new.pos = q.pos /\ new.whole = q.whole /\ new.open = q.open
        /\ new.at = "next" /\ new.rh = q.rh /\ new.wh = q.wh
        /\ new.wtimer = q.wtimer /\ new.headers = q.headers
    BY <1>b DEF Framed, Fields
  <2> HIDE DEF new
  <2>3. Fresher(new)
    BY <1>b, <1>c, <2>1, <2>2 DEF Clean, Fresher, Ordered, Typed, Talking
  <2>4. Ordered(new)
    BY <1>b, <1>c, <2>1, <2>2 DEF Clean, Ordered, Typed
  <2> QED
    BY <2>1, <2>3, <2>4 DEF Clean
<1>15. CASE ReadError(r)
  <2> DEFINE new == [q EXCEPT !.at = "next", !.why = "error"]
  <2>1. Set(r, new) /\ ((q.at = "idle" /\ q.rh # "body") \/ q.at = "headers")
    BY <1>b, <1>15 DEF ReadError, At, Fail, Typed, q
  <2>2. /\ new.tries = q.tries /\ new.hdr = q.hdr /\ new.sent = q.sent
        /\ new.pos = q.pos /\ new.whole = q.whole /\ new.open = q.open
        /\ new.at = "next" /\ new.rh = q.rh /\ new.wh = q.wh
        /\ new.wtimer = q.wtimer /\ new.headers = q.headers
    BY <1>b DEF Framed, Fields
  <2> HIDE DEF new
  <2>3. Fresher(new)
    BY <1>b, <1>c, <2>1, <2>2 DEF Clean, Fresher, Ordered, Typed, Talking
  <2>4. Ordered(new)
    BY <1>b, <1>c, <2>1, <2>2 DEF Clean, Ordered, Typed
  <2> QED
    BY <2>1, <2>3, <2>4 DEF Clean
<1>16. CASE StatusPartial(r)
  <2>1. Set(r, Received(q)) /\ q.sent = TRUE
    BY <1>b, <1>16 DEF StatusPartial, Answers, Typed, q
  <2> QED
    BY <1>b, <1>c, <2>1, ReceivedClean
<1>17. CASE StatusInvalid(r)
  <2> DEFINE p == Received(q)
             new == [p EXCEPT !.at = "next", !.why = "invalid_header"]
  <2>1. Set(r, new) /\ q.at = "idle" /\ q.sent = TRUE /\ q.rh = "status"
    BY <1>b, <1>17 DEF StatusInvalid, Answers, At, Typed, q
  <2>2. Framed(p) /\ Typed(p) /\ Clean(p) /\ p.at = "idle" /\ p.rh = "status"
    BY <1>b, <1>c, <2>1, ReceivedSound, ReceivedClean DEF Fields
  <2> HIDE DEF p
  <2>3. /\ new.tries = p.tries /\ new.hdr = p.hdr /\ new.sent = p.sent
        /\ new.pos = p.pos /\ new.whole = p.whole /\ new.open = p.open
        /\ new.at = "next" /\ new.rh = p.rh /\ new.wh = p.wh
        /\ new.wtimer = p.wtimer /\ new.headers = p.headers
    BY <2>2 DEF Framed, Fields
  <2> HIDE DEF new
  <2>4. Clean(new)
    BY <2>2, <2>3 DEF Clean, Fresher, Ordered, Typed, Talking
  <2> QED
    BY <2>1, <2>4
<1>18. CASE \E code \in {"ok", "http_500", "http_404"} : StatusLine(r, code)
  <2> DEFINE p == Received(q)
  <2>1. PICK code \in {"ok", "http_500", "http_404"} : StatusLine(r, code)
    BY <1>18
  <2>2. q.at = "idle" /\ q.sent = TRUE /\ q.pos = "end" /\ q.rh = "status"
    BY <1>b, <2>1 DEF StatusLine, Answers, At, Typed, q
  <2>3. /\ Framed(p) /\ Typed(p) /\ Clean(p)
        /\ p.at = "idle" /\ p.rh = "status" /\ p.sent = TRUE /\ p.pos = "end"
    BY <1>b, <1>c, <2>2, ReceivedSound, ReceivedClean DEF Fields
  <2>4. ASSUME NEW new, new = [p EXCEPT !.at = "next", !.why = code]
        PROVE  Clean(new)
    <3> HIDE DEF p
    <3>1. /\ new.tries = p.tries /\ new.hdr = p.hdr /\ new.sent = p.sent
          /\ new.pos = p.pos /\ new.whole = p.whole /\ new.open = p.open
          /\ new.at = "next" /\ new.rh = p.rh /\ new.wh = p.wh
          /\ new.wtimer = p.wtimer /\ new.headers = p.headers
      BY <2>3, <2>4 DEF Framed, Fields
    <3> QED
      BY <2>3, <3>1 DEF Clean, Fresher, Ordered, Typed, Talking
  <2>5. ASSUME NEW new, new = [p EXCEPT !.at = "headers", !.rh = "headers"]
        PROVE  Clean(new)
    <3> HIDE DEF p
    <3>1. /\ new.tries = p.tries /\ new.hdr = p.hdr /\ new.sent = p.sent
          /\ new.pos = p.pos /\ new.whole = p.whole /\ new.open = p.open
          /\ new.at = "headers" /\ new.rh = "headers" /\ new.wh = p.wh
          /\ new.wtimer = p.wtimer /\ new.headers = p.headers
      BY <2>3, <2>5 DEF Framed, Fields
    <3> QED
      BY <2>3, <3>1 DEF Clean, Fresher, Ordered, Typed, Talking
  <2>6. \/ Set(r, [p EXCEPT !.at = "next", !.why = code])
        \/ Set(r, [p EXCEPT !.at = "headers", !.rh = "headers"])
    BY <2>1 DEF StatusLine, q
  <2> QED
    BY <2>4, <2>5, <2>6
<1>19. CASE HeadersPartial(r)
  <2> DEFINE new == [q EXCEPT !.at = "idle"]
  <2>1. Set(r, new) /\ (q.at = "headers" \/ (q.at = "idle" /\ q.rh = "headers"))
    BY <1>b, <1>19 DEF HeadersPartial, At, Reading, Typed, q
  <2>2. /\ new.tries = q.tries /\ new.hdr = q.hdr /\ new.sent = q.sent
        /\ new.pos = q.pos /\ new.whole = q.whole /\ new.open = q.open
        /\ new.at = "idle" /\ new.rh = q.rh /\ new.wh = q.wh
        /\ new.wtimer = q.wtimer /\ new.headers = q.headers
    BY <1>b DEF Framed, Fields
  <2> HIDE DEF new
  <2>3. Fresher(new)
    BY <1>b, <1>c, <2>1, <2>2 DEF Clean, Fresher, Ordered, Typed, Talking
  <2>4. Ordered(new)
    BY <1>b, <1>c, <2>1, <2>2 DEF Clean, Ordered, Typed
  <2> QED
    BY <2>1, <2>3, <2>4 DEF Clean
<1>20. CASE HeadersInvalid(r)
  <2> DEFINE new == [q EXCEPT !.at = "next", !.why = "invalid_header"]
  <2>1. Set(r, new) /\ (q.at = "headers" \/ (q.at = "idle" /\ q.rh = "headers"))
    BY <1>b, <1>20 DEF HeadersInvalid, At, Fail, Reading, Typed, q
  <2>2. /\ new.tries = q.tries /\ new.hdr = q.hdr /\ new.sent = q.sent
        /\ new.pos = q.pos /\ new.whole = q.whole /\ new.open = q.open
        /\ new.at = "next" /\ new.rh = q.rh /\ new.wh = q.wh
        /\ new.wtimer = q.wtimer /\ new.headers = q.headers
    BY <1>b DEF Framed, Fields
  <2> HIDE DEF new
  <2>3. Fresher(new)
    BY <1>b, <1>c, <2>1, <2>2 DEF Clean, Fresher, Ordered, Typed, Talking
  <2>4. Ordered(new)
    BY <1>b, <1>c, <2>1, <2>2 DEF Clean, Ordered, Typed
  <2> QED
    BY <2>1, <2>3, <2>4 DEF Clean
<1>21. CASE HeadersDone(r)
  <2> DEFINE new == [q EXCEPT !.headers = @ + 1, !.rh = "body", !.at = "body"]
  <2>1. Set(r, new) /\ (q.at = "headers" \/ (q.at = "idle" /\ q.rh = "headers"))
    BY <1>b, <1>21 DEF HeadersDone, At, Reading, Typed, q
  <2>2. /\ new.tries = q.tries /\ new.hdr = q.hdr /\ new.sent = q.sent
        /\ new.pos = q.pos /\ new.whole = q.whole /\ new.open = q.open
        /\ new.at = "body" /\ new.rh = "body" /\ new.wh = q.wh
        /\ new.wtimer = q.wtimer /\ new.headers = q.headers + 1
    BY <1>b DEF Framed, Fields, Typed
  <2> HIDE DEF new
  <2>3. Fresher(new)
    BY <1>b, <1>c, <2>1, <2>2 DEF Clean, Fresher, Ordered, Typed, Talking
  <2>4. Ordered(new)
    BY <1>b, <1>c, <2>1, <2>2 DEF Clean, Ordered, Typed
  <2> QED
    BY <2>1, <2>3, <2>4 DEF Clean
<1>22. CASE BodyWaits(r)
  <2> DEFINE new == [q EXCEPT !.at = "idle", !.rtimer = TRUE]
  <2>1. Set(r, new) /\ (q.at = "body" \/ (q.at = "idle" /\ q.rh = "body"))
    BY <1>b, <1>22 DEF BodyWaits, At, InBody, Typed, q
  <2>2. /\ new.tries = q.tries /\ new.hdr = q.hdr /\ new.sent = q.sent
        /\ new.pos = q.pos /\ new.whole = q.whole /\ new.open = q.open
        /\ new.at = "idle" /\ new.rh = q.rh /\ new.wh = q.wh
        /\ new.wtimer = q.wtimer /\ new.headers = q.headers
    BY <1>b DEF Framed, Fields
  <2> HIDE DEF new
  <2>3. Fresher(new)
    BY <1>b, <1>c, <2>1, <2>2 DEF Clean, Fresher, Ordered, Typed, Talking
  <2>4. Ordered(new)
    BY <1>b, <1>c, <2>1, <2>2 DEF Clean, Ordered, Typed
  <2> QED
    BY <2>1, <2>3, <2>4 DEF Clean
<1>23. CASE BodyEnds(r)
  <2>1. Set(r, Finished(q, 0))
    BY <1>23 DEF BodyEnds, q
  <2> QED
    BY <1>b, <1>c, <2>1, EndClean
<1>24. CASE BodyAborts(r)
  <2>1. Set(r, Finished(q, 0))
    BY <1>24 DEF BodyAborts, q
  <2> QED
    BY <1>b, <1>c, <2>1, EndClean
<1>25. CASE NextUpstream(r)
  <2>1. q.at = "next"
    BY <1>25 DEF NextUpstream, At, q
  <2>2. \/ Set(r, Finished(Left(q), Status[q.why]))
        \/ Set(r, [Left(q) EXCEPT !.at = Begin])
    BY <1>25 DEF NextUpstream, Left, q
  <2> DEFINE l == Left(q)
  <2>3. Framed(l) /\ Typed(l) /\ l.tries <= q.tries /\ l.open = FALSE
    BY <1>b, <2>1, LeftIs, LeftSound, StillTrying DEF q
  <2>4. /\ l.at = "next" /\ l.hdr = q.hdr /\ l.sent = q.sent /\ l.pos = q.pos
        /\ l.headers = q.headers
    BY <1>b, <2>1, LeftIs DEF Fields
  <2> HIDE DEF l
  <2>5. Clean(l)
    <3>1. Fresher(l)
      BY <1>b, <1>c, <2>1, <2>3, <2>4 DEF Clean, Fresher, Typed
    <3>2. Ordered(l)
      BY <1>b, <1>c, <2>1, <2>3, <2>4 DEF Clean, Ordered, Typed
    <3> QED
      BY <3>1, <3>2 DEF Clean
  <2>6. Clean(Finished(l, Status[q.why]))
    BY <2>3, <2>5, EndClean
  <2>7. Clean([l EXCEPT !.at = Begin])
    <3> DEFINE new == [l EXCEPT !.at = Begin]
    <3>1. /\ new.at \in {"lock", "connect"} /\ new.tries = l.tries /\ new.hdr = l.hdr
          /\ new.sent = l.sent /\ new.pos = l.pos /\ new.open = l.open
          /\ new.headers = l.headers
      BY <2>3 DEF Framed, Fields, Begin
    <3> HIDE DEF new
    <3> QED
      BY <2>3, <2>4, <2>5, <3>1 DEF Clean, Fresher, Ordered, Typed, new
  <2> QED
    BY <2>2, <2>6, <2>7 DEF l
<1>26. CASE ClientGone(r)
  <2>1. Set(r, Finished(q, 499))
    BY <1>26 DEF ClientGone, q
  <2> QED
    BY <1>b, <1>c, <2>1, EndClean
<1> QED
  BY <1>1, <1>2, <1>3, <1>4, <1>5, <1>6, <1>7, <1>8, <1>9, <1>10, <1>11, <1>12, <1>13,
     <1>14, <1>15, <1>16, <1>17, <1>18, <1>19, <1>20, <1>21, <1>22, <1>23, <1>24,
     <1>25, <1>26 DEF Step

AllClean == \A r \in Reqs : Clean(req[r])

LEMMA CleanInit == Init => AllClean
BY ProxyUpstreamAssumption
   DEF Init, NewRequest, AllClean, Clean, Fresher, Ordered, Talking

LEMMA CleanStep ==
  ASSUME EarlyAnswers = FALSE, PartialErrors = FALSE, Corked = FALSE
  PROVE  Shape /\ AllClean /\ [Next]_vars => AllClean'
<1> SUFFICES ASSUME Shape, AllClean, [Next]_vars PROVE AllClean'
  OBVIOUS
<1>1. ASSUME NEW r \in Reqs, Step(r) PROVE AllClean'
  <2>1. PICK new : Set(r, new) /\ Clean(new)
    BY <1>1, StepClean DEF AllClean
  <2> QED
    BY <2>1 DEF Set, AllClean, Shape, TypeOK
<1>2. ASSUME UNCHANGED req PROVE AllClean'
  BY <1>2 DEF AllClean
<1>3. ASSUME NEW p \in Peers, Cools(p) PROVE AllClean'
  BY <1>2, <1>3 DEF Cools
<1>4. CASE UNCHANGED vars
  BY <1>2, <1>4 DEF vars
<1> QED
  BY <1>1, <1>3, <1>4, NextIsStep

\* Whatever fails between a worker and its peers, a peer that is not the last one gets
\* the request from its start and is read into an empty buffer, and the client gets one
\* response header. The three assumptions are needed: each of them leaves a handler,
\* a position or a timer of the attempt before.
THEOREM RetriesAlwaysClean ==
  ASSUME EarlyAnswers = FALSE, PartialErrors = FALSE, Corked = FALSE
  PROVE  Spec => []CleanRetries
<1>1. Shape /\ AllClean => CleanRetries
  <2> SUFFICES ASSUME Shape, AllClean, NEW r \in Reqs
               PROVE  (req[r].tries > 1 => Fresh(req[r])) /\ req[r].headers <= 1
    BY DEF CleanRetries, FreshAttempt, HeaderSentOnce, Shape
  <2>1. Clean(req[r]) /\ Typed(req[r])
    BY DEF AllClean, Shape, Sound
  <2> QED
    BY <2>1 DEF Clean, Fresher, Ordered, Fresh, Typed, Talking
<1> QED
  BY <1>1, ShapeKept, CleanInit, CleanStep, PTL DEF Spec

-----------------------------------------------------------------------------
(* Peers. What a request tried is a window of the circle of peers that ends *)
(* at its cursor; the peer it talks to comes next.                         *)

LEMMA Wraps ==
  ASSUME NEW c \in Peers, NEW k \in 0 .. N
  PROVE  (c + k) % N = IF c + k < N THEN c + k ELSE c + k - N
<1>1. c \in Nat /\ c < N /\ k \in Nat /\ N \in Nat \ {0} /\ c + k \in Nat
  BY ProxyUpstreamAssumption DEF Peers
<1>2. CASE c + k < N
  BY <1>1, <1>2, SMT
<1>3. CASE ~(c + k < N)
  BY <1>1, <1>3, SMT
<1> QED
  BY <1>2, <1>3

\* How far behind the cursor a peer is; the cursor's is the farthest.
Back(c, p) == IF p < c THEN c - p ELSE c - p + N
Window(c, n) == {p \in Peers : Back(c, p) <= n}

LEMMA WindowMoves ==
  ASSUME NEW c \in Peers, NEW n \in Nat, NEW k \in Nat, n + k <= N
  PROVE  Window((c + k) % N, n + k) = Window(c, n) \cup {(c + j) % N : j \in 0 .. k - 1}
<1>0. N \in Nat \ {0} /\ c \in Nat /\ c < N /\ k <= N /\ k \in 0 .. N
  BY ProxyUpstreamAssumption DEF Peers
<1> DEFINE d == (c + k) % N
           new == {(c + j) % N : j \in 0 .. k - 1}
<1>1. d = IF c + k < N THEN c + k ELSE c + k - N
  BY <1>0, Wraps
<1>2. ASSUME NEW p \in Peers
      PROVE  p \in Window(d, n + k) <=> p \in Window(c, n) \cup new
  <2> DEFINE j == IF p < c THEN p - c + N ELSE p - c
  <2>0. p \in Nat /\ p < N
    BY <1>0 DEF Peers
  <2>1. j \in 0 .. N /\ j < N /\ Back(c, p) = N - j /\ p = IF c + j < N THEN c + j ELSE c + j - N
    BY <1>0, <2>0 DEF Back
  <2>2. p = (c + j) % N
    BY <2>1, Wraps
  <2>3. Back(d, p) = IF j < k THEN k - j ELSE N - j + k
    BY <1>0, <1>1, <2>0 DEF Back
  <2> HIDE DEF j
  <2>4. CASE j < k
    <3>1. j \in 0 .. k - 1
      BY <1>0, <2>1, <2>4
    <3>2. Back(d, p) <= n + k
      BY <1>0, <2>1, <2>3, <2>4
    <3> QED
      BY <2>2, <3>1, <3>2 DEF Window
  <2>5. CASE ~(j < k)
    <3>1. p \notin new
      <4> SUFFICES ASSUME NEW i \in 0 .. k - 1, p = (c + i) % N PROVE FALSE
        OBVIOUS
      <4>1. i \in 0 .. N /\ i < k /\ i \in Nat
        BY <1>0
      <4>2. p = IF c + i < N THEN c + i ELSE c + i - N
        BY <4>1, Wraps
      <4> QED
        BY <1>0, <2>0, <2>1, <2>5, <4>1, <4>2
    <3>2. Back(d, p) <= n + k <=> Back(c, p) <= n
      BY <1>0, <2>1, <2>3, <2>5
    <3> QED
      BY <3>1, <3>2 DEF Window
  <2> QED
    BY <2>4, <2>5
<1>3. new \subseteq Peers
  BY <1>0 DEF Peers
<1> QED
  BY <1>2, <1>3 DEF Window

LEMMA WindowEnds ==
  ASSUME NEW c \in Peers
  PROVE  Window(c, 0) = {} /\ Window(c, N) = Peers /\ \A n \in 0 .. N - 1 : c \notin Window(c, n)
<1>0. N \in Nat \ {0} /\ c \in Nat /\ c < N
  BY ProxyUpstreamAssumption DEF Peers
<1> QED
  BY <1>0 DEF Window, Back, Peers

LEMMA AppendOnce ==
  ASSUME NEW s \in Seq(Peers), NEW p \in Peers, IsInjective(s), p \notin Range(s)
  PROVE  IsInjective(Append(s, p)) /\ Range(Append(s, p)) = Range(s) \cup {p}
<1> DEFINE e == Append(s, p)
<1>1. /\ Len(s) \in Nat /\ DOMAIN s = 1 .. Len(s) /\ DOMAIN e = 1 .. Len(s) + 1
      /\ e[Len(s) + 1] = p /\ \A i \in 1 .. Len(s) : e[i] = s[i]
  OBVIOUS
<1> HIDE DEF e
<1>2. \A i \in 1 .. Len(s) : s[i] \in Range(s)
  BY <1>1 DEF Range
<1>3. IsInjective(e)
  <2> SUFFICES ASSUME NEW a \in 1 .. Len(s) + 1, NEW b \in 1 .. Len(s) + 1, e[a] = e[b]
               PROVE  a = b
    BY <1>1 DEF IsInjective
  <2>1. (a = Len(s) + 1 \/ a \in 1 .. Len(s)) /\ (b = Len(s) + 1 \/ b \in 1 .. Len(s))
    BY <1>1
  <2>2. \A i, k \in 1 .. Len(s) : s[i] = s[k] => i = k
    BY <1>1 DEF IsInjective
  <2> QED
    BY <1>1, <1>2, <2>1, <2>2
<1>4. Range(e) = Range(s) \cup {p}
  BY <1>1 DEF Range
<1> QED
  BY <1>3, <1>4 DEF e

Before == {"new", "lock", "wait", "connect"}
Tried(q) == Range(q.asked) \cup q.skipped

Once(q) ==
  /\ IsInjective(q.asked) /\ Range(q.asked) \cap q.skipped = {}
  /\ q.at \in Before => Tried(q) = Window(q.cur, N - q.tries)
  /\ q.at \in Talking => Tried(q) = Window(q.cur, N - q.tries) \cup {q.cur}
  /\ q.at = "done" /\ q.status \in {502, 504} /\ q.why \in NextOn => Tried(q) = Peers

\* What the steps do that neither choose a peer nor give one up.
Keeps(q, new) ==
  /\ new.asked = q.asked /\ new.skipped = q.skipped
  /\ \/ /\ new.tries = q.tries /\ new.cur = q.cur
        /\ \/ q.at \in Before /\ new.at \in Before
           \/ q.at \in Talking /\ new.at \in Talking
     \/ new.at = "done" /\ new.status \notin {502, 504}

LEMMA KeepsOnce ==
  ASSUME NEW q, NEW new, Once(q), Keeps(q, new)
  PROVE  Once(new)
BY DEF Once, Keeps, Tried, Before, Talking

\* A request that ends, other than by giving up.
LEMMA EndKeeps ==
  ASSUME NEW q, Framed(q), NEW s, s \notin {502, 504}
  PROVE  /\ Keeps(q, Finished(q, s))
         /\ Finished(q, s).asked = q.asked /\ Finished(q, s).skipped = q.skipped
<1> DEFINE e == IF q.headers > 0 THEN 0 ELSE s
           end == [q EXCEPT !.at = "done", !.open = FALSE, !.wtimer = FALSE,
                            !.rtimer = FALSE, !.status = e]
<1>1. Finished(q, s) = end /\ e \notin {502, 504}
  BY DEF Finished
<1> HIDE DEF e
<1>2. end.at = "done" /\ end.status = e /\ end.asked = q.asked /\ end.skipped = q.skipped
  BY DEF Framed, Fields
<1> HIDE DEF end
<1> QED
  BY <1>1, <1>2 DEF Keeps

\* The steps that neither choose a peer nor give one up.
Quiet(r) ==
  \/ Arrives(r) \/ LockTaken(r) \/ LockWait(r) \/ LockRefused(r) \/ WaitTimer(r)
  \/ WriteEvent(r) \/ WriteTimeout(r) \/ SendError(r) \/ SendAgain(r) \/ SendOK(r)
  \/ ReadTimeout(r) \/ ReadError(r) \/ StatusPartial(r) \/ StatusInvalid(r)
  \/ \E code \in {"ok", "http_500", "http_404"} : StatusLine(r, code)
  \/ HeadersPartial(r) \/ HeadersInvalid(r) \/ HeadersDone(r)
  \/ BodyWaits(r) \/ BodyEnds(r) \/ BodyAborts(r) \/ ClientGone(r)

LEMMA QuietKeeps ==
  ASSUME Shape, NEW r \in Reqs, Quiet(r)
  PROVE  Keeps(req[r], req'[r])
<1> DEFINE q == req[r]
<1>b. Framed(q) /\ Typed(q)
  BY DEF Shape, Sound
<1>c. \A new : Set(r, new) => req'[r] = new
  BY DEF Set, Shape, TypeOK
<1> HIDE DEF q
<1>1. ASSUME NEW s \in {0, 499, 503}, Set(r, Finished(q, s)) PROVE Keeps(q, req'[r])
  BY <1>b, <1>c, <1>1, EndKeeps
<1>2. CASE LockRefused(r) \/ BodyEnds(r) \/ BodyAborts(r) \/ ClientGone(r)
  <2>1. \E s \in {0, 499, 503} : Set(r, Finished(q, s))
    BY <1>2 DEF LockRefused, BodyEnds, BodyAborts, ClientGone, q
  <2> QED
    BY <1>1, <2>1 DEF q
<1>3. CASE Arrives(r) \/ LockTaken(r) \/ LockWait(r) \/ WaitTimer(r)
  <2>1. \/ Set(r, [q EXCEPT !.at = Begin]) \/ Set(r, [q EXCEPT !.at = "connect", !.time = 0])
        \/ Set(r, [q EXCEPT !.at = "wait"]) \/ Set(r, [q EXCEPT !.at = "lock", !.time = @ + 1])
    BY <1>3 DEF Arrives, LockTaken, LockWait, WaitTimer, q
  <2>2. q.at \in Before
    BY <1>3 DEF Arrives, LockTaken, LockWait, WaitTimer, At, Before, q
  <2> DEFINE Right(new) == /\ new.at \in Before
                           /\ \A f \in {"asked", "skipped", "tries", "cur"} : new[f] = q[f]
  <2>3. /\ Right([q EXCEPT !.at = Begin]) /\ Right([q EXCEPT !.at = "wait"])
        /\ Right([q EXCEPT !.at = "connect", !.time = 0])
        /\ Right([q EXCEPT !.at = "lock", !.time = @ + 1])
    <3>1. Begin \in Before
      BY DEF Begin, Before
    <3> QED
      BY <1>b, <3>1 DEF Framed, Fields, Before
  <2>4. Right(req'[r])
    <3> HIDE DEF Right
    <3> QED
      BY <1>c, <2>1, <2>3
  <2> QED
    BY <2>2, <2>4 DEF Keeps, q
<1>4. CASE Quiet(r) /\ ~(\/ LockRefused(r) \/ BodyEnds(r) \/ BodyAborts(r) \/ ClientGone(r)
                         \/ Arrives(r) \/ LockTaken(r) \/ LockWait(r) \/ WaitTimer(r))
  <2>1. q.at \in Talking
    BY <1>4 DEF Quiet, WriteEvent, WriteTimeout, SendError, SendAgain, SendOK, ReadTimeout,
         ReadError, StatusPartial, StatusInvalid, StatusLine, HeadersPartial, HeadersInvalid,
         HeadersDone, BodyWaits, InBody, Reading, At, Talking, q
  <2> DEFINE Right(new) == /\ new.at \in Talking
                           /\ \A f \in {"asked", "skipped", "tries", "cur"} : new[f] = q[f]
  <2>2. \E new : Set(r, new) /\ Right(new)
    <3>1. CASE WriteEvent(r)
      <4>1. Set(r, [q EXCEPT !.at = "send"])
        BY <3>1 DEF WriteEvent, q
      <4>2. Right([q EXCEPT !.at = "send"])
        BY <1>b DEF Framed, Fields, Talking
      <4> HIDE DEF Right
      <4> QED
        BY <4>1, <4>2
    <3>2. CASE WriteTimeout(r)
      <4>1. Set(r, [q EXCEPT !.wtimer = FALSE, !.at = "next", !.why = "timeout"])
        BY <3>2 DEF WriteTimeout, q
      <4>2. Right([q EXCEPT !.wtimer = FALSE, !.at = "next", !.why = "timeout"])
        BY <1>b DEF Framed, Fields, Talking
      <4> HIDE DEF Right
      <4> QED
        BY <4>1, <4>2
    <3>3. CASE SendError(r)
      <4>1. PICK pos : Set(r, [q EXCEPT !.pos = pos, !.at = "next", !.why = "error"])
        BY <3>3 DEF SendError, q
      <4>2. Right([q EXCEPT !.pos = pos, !.at = "next", !.why = "error"])
        BY <1>b DEF Framed, Fields, Talking
      <4> HIDE DEF Right
      <4> QED
        BY <4>1, <4>2
    <3>4. CASE SendAgain(r)
      <4>1. Set(r, [q EXCEPT !.sent = TRUE, !.pos = "mid", !.wtimer = TRUE, !.at = "idle"])
        BY <3>4 DEF SendAgain, q
      <4>2. Right([q EXCEPT !.sent = TRUE, !.pos = "mid", !.wtimer = TRUE, !.at = "idle"])
        BY <1>b DEF Framed, Fields, Talking
      <4> HIDE DEF Right
      <4> QED
        BY <4>1, <4>2
    <3>5. CASE SendOK(r)
      <4>1. PICK corked : Set(r, Passing(q, corked))
        BY <3>5 DEF SendOK, Passing, q
      <4>2. Right(Passing(q, corked))
        BY <1>b DEF Passing, Framed, Fields, Talking
      <4> QED
        BY <4>1, <4>2
    <3>6. CASE ReadTimeout(r) \/ ReadError(r) \/ HeadersInvalid(r)
      <4>1. PICK why : Set(r, [q EXCEPT !.at = "next", !.why = why])
        BY <3>6 DEF ReadTimeout, ReadError, HeadersInvalid, Fail, q
      <4> QED
        BY <1>b, <4>1 DEF Framed, Fields, Talking
    <3>7. CASE StatusPartial(r) \/ StatusInvalid(r) \/ \E code \in {"ok", "http_500", "http_404"} : StatusLine(r, code)
      <4> DEFINE g == Received(q)
      <4>1. Framed(g) /\ \A f \in Fields \ {"hdr"} : g[f] = q[f]
        BY <1>b, ReceivedSound
      <4> HIDE DEF g
      <4>2. \/ Set(r, g) \/ \E why : Set(r, [g EXCEPT !.at = "next", !.why = why])
            \/ Set(r, [g EXCEPT !.at = "headers", !.rh = "headers"])
        BY <3>7 DEF StatusPartial, StatusInvalid, StatusLine, q, g
      <4>3. Right(g)
        BY <2>1, <4>1 DEF Fields
      <4>4. \A why : Right([g EXCEPT !.at = "next", !.why = why])
        BY <4>1 DEF Framed, Fields, Talking
      <4>5. Right([g EXCEPT !.at = "headers", !.rh = "headers"])
        BY <4>1 DEF Framed, Fields, Talking
      <4> QED
        BY <4>2, <4>3, <4>4, <4>5
    <3>8. CASE HeadersPartial(r) \/ HeadersDone(r)
      <4>1. Set(r, [q EXCEPT !.at = "idle"]) \/ Set(r, [q EXCEPT !.headers = @ + 1, !.rh = "body", !.at = "body"])
        BY <3>8 DEF HeadersPartial, HeadersDone, q
      <4>2. Right([q EXCEPT !.at = "idle"]) /\ Right([q EXCEPT !.headers = @ + 1, !.rh = "body", !.at = "body"])
        BY <1>b DEF Framed, Fields, Talking
      <4> HIDE DEF Right
      <4> QED
        BY <4>1, <4>2
    <3>9. CASE BodyWaits(r)
      <4>1. Set(r, [q EXCEPT !.at = "idle", !.rtimer = TRUE])
        BY <3>9 DEF BodyWaits, q
      <4>2. Right([q EXCEPT !.at = "idle", !.rtimer = TRUE])
        BY <1>b DEF Framed, Fields, Talking
      <4> HIDE DEF Right
      <4> QED
        BY <4>1, <4>2
    <3> QED
      BY <1>4, <3>1, <3>2, <3>3, <3>4, <3>5, <3>6, <3>7, <3>8, <3>9 DEF Quiet
  <2>3. Right(req'[r])
    BY <1>c, <2>2
  <2> QED
    BY <2>1, <2>3 DEF Keeps, q
<1> QED
  BY <1>2, <1>3, <1>4

-----------------------------------------------------------------------------
(* A peer is chosen.                                                       *)

Base(r) == IF FirstTry(r) THEN current ELSE req[r].cur

LEMMA ChosenOnce ==
  ASSUME Shape, NEW r \in Reqs, Once(req[r]), req[r].at = "connect"
  PROVE  LET c == Chosen(r) IN
         /\ IsInjective(c.asked) /\ Range(c.asked) \cap c.skipped = {}
         /\ Tried(c) = Window(c.cur, N - c.tries)
         /\ c.tries > 0 => c.cur \notin Tried(c)
<1> DEFINE q == req[r]
           k == Passed(r)
           c == Chosen(r)
           over == {Cursor(r, j) : j \in 0 .. k - 1}
<1>1. Framed(q) /\ Typed(q) /\ current \in Peers
  BY DEF Shape, Sound, TypeOK
<1>2. q.tries \in 0 .. N /\ N \in Nat \ {0} /\ q.cur \in Peers /\ q.skipped \subseteq Peers
  BY <1>1, ProxyUpstreamAssumption DEF Typed
<1>3. k \in 0 .. q.tries
  BY <1>2, PassedIs
<1>4. Base(r) \in Peers /\ \A j \in Nat : Cursor(r, j) = (Base(r) + j) % N
  BY <1>1, <1>2 DEF Base, Cursor
<1>5. Tried(q) = Window(Base(r), N - q.tries)
  <2>1. Tried(q) = Window(q.cur, N - q.tries)
    BY DEF Once, Before
  <2>2. CASE FirstTry(r)
    <3>1. N - q.tries = 0
      BY <1>2, <2>2 DEF FirstTry
    <3> QED
      BY <1>2, <1>4, <2>1, <3>1, WindowEnds
  <2> QED
    BY <2>1, <2>2 DEF Base
<1>6. /\ c.asked = q.asked /\ c.tries = q.tries - k /\ c.skipped = q.skipped \cup over
      /\ c.cur = IF N = 1 THEN q.cur ELSE Cursor(r, k)
  <2> HIDE DEF k, over
  <2>1. c = [q EXCEPT !.cur = IF N = 1 THEN @ ELSE Cursor(r, k), !.tries = @ - k,
                      !.skipped = @ \cup over]
    BY DEF Chosen, k, over
  <2> QED
    BY <1>1, <2>1 DEF Framed, Fields
<1> HIDE DEF k, c
<1>7. k \in Nat /\ N - q.tries \in Nat /\ N - q.tries + k <= N /\ N - c.tries = N - q.tries + k
  BY <1>2, <1>3, <1>6
<1>8. c.cur = (Base(r) + k) % N
  <2>1. CASE N = 1
    <3>1. ~FirstTry(r) /\ q.cur = 0 /\ k \in Nat
      BY <1>2, <1>7, <2>1 DEF FirstTry, Peers
    <3>2. (q.cur + k) % N = 0
      BY <2>1, <3>1
    <3> QED
      BY <1>6, <2>1, <3>1, <3>2 DEF Base
  <2>2. CASE N # 1
    BY <1>4, <1>6, <1>7, <2>2
  <2> QED
    BY <2>1, <2>2
<1>9. over = {(Base(r) + j) % N : j \in 0 .. k - 1}
  BY <1>4, <1>7
<1> HIDE DEF over, q
<1>10. Window(c.cur, N - c.tries) = Window(Base(r), N - q.tries) \cup over
  BY <1>4, <1>7, <1>8, <1>9, WindowMoves
<1>11. Tried(c) = Window(c.cur, N - c.tries)
  BY <1>5, <1>6, <1>10 DEF Tried
<1>12. \A j \in 0 .. k - 1 : (Base(r) + j) % N \notin Tried(q)
  <2> SUFFICES ASSUME NEW j \in 0 .. k - 1, (Base(r) + j) % N \in Tried(q) PROVE FALSE
    OBVIOUS
  <2>1. j \in 0 .. N /\ j \in Nat /\ j < k
    BY <1>2, <1>3
  <2> DEFINE p == (Base(r) + j) % N
  <2>2. p = IF Base(r) + j < N THEN Base(r) + j ELSE Base(r) + j - N
    BY <1>4, <2>1, Wraps
  <2>3. Back(Base(r), p) <= N - q.tries /\ Base(r) \in Nat /\ Base(r) < N
    BY <1>2, <1>4, <1>5 DEF Window, Peers
  <2>4. Back(Base(r), p) = N - j
    BY <1>2, <1>3, <2>1, <2>2, <2>3 DEF Back
  <2> HIDE DEF p
  <2> QED
    BY <1>2, <1>3, <2>1, <2>3, <2>4
<1>13. over \cap Tried(q) = {}
  BY <1>9, <1>12
<1>14. IsInjective(c.asked) /\ Range(c.asked) \cap c.skipped = {}
  BY <1>6, <1>13 DEF Once, Tried, q
<1>15. ASSUME c.tries > 0 PROVE c.cur \notin Tried(c)
  <2>1. N - c.tries \in 0 .. N - 1 /\ c.cur \in Peers
    BY <1>2, <1>3, <1>6, <1>15, ChosenSound DEF Typed, c
  <2> QED
    BY <1>11, <2>1, WindowEnds
<1> QED
  BY <1>11, <1>14, <1>15 DEF c

\* The peer that was chosen is asked.
AskedOf(c, new) ==
  /\ new.asked = Append(c.asked, c.cur)
  /\ new.skipped = c.skipped /\ new.tries = c.tries /\ new.cur = c.cur /\ new.at \in Talking

LEMMA AskedOnce ==
  ASSUME Shape, NEW r \in Reqs, Once(req[r]), req[r].at = "connect", Chosen(r).tries > 0,
         NEW new, AskedOf(Chosen(r), new)
  PROVE  Once(new)
<1> DEFINE c == Chosen(r)
<1>1. /\ IsInjective(c.asked) /\ Range(c.asked) \cap c.skipped = {}
      /\ Tried(c) = Window(c.cur, N - c.tries) /\ c.cur \notin Tried(c)
  BY ChosenOnce
<1>2. c.asked \in Seq(Peers) /\ c.cur \in Peers
  BY ChosenSound DEF Typed
<1> HIDE DEF c
<1>3. c.cur \notin Range(c.asked) /\ c.cur \notin c.skipped
  BY <1>1 DEF Tried
<1>4. IsInjective(new.asked) /\ Range(new.asked) = Range(c.asked) \cup {c.cur}
  BY <1>1, <1>2, <1>3, AppendOnce DEF AskedOf, c
<1>5. new.skipped = c.skipped /\ new.tries = c.tries /\ new.cur = c.cur /\ new.at \in Talking
  BY DEF AskedOf, c
<1> QED
  BY <1>1, <1>3, <1>4, <1>5 DEF Once, Tried, Before, Talking

LEMMA ConnectAsks ==
  ASSUME Shape, NEW r \in Reqs, ConnectRefused(r) \/ Connect(r)
  PROVE  Chosen(r).tries > 0 /\ AskedOf(Chosen(r), req'[r])
<1> DEFINE c == Chosen(r)
<1>c. \A new : Set(r, new) => req'[r] = new
  BY DEF Set, Shape, TypeOK
<1>1. Framed(c) /\ Typed(c)
  BY ChosenSound
<1>2. c.tries > 0
  BY DEF ConnectRefused, Connect
<1>3. CASE ConnectRefused(r)
  <2> DEFINE new == [c EXCEPT !.open = TRUE, !.asked = Append(@, c.cur), !.at = "next", !.why = "error"]
  <2>1. Set(r, new)
    BY <1>3 DEF ConnectRefused
  <2> HIDE DEF c
  <2>2. AskedOf(c, new)
    BY <1>1 DEF AskedOf, Framed, Fields, Talking
  <2> HIDE DEF new
  <2>3. AskedOf(c, req'[r])
    BY <1>c, <2>1, <2>2
  <2> QED
    BY <1>2, <2>3 DEF c
<1>4. CASE Connect(r)
  <2>1. PICK rc \in {"again", "ok"} : Set(r, Connected(r, rc))
    BY <1>4 DEF Connect
  <2> DEFINE p == Reinit(c)
             new == [p EXCEPT !.open = TRUE, !.asked = Append(@, p.cur),
                              !.whole = p.pos = "start", !.sent = FALSE,
                              !.wh = "send", !.rh = "status", !.wtimer = rc = "again",
                              !.at = IF rc = "again" THEN "idle" ELSE "send"]
  <2>2. Connected(r, rc) = new
    BY DEF Connected
  <2>3. Framed(p) /\ \A f \in Fields \ {"pos", "hdr"} : p[f] = c[f]
    BY <1>1, ReinitSound
  <2> HIDE DEF p, c
  <2>4. AskedOf(p, new)
    BY <2>3 DEF AskedOf, Framed, Fields, Talking
  <2> HIDE DEF new
  <2>5. AskedOf(c, new)
    BY <2>3, <2>4 DEF AskedOf, Fields
  <2>6. AskedOf(c, req'[r])
    BY <1>c, <2>1, <2>2, <2>5
  <2> QED
    BY <1>2, <2>6 DEF c
<1> QED
  BY <1>3, <1>4

-----------------------------------------------------------------------------
(* A peer is given up.                                                     *)

LEMMA NextOnce ==
  ASSUME Shape, "http_404" \notin NextOn, NEW r \in Reqs, Once(req[r]), NextUpstream(r)
  PROVE  Once(req'[r])
<1> DEFINE q == req[r]
           l == Left(q)
<1>c. \A new : Set(r, new) => req'[r] = new
  BY DEF Set, Shape, TypeOK
<1>1. Framed(q) /\ Typed(q) /\ q.at = "next" /\ q.tries > 0 /\ q.why \in Reasons
  BY DEF NextUpstream, At, Shape, Sound, Talking
<1>2. /\ IsInjective(q.asked) /\ Range(q.asked) \cap q.skipped = {}
      /\ Tried(q) = Window(q.cur, N - q.tries) \cup {q.cur}
  BY <1>1 DEF Once, Talking
<1>3. Set(r, IF l.tries = 0 \/ q.why \notin NextOn THEN Finished(l, Status[q.why])
             ELSE [l EXCEPT !.at = Begin])
  BY DEF NextUpstream, Left
<1>4. Framed(l) /\ Typed(l) /\ l.asked = q.asked /\ l.skipped = q.skipped /\ l.why = q.why
  BY <1>1, LeftSound, LeftIs DEF Fields
<1>5. q.why # "http_404" => l.tries = q.tries - 1 /\ l.cur = (q.cur + 1) % N
  <2> SUFFICES ASSUME q.why # "http_404" PROVE l.tries = q.tries - 1 /\ l.cur = (q.cur + 1) % N
    OBVIOUS
  <2>1. l = [PeerFailed(q) EXCEPT !.open = FALSE, !.wtimer = FALSE, !.rtimer = FALSE]
    BY DEF Left
  <2> HIDE DEF q, l
  <2>2. PeerFailed(q).tries = q.tries - 1 /\ PeerFailed(q).cur = (q.cur + 1) % N
    BY <1>1 DEF PeerFailed, Framed, Fields
  <2>3. DOMAIN PeerFailed(q) = Fields
    BY <1>1 DEF PeerFailed, Framed, Fields
  <2> QED
    BY <2>1, <2>2, <2>3 DEF Fields
<1> HIDE DEF q, l
<1>6. q.why # "http_404" => Tried(q) = Window(l.cur, N - l.tries)
  <2> SUFFICES ASSUME q.why # "http_404" PROVE Tried(q) = Window(l.cur, N - l.tries)
    OBVIOUS
  <2>1. N \in Nat \ {0} /\ q.tries \in 0 .. N /\ q.cur \in Peers /\ N - q.tries \in Nat
        /\ N - q.tries + 1 <= N
    BY <1>1, ProxyUpstreamAssumption DEF Typed
  <2>2. Window((q.cur + 1) % N, N - q.tries + 1)
          = Window(q.cur, N - q.tries) \cup {(q.cur + j) % N : j \in 0 .. 1 - 1}
    BY <2>1, WindowMoves
  <2>3. {(q.cur + j) % N : j \in 0 .. 1 - 1} = {q.cur}
    <3>1. (q.cur + 0) % N = q.cur
      <4>1. q.cur \in Nat /\ q.cur < N /\ 0 \in 0 .. N
        BY <2>1 DEF Peers
      <4>2. (q.cur + 0) % N = IF q.cur + 0 < N THEN q.cur + 0 ELSE q.cur + 0 - N
        BY <2>1, <4>1, Wraps
      <4> QED
        BY <4>1, <4>2
    <3>2. 0 .. 1 - 1 = {0}
      OBVIOUS
    <3> QED
      BY <3>1, <3>2
  <2>4. N - l.tries = N - q.tries + 1
    BY <1>5, <2>1
  <2> QED
    BY <1>2, <1>5, <2>2, <2>3, <2>4
<1>7. CASE l.tries = 0 \/ q.why \notin NextOn
  <2> DEFINE s == Status[q.why]
             e == IF l.headers > 0 THEN 0 ELSE s
             end == [l EXCEPT !.at = "done", !.open = FALSE, !.wtimer = FALSE,
                              !.rtimer = FALSE, !.status = e]
  <2>1. req'[r] = end
    BY <1>c, <1>3, <1>7 DEF Finished
  <2> HIDE DEF e
  <2>2. end.at = "done" /\ end.asked = q.asked /\ end.skipped = q.skipped /\ end.why = q.why
    BY <1>4 DEF Framed, Fields
  <2> HIDE DEF end
  <2>3. ASSUME q.why \in NextOn PROVE Tried(q) = Peers
    <3>1. q.why # "http_404" /\ l.tries = 0
      BY <1>7, <2>3
    <3>2. Tried(q) = Window(l.cur, N) /\ l.cur \in Peers
      BY <1>4, <1>6, <3>1, ProxyUpstreamAssumption DEF Typed
    <3> QED
      BY <3>2, WindowEnds
  <2>4. Once(end)
    BY <1>2, <2>2, <2>3 DEF Once, Tried, Before, Talking
  <2> QED
    BY <2>1, <2>4
<1>8. CASE ~(l.tries = 0 \/ q.why \notin NextOn)
  <2> DEFINE new == [l EXCEPT !.at = Begin]
  <2>1. req'[r] = new
    BY <1>c, <1>3, <1>8
  <2>2. new.at \in Before /\ new.asked = q.asked /\ new.skipped = q.skipped /\ new.cur = l.cur
        /\ new.tries = l.tries
    BY <1>4 DEF Framed, Fields, Begin, Before
  <2>3. Tried(q) = Window(l.cur, N - l.tries)
    BY <1>6, <1>8
  <2> HIDE DEF new
  <2>4. Once(new)
    BY <1>2, <2>2, <2>3 DEF Once, Tried, Before, Talking
  <2> QED
    BY <2>1, <2>4
<1> QED
  BY <1>7, <1>8

AllOnce == \A r \in Reqs : Once(req[r])

LEMMA OnceInit == Init => AllOnce
<1> SUFFICES ASSUME Init, NEW r \in Reqs PROVE Once(req[r])
  BY DEF AllOnce
<1>1. req[r].asked = <<>> /\ req[r].skipped = {} /\ req[r].tries = N /\ req[r].cur = 0
      /\ req[r].at = "new"
  BY DEF Init, NewRequest
<1>2. N \in Nat \ {0} /\ 0 \in Peers /\ N - N = 0
  BY ProxyUpstreamAssumption DEF Peers
<1>3. Window(0, 0) = {}
  BY <1>2, WindowEnds
<1> QED
  BY <1>1, <1>2, <1>3 DEF Once, Tried, IsInjective, Range, Talking

LEMMA OnceStep ==
  ASSUME "http_404" \notin NextOn
  PROVE  Shape /\ AllOnce /\ [Next]_vars => AllOnce'
<1> SUFFICES ASSUME Shape, AllOnce, [Next]_vars PROVE AllOnce'
  OBVIOUS
<1>1. ASSUME NEW r \in Reqs, Step(r) PROVE AllOnce'
  <2>1. \A s \in Reqs \ {r} : req'[s] = req[s]
    <3>1. PICK new : Set(r, new)
      BY <1>1, StepKeeps DEF Kept
    <3> QED
      BY <3>1 DEF Set, Shape, TypeOK
  <2>2. Once(req[r])
    BY DEF AllOnce
  <2>3. Once(req'[r])
    <3>1. CASE Quiet(r)
      BY <2>2, <3>1, QuietKeeps, KeepsOnce
    <3>2. CASE ConnectRefused(r) \/ Connect(r)
      <4>1. req[r].at = "connect"
        BY <3>2 DEF ConnectRefused, Connect, At
      <4> QED
        BY <2>2, <3>2, <4>1, ConnectAsks, AskedOnce
    <3>3. CASE NextUpstream(r)
      BY <2>2, <3>3, NextOnce
    <3>4. CASE ConnectFails(r)
      <4> DEFINE c == Chosen(r)
                 new == Finished(c, 500)
      <4>1. Set(r, new) /\ req[r].at = "connect"
        BY <3>4 DEF ConnectFails, At
      <4>2. Framed(c) /\ IsInjective(c.asked) /\ Range(c.asked) \cap c.skipped = {}
        BY <2>2, <4>1, ChosenSound, ChosenOnce
      <4>3. Keeps(c, new) /\ new.asked = c.asked /\ new.skipped = c.skipped
            /\ new.at = "done" /\ new.status \notin {502, 504}
        <5> HIDE DEF c
        <5>1. Keeps(c, new) /\ new.asked = c.asked /\ new.skipped = c.skipped
          BY <4>2, EndKeeps
        <5>2. new.at = "done" /\ new.status \in {0, 500}
          BY <4>2 DEF Finished, Framed, Fields
        <5> QED
          BY <5>1, <5>2
      <4> HIDE DEF c
      <4>4. Once(new)
        <5> HIDE DEF new
        <5> QED
          BY <4>2, <4>3 DEF Once, Before, Talking
      <4>5. req'[r] = new
        BY <4>1 DEF Set, Shape, TypeOK
      <4> QED
        BY <4>4, <4>5
    <3> QED
      BY <1>1, <3>1, <3>2, <3>3, <3>4 DEF Step, Quiet
  <2> QED
    BY <2>1, <2>3 DEF AllOnce
<1>2. ASSUME UNCHANGED req PROVE AllOnce'
  BY <1>2 DEF AllOnce
<1>3. ASSUME NEW p \in Peers, Cools(p) PROVE AllOnce'
  BY <1>2, <1>3 DEF Cools
<1>4. CASE UNCHANGED vars
  BY <1>2, <1>4 DEF vars
<1> QED
  BY <1>1, <1>3, <1>4, NextIsStep

\* Whatever other requests do to the shared cursor and whichever peers are passed over,
\* a request asks every peer at most once, and the client is told that none answers only
\* after each was asked or passed over. With http_404 in next_upstream this is not so: the
\* peer that answered 404 stays the current one and keeps its try.
THEOREM PeersAlwaysTriedOnce ==
  ASSUME "http_404" \notin NextOn
  PROVE  Spec => []PeersTriedOnce
<1>1. AllOnce => PeersTriedOnce
  BY DEF AllOnce, Once, Tried, PeersTriedOnce, DistinctPeers, GivesUpLast, At
<1> QED
  BY <1>1, ShapeKept, OnceInit, OnceStep, PTL DEF Spec

-----------------------------------------------------------------------------
(* The event pipe, which takes over the connection once a peer has         *)
(* answered: what it may leave undone when it waits or is over.            *)

CONSTANTS Total, Size, Num, HeadRoom, BusySize, WriteSize, MaxFileSize
VARIABLES ep, raw, mem, sh, file, uready, dready, given, taken, pc
Ep == INSTANCE EventPipe WITH p <- ep, client <- given, got <- taken

PipeFields == { "free_raw", "in", "out", "busy", "free", "last", "used", "allocated", "offset",
                "preread", "read", "blocked", "eof", "error", "done", "derror" }
PipeFlags == {"preread", "read", "blocked", "eof", "error", "done", "derror"}

\* Nothing waits to be handed to the output filter.
Empty(u) == u.out = <<>> /\ u.in = <<>>
\* The call of ngx_event_pipe has nothing to write when it ends now.
Resting(u) == u.read = FALSE /\ u.blocked = FALSE
Over(u) == u.eof = TRUE \/ u.error = TRUE
PipeRecord(u) == DOMAIN u = PipeFields /\ \A x \in PipeFlags : u[x] \in BOOLEAN

\* Reading that brought nothing found the chains empty, if the client could be
\* written to: they are emptied before reading, and only what is read fills them.
Unfilled(u, at, ready) ==
  /\ at \in {"read", "read_end", "loop"} /\ Resting(u) /\ ready = TRUE => Empty(u)
  /\ at = "idle" => ~Over(u) /\ u.derror = FALSE /\ (ready = TRUE => Empty(u))
\* The end of the response counts as read, so that it is written before the
\* call ends; what comes after that write finds both chains handed on.
HandedOn(u) == u.done = TRUE /\ Empty(u)
Ending(u, at) ==
  /\ at = "read_end" /\ Over(u) => u.read = TRUE
  /\ at = "read" /\ Over(u) /\ u.derror = FALSE => HandedOn(u)
  /\ at \in {"loop", "over"} /\ u.eof = TRUE /\ u.derror = FALSE =>
       HandedOn(u) \/ (at = "loop" /\ u.read = TRUE)
\* What came with the header is taken before anything else.
First(u, at) == u.preread = TRUE => at = "read" /\ Empty(u) /\ ~Over(u)

PipeInv ==
  /\ PipeRecord(ep) /\ dready \in BOOLEAN /\ First(ep, pc)
  /\ Unfilled(ep, pc, dready) /\ Ending(ep, pc)

-----------------------------------------------------------------------------
(* What the functions of the pipe leave of its flags.                      *)

StateFields == {"p", "raw", "mem", "sh", "got", "ok"}
PipeState(s) == DOMAIN s = StateFields /\ PipeRecord(s.p)
SameFlags(u, v) == PipeRecord(v) /\ \A x \in PipeFlags : v[x] = u[x]
SameChains(u, v) == v.out = u.out /\ v.in = u.in

LEMMA HereIs == PipeRecord(ep) => PipeState(Ep!S) /\ Ep!S.p = ep
BY DEF Ep!S, PipeState, StateFields

LEMMA FilledFlags ==
  ASSUME NEW s, PipeState(s), NEW chain, NEW n
  PROVE  LET v == Ep!Filled(s, chain, n)
         IN  /\ PipeState(v) /\ SameFlags(s.p, v.p)
             /\ n = 0 => SameChains(s.p, v.p)
<1> DEFINE v == Ep!Filled(s, chain, n)
<1>1. CASE n = 0
  <2>1. v = [s EXCEPT !.p.free_raw = chain]
    BY <1>1 DEF Ep!Filled
  <2> HIDE DEF v
  <2>2. DOMAIN v = StateFields /\ v.p = [s.p EXCEPT !.free_raw = chain]
    BY <2>1 DEF PipeState, StateFields
  <2>3. DOMAIN v.p = PipeFields /\ SameChains(s.p, v.p) /\ \A x \in PipeFlags : v.p[x] = s.p[x]
    BY <2>2 DEF PipeState, PipeRecord, SameChains, PipeFields, PipeFlags
  <2>4. PipeState(v) /\ SameFlags(s.p, v.p)
    BY <2>2, <2>3 DEF PipeState, PipeRecord, SameFlags
  <2> QED
    BY <2>3, <2>4 DEF v
<1>2. CASE n # 0
  <2>1. \E f : v = [s EXCEPT !.p.free_raw = f.p.free_raw, !.p.in = f.p.in, !.p.free = f.p.free,
                     !.p.used = f.p.used, !.raw = f.raw, !.mem = f.mem, !.sh = f.sh,
                     !.got = f.got, !.ok = f.ok]
    BY <1>2, Zenon DEF Ep!Filled
  <2>2. PICK f : v = [s EXCEPT !.p.free_raw = f.p.free_raw, !.p.in = f.p.in, !.p.free = f.p.free,
                     !.p.used = f.p.used, !.raw = f.raw, !.mem = f.mem, !.sh = f.sh,
                     !.got = f.got, !.ok = f.ok]
    BY <2>1
  <2> HIDE DEF v
  <2>3. /\ DOMAIN v = StateFields
        /\ v.p = [s.p EXCEPT !.free_raw = f.p.free_raw, !.in = f.p.in, !.free = f.p.free,
                             !.used = f.p.used]
    BY <2>2 DEF PipeState, StateFields
  <2> HIDE <2>2
  <2>4. DOMAIN v.p = PipeFields /\ \A x \in PipeFlags : v.p[x] = s.p[x]
    BY <2>3 DEF PipeState, PipeRecord, PipeFields, PipeFlags
  <2>5. PipeState(v) /\ SameFlags(s.p, v.p)
    BY <2>3, <2>4 DEF PipeState, PipeRecord, SameFlags
  <2> QED
    BY <1>2, <2>5 DEF v
<1> QED
  BY <1>1, <1>2

LEMMA WrittenFlags ==
  ASSUME PipeRecord(ep), NEW k
  PROVE  PipeState(Ep!Written(k)) /\ SameFlags(ep, Ep!Written(k).p)
<1> DEFINE v == Ep!Written(k)
<1>1. \E w, c : v = [Ep!S EXCEPT !.p.in = c, !.p.out = w.p.out, !.p.offset = w.p.offset,
                              !.p.free_raw = w.p.free_raw, !.raw = w.raw, !.sh = w.sh]
  BY Zenon DEF Ep!Written
<1>2. PICK w, c : v = [Ep!S EXCEPT !.p.in = c, !.p.out = w.p.out, !.p.offset = w.p.offset,
                              !.p.free_raw = w.p.free_raw, !.raw = w.raw, !.sh = w.sh]
  BY <1>1
<1> HIDE DEF v
<1>3. /\ DOMAIN v = StateFields
      /\ v.p = [ep EXCEPT !.in = c, !.out = w.p.out, !.offset = w.p.offset,
                          !.free_raw = w.p.free_raw]
  BY <1>2, HereIs DEF PipeState, StateFields
<1> HIDE <1>2
<1>4. DOMAIN v.p = PipeFields /\ \A x \in PipeFlags : v.p[x] = ep[x]
  BY <1>3 DEF PipeRecord, PipeFields, PipeFlags
<1>5. PipeState(v) /\ SameFlags(ep, v.p)
  BY <1>3, <1>4 DEF PipeState, PipeRecord, SameFlags
<1> QED
  BY <1>5 DEF v

LEMMA FilteredFlags ==
  ASSUME NEW s, PipeState(s), NEW r
  PROVE  LET v == Ep!InputFilter(s, r) IN PipeState(v) /\ SameFlags(s.p, v.p)
<1> DEFINE v == Ep!InputFilter(s, r)
<1>1. CASE s.raw[r].last = 0
  BY <1>1 DEF Ep!InputFilter, PipeState, SameFlags
<1>2. CASE s.raw[r].last # 0
  <2>1. \E a, b, c, d, e : v = [s EXCEPT !.p.free = a, !.p.used = b, !.p.in = c, !.raw = d, !.sh = e]
    <3> DEFINE reused == s.p.free # <<>>
               b == IF reused THEN Head(s.p.free) ELSE s.p.used + 1
               a == IF reused THEN Tail(s.p.free) ELSE s.p.free
               u == IF reused THEN s.p.used ELSE s.p.used + 1
               c == Append(s.p.in, b)
               d == [s.raw EXCEPT ![r].shadow = b]
               e == [s.sh EXCEPT ![b] = [Ep!NoShadow EXCEPT !.of = r, !.hi = s.raw[r].last,
                                                   !.shadow = r, !.last_shadow = TRUE]]
    <3>1. DOMAIN s = StateFields /\ DOMAIN s.p = PipeFields
      BY DEF PipeState, PipeRecord
    <3>2. v = [s EXCEPT !.p.free = IF reused THEN Tail(@) ELSE @,
                        !.p.used = IF reused THEN @ ELSE @ + 1,
                        !.p.in = Append(@, b), !.raw[r].shadow = b,
                        !.sh[b] = [Ep!NoShadow EXCEPT !.of = r, !.hi = s.raw[r].last,
                                             !.shadow = r, !.last_shadow = TRUE]]
      BY <1>2 DEF Ep!InputFilter
    <3>3. v = [s EXCEPT !.p.free = a, !.p.used = u, !.p.in = c, !.raw = d, !.sh = e]
      BY <3>1, <3>2 DEF PipeFields, StateFields
    <3> HIDE DEF a, u, c, d, e, v
    <3> QED
      BY <3>3
  <2>2. PICK a, b, c, d, e : v = [s EXCEPT !.p.free = a, !.p.used = b, !.p.in = c, !.raw = d, !.sh = e]
    BY <2>1
  <2> HIDE DEF v
  <2>3. DOMAIN v = StateFields /\ v.p = [s.p EXCEPT !.free = a, !.used = b, !.in = c]
    BY <2>2 DEF PipeState, StateFields
  <2> HIDE <2>2
  <2>4. DOMAIN v.p = PipeFields /\ \A x \in PipeFlags : v.p[x] = s.p[x]
    BY <2>3 DEF PipeState, PipeRecord, PipeFields, PipeFlags
  <2>5. PipeState(v) /\ SameFlags(s.p, v.p)
    BY <2>3, <2>4 DEF PipeState, PipeRecord, SameFlags
  <2> QED
    BY <2>5 DEF v
<1> QED
  BY <1>1, <1>2

LEMMA DrainedFlags ==
  ASSUME NEW s, PipeState(s)
  PROVE  LET v == Ep!Drained(s) IN PipeState(v) /\ SameFlags(s.p, v.p)
<1> DEFINE v == Ep!Drained(s)
<1>1. \E d : v = [s EXCEPT !.p.busy = <<>>, !.p.out = <<>>, !.p.in = <<>>, !.p.free = d.p.free,
                !.p.free_raw = d.p.free_raw, !.raw = d.raw, !.sh = d.sh]
  BY Zenon DEF Ep!Drained
<1>2. PICK d : v = [s EXCEPT !.p.busy = <<>>, !.p.out = <<>>, !.p.in = <<>>, !.p.free = d.p.free,
                !.p.free_raw = d.p.free_raw, !.raw = d.raw, !.sh = d.sh]
  BY <1>1
<1> HIDE DEF v
<1>3. /\ DOMAIN v = StateFields
      /\ v.p = [s.p EXCEPT !.busy = <<>>, !.out = <<>>, !.in = <<>>, !.free = d.p.free,
                           !.free_raw = d.p.free_raw]
  BY <1>2 DEF PipeState, StateFields
<1> HIDE <1>2
<1>4. DOMAIN v.p = PipeFields /\ \A x \in PipeFlags : v.p[x] = s.p[x]
  BY <1>3 DEF PipeState, PipeRecord, PipeFields, PipeFlags
<1>5. PipeState(v) /\ SameFlags(s.p, v.p)
  BY <1>3, <1>4 DEF PipeState, PipeRecord, SameFlags
<1> QED
  BY <1>5 DEF v

LEMMA UpdatedFlags ==
  ASSUME NEW s, PipeState(s), NEW chain, NEW n
  PROVE  SameFlags(s.p, Ep!Updated(Ep!Sent(s, chain, n), chain).p)
<1> DEFINE u == Ep!Sent(s, chain, n)
           v == Ep!Updated(u, chain)
<1>1. \E new : u = [s EXCEPT !.sh = new]
  BY Zenon DEF Ep!Sent
<1>2. PICK new : u = [s EXCEPT !.sh = new]
  BY <1>1
<1> HIDE DEF u
<1>3. PipeState(u) /\ u.p = s.p
  BY <1>2 DEF PipeState, StateFields
<1>4. \E a, b, w : v = [u EXCEPT !.p.busy = a, !.p.free = b,
                !.p.free_raw = w.p.free_raw, !.raw = w.raw, !.sh = w.sh]
  BY Zenon DEF Ep!Updated
<1>5. PICK a, b, w : v = [u EXCEPT !.p.busy = a, !.p.free = b,
                !.p.free_raw = w.p.free_raw, !.raw = w.raw, !.sh = w.sh]
  BY <1>4
<1> HIDE DEF v
<1>6. v.p = [u.p EXCEPT !.busy = a, !.free = b, !.free_raw = w.p.free_raw]
  BY <1>3, <1>5 DEF PipeState, StateFields
<1> HIDE <1>5
<1>7. DOMAIN v.p = PipeFields /\ \A x \in PipeFlags : v.p[x] = s.p[x]
  BY <1>3, <1>6 DEF PipeState, PipeRecord, PipeFields, PipeFlags
<1>8. SameFlags(s.p, v.p)
  BY <1>7 DEF PipeState, PipeRecord, SameFlags
<1> QED
  BY <1>8 DEF u, v

LEMMA ToReadIs ==
  ASSUME NEW s, PipeState(s)
  PROVE  LET u == Ep!ToRead(s).p
         IN  /\ PipeRecord(u) /\ Resting(u) /\ SameChains(s.p, u)
             /\ \A x \in PipeFlags \ {"read", "blocked"} : u[x] = s.p[x]
<1> DEFINE u == Ep!ToRead(s).p
<1>1. u = [s.p EXCEPT !.read = FALSE, !.blocked = FALSE]
  BY DEF Ep!ToRead, PipeState, StateFields
<1> HIDE DEF u
<1>2. DOMAIN u = PipeFields /\ Resting(u) /\ SameChains(s.p, u)
  BY <1>1 DEF PipeState, PipeRecord, PipeFields, Resting, SameChains
<1>3. \A x \in PipeFlags \ {"read", "blocked"} : u[x] = s.p[x]
  BY <1>1 DEF PipeState, PipeRecord, PipeFields, PipeFlags
<1>4. PipeRecord(u)
  BY <1>2, <1>3 DEF PipeState, PipeRecord, Resting, PipeFlags
<1> QED
  BY <1>2, <1>3, <1>4 DEF u

-----------------------------------------------------------------------------
(* The steps of a call, and the events.                                    *)

LEMMA PipeInit == Ep!Init => PipeInv
<1> SUFFICES ASSUME Ep!Init PROVE PipeInv
  OBVIOUS
<1>1. /\ DOMAIN ep = PipeFields /\ Empty(ep) /\ \A x \in PipeFlags \ {"preread"} : ep[x] = FALSE
      /\ ep.preread = TRUE
      /\ pc = "read" /\ dready \in BOOLEAN
  BY DEF Ep!Init, PipeFields, PipeFlags, Empty
<1> QED
  BY <1>1 DEF PipeInv, PipeRecord, PipeFlags, Unfilled, Ending, Over, HandedOn,
     First

\* What read() does: nothing was there, an error, the end, or units that count as read.
LEMMA RecvKeeps ==
  ASSUME PipeInv, NEW s, PipeState(s), SameFlags(ep, s.p), NEW chain, Ep!Recv(s, chain),
         pc = "read", ~Over(ep), ep.preread = FALSE, dready = FALSE \/ SameChains(ep, s.p)
  PROVE  PipeInv'
<1> DEFINE k == [s EXCEPT !.p.free_raw = chain]
<1>1. /\ PipeRecord(ep) /\ Unfilled(ep, pc, dready) /\ ep.preread = FALSE /\ dready' = dready /\ dready \in BOOLEAN
      /\ PipeRecord(s.p) /\ DOMAIN s = StateFields
  BY DEF PipeInv, Ep!Recv, PipeState
<1>2. /\ DOMAIN k = StateFields /\ k.p = [s.p EXCEPT !.free_raw = chain]
  BY <1>1 DEF StateFields
<1> HIDE DEF k
<1>3. DOMAIN k.p = PipeFields /\ SameChains(s.p, k.p) /\ \A x \in PipeFlags : k.p[x] = s.p[x]
  BY <1>1, <1>2 DEF PipeRecord, PipeFields, PipeFlags, SameChains
<1>4. PipeRecord(k.p) /\ PipeState(k) /\ SameFlags(ep, k.p)
  BY <1>1, <1>2, <1>3 DEF PipeRecord, PipeState, SameFlags
<1>5. dready = TRUE /\ Resting(k.p) => Empty(k.p)
  BY <1>1, <1>3, <1>4 DEF SameChains, SameFlags, Unfilled, Resting, Empty, PipeFlags
<1>6. ep.eof = FALSE /\ ep.error = FALSE /\ k.p.eof = FALSE /\ k.p.error = FALSE
      /\ k.p.preread = FALSE
  BY <1>1, <1>4 DEF PipeRecord, SameFlags, PipeFlags, Over
<1>7. CASE Ep!Becomes(k) /\ pc' = "read_end"
  <2>1. ep' = k.p
    BY <1>7 DEF Ep!Becomes
  <2> QED
    BY <1>1, <1>4, <1>5, <1>6, <1>7, <2>1 DEF PipeInv, First, Unfilled, Ending, Over
<1>8. CASE Ep!Becomes([k EXCEPT !.p.error = TRUE]) /\ pc' = "loop"
  <2>1. ep' = [k.p EXCEPT !.error = TRUE]
    BY <1>2, <1>8 DEF Ep!Becomes, StateFields
  <2>2. PipeRecord(ep') /\ SameChains(k.p, ep') /\ ep'.eof = FALSE
        /\ ep'.preread = FALSE /\ ep'.read = k.p.read /\ ep'.blocked = k.p.blocked
    BY <1>4, <1>6, <2>1 DEF PipeRecord, SameChains, PipeFields, PipeFlags
  <2> QED
    BY <1>1, <1>5, <1>8, <2>2 DEF PipeInv, First, Unfilled, Ending, Over, Resting, Empty, SameChains
<1>9. CASE Ep!Becomes([k EXCEPT !.p.eof = TRUE, !.p.read = TRUE]) /\ pc' = "read_end"
  <2>1. ep' = [k.p EXCEPT !.eof = TRUE, !.read = TRUE]
    BY <1>2, <1>9 DEF Ep!Becomes, StateFields
  <2>2. PipeRecord(ep') /\ ep'.read = TRUE /\ ep'.preread = FALSE
    BY <1>4, <1>6, <2>1 DEF PipeRecord, PipeFields, PipeFlags
  <2> QED
    BY <1>1, <1>9, <2>2 DEF PipeInv, First, Unfilled, Ending, Resting
<1>10. ASSUME NEW n, Ep!Becomes([Ep!Filled(s, chain, n) EXCEPT !.p.read = TRUE]),
              pc' \in {"read", "crashed"}
       PROVE  PipeInv'
  <2> DEFINE f == Ep!Filled(s, chain, n)
  <2>1. PipeState(f) /\ SameFlags(s.p, f.p)
    BY FilledFlags
  <2>2. ep' = [f.p EXCEPT !.read = TRUE]
    BY <1>10, <2>1 DEF Ep!Becomes, PipeState, StateFields
  <2> HIDE DEF f
  <2>3. SameFlags(ep, f.p)
    BY <2>1 DEF SameFlags
  <2>4. PipeRecord(ep') /\ ep'.read = TRUE /\ ep'.eof = FALSE /\ ep'.error = FALSE
        /\ ep'.preread = FALSE
    BY <1>1, <1>6, <2>2, <2>3 DEF SameFlags, PipeRecord, PipeFields, PipeFlags
  <2> QED
    BY <1>1, <1>10, <2>4 DEF PipeInv, First, Unfilled, Ending, Resting, Over
<1> QED
  BY <1>7, <1>8, <1>9, <1>10 DEF Ep!Recv, k

LEMMA ReadingKeeps == ASSUME PipeInv, Ep!Reading PROVE PipeInv'
<1>1. /\ PipeRecord(ep) /\ dready \in BOOLEAN /\ Unfilled(ep, pc, dready) /\ Ending(ep, pc)
      /\ First(ep, pc) /\ PipeState(Ep!S) /\ Ep!S.p = ep
  BY HereIs DEF PipeInv
<1>2. /\ Ep!Ended <=> Over(ep)
      /\ ep.preread \in BOOLEAN /\ ep.read \in BOOLEAN /\ ep.blocked \in BOOLEAN
      /\ ep.eof \in BOOLEAN /\ ep.error \in BOOLEAN /\ ep.derror \in BOOLEAN
  BY <1>1 DEF Ep!Ended, Over, PipeRecord, PipeFlags
<1>3. SameFlags(ep, ep) /\ SameChains(ep, ep)
  BY <1>1 DEF SameFlags, SameChains
<1>4. CASE Ep!ReadPreread
  <2>1. PICK n \in 0 .. HeadRoom :
          Ep!Becomes([Ep!Filled(Ep!S, <<0>>, n) EXCEPT !.p.preread = FALSE, !.p.read = n > 0])
    BY <1>4 DEF Ep!ReadPreread
  <2> DEFINE f == Ep!Filled(Ep!S, <<0>>, n)
             some == n > 0
  <2>2. PipeState(f) /\ SameFlags(ep, f.p) /\ (n = 0 => SameChains(ep, f.p))
    BY <1>1, FilledFlags
  <2>3. ep' = [f.p EXCEPT !.preread = FALSE, !.read = some]
    BY <2>1, <2>2 DEF Ep!Becomes, PipeState, StateFields
  <2>4. some \in BOOLEAN /\ (some = FALSE => n = 0)
    OBVIOUS
  <2> HIDE DEF f, some
  <2>5. /\ DOMAIN ep' = PipeFields /\ SameChains(f.p, ep') /\ ep'.read = some
        /\ ep'.preread = FALSE
        /\ \A x \in PipeFlags \ {"preread", "read"} : ep'[x] = ep[x]
    BY <2>2, <2>3 DEF PipeRecord, SameFlags, SameChains, PipeFields, PipeFlags
  <2>6. PipeRecord(ep')
    BY <1>1, <2>4, <2>5 DEF PipeRecord, PipeFlags
  <2>7. pc' = pc /\ pc = "read" /\ dready' = dready /\ ep.preread = TRUE
    BY <1>2, <1>4 DEF Ep!ReadPreread
  <2>8. ep'.eof = ep.eof /\ ep'.error = ep.error
    BY <2>5 DEF PipeFlags
  <2>9. Empty(ep) /\ ~Over(ep)
    BY <1>1, <2>7 DEF First
  <2>10. Resting(ep') => Empty(ep')
    BY <2>2, <2>4, <2>5, <2>9 DEF SameChains, Empty, Resting
  <2> QED
    BY <1>1, <2>5, <2>6, <2>7, <2>8, <2>9, <2>10 DEF PipeInv, First, Unfilled, Ending, Over
<1>5. Ep!CanRead => pc = "read" /\ ~Over(ep) /\ ep.preread = FALSE
  BY <1>2 DEF Ep!CanRead
<1>6. CASE Ep!ReadFree
  <2>1. Ep!CanRead /\ Ep!Recv(Ep!S, ep.free_raw)
    BY <1>6 DEF Ep!ReadFree
  <2> QED
    BY <1>1, <1>3, <1>5, <2>1, RecvKeeps
<1>7. CASE Ep!ReadNew
  <2> DEFINE s == [Ep!S EXCEPT !.p.allocated = @ + 1]
  <2>1. Ep!CanRead /\ Ep!Recv(s, <<ep.allocated + 1>>)
    BY <1>7 DEF Ep!ReadNew
  <2>2. DOMAIN s = StateFields /\ s.p = [ep EXCEPT !.allocated = @ + 1]
    BY <1>1 DEF PipeState, StateFields
  <2> HIDE DEF s
  <2>3. DOMAIN s.p = PipeFields /\ SameChains(ep, s.p) /\ \A x \in PipeFlags : s.p[x] = ep[x]
    BY <1>1, <2>2 DEF PipeRecord, PipeFields, PipeFlags, SameChains
  <2>4. PipeState(s) /\ SameFlags(ep, s.p)
    BY <1>1, <2>2, <2>3 DEF PipeRecord, PipeState, SameFlags
  <2> QED
    BY <1>5, <2>1, <2>3, <2>4, RecvKeeps
<1>8. CASE Ep!ReadBlocked
  <2>1. /\ ep' = [ep EXCEPT !.blocked = TRUE] /\ pc' = "read_end" /\ Ep!CanRead
        /\ dready' = dready
    BY <1>8 DEF Ep!ReadBlocked, Ep!NoRawBuf
  <2>2. /\ DOMAIN ep' = PipeFields /\ ep'.blocked = TRUE /\ ep'.preread = FALSE
        /\ \A x \in PipeFlags \ {"blocked"} : ep'[x] = ep[x]
    BY <1>1, <1>5, <2>1 DEF PipeRecord, PipeFields, PipeFlags
  <2>3. PipeRecord(ep') /\ ~Over(ep')
    BY <1>1, <1>5, <2>1, <2>2 DEF PipeRecord, PipeFlags, Over
  <2> QED
    BY <1>1, <2>1, <2>2, <2>3 DEF PipeInv, First, Unfilled, Ending, Resting
<1>9. CASE Ep!ReadToFile
  <2>1. PICK k : Ep!Recv(Ep!Written(k), Ep!Written(k).p.free_raw)
    BY <1>9 DEF Ep!ReadToFile
  <2>2. Ep!CanRead /\ dready = FALSE
    BY <1>1, <1>9 DEF Ep!ReadToFile, Ep!NoRawBuf
  <2>3. PipeState(Ep!Written(k)) /\ SameFlags(ep, Ep!Written(k).p)
    BY <1>1, WrittenFlags
  <2> QED
    BY <1>5, <2>1, <2>2, <2>3, RecvKeeps
<1>10. CASE Ep!ReadCrashes
  <2>1. ep' = ep /\ pc' = "crashed" /\ dready' = dready /\ Ep!CanRead
    BY <1>10 DEF Ep!ReadCrashes, Ep!NoRawBuf
  <2> QED
    BY <1>1, <1>5, <2>1 DEF PipeInv, First, Unfilled, Ending
<1>11. CASE Ep!ReadNoBufs
  <2>1. ep' = ep /\ pc = "read" /\ pc' = "read_end" /\ dready' = dready /\ ~Ep!Ended
        /\ ep.preread = FALSE
    BY <1>2, <1>5, <1>11 DEF Ep!ReadNoBufs, Ep!NoRawBuf
  <2> QED
    BY <1>1, <1>2, <2>1 DEF PipeInv, First, Unfilled, Ending
<1>12. CASE Ep!ReadOver
  <2>1. ep' = ep /\ pc = "read" /\ pc' = "loop" /\ dready' = dready /\ Over(ep)
    BY <1>2, <1>12 DEF Ep!ReadOver
  <2> QED
    BY <1>1, <2>1 DEF PipeInv, First, Unfilled, Ending
<1>13. CASE Ep!ReadEnd
  <2>1. pc = "read_end" /\ pc' = "loop" /\ dready' = dready
    BY <1>13 DEF Ep!ReadEnd
  <2>2. ep.preread = FALSE
    BY <1>1, <1>2, <2>1 DEF First
  <2>3. CASE Over(ep) /\ ep.free_raw # <<>>
    <3> DEFINE f == Ep!InputFilter(Ep!S, Head(ep.free_raw))
    <3>1. PipeState(f) /\ SameFlags(ep, f.p)
      BY <1>1, FilteredFlags
    <3>2. ep' = [f.p EXCEPT !.free_raw = Tail(@)]
      BY <1>2, <1>13, <2>3, <3>1 DEF Ep!ReadEnd, Ep!Becomes, PipeState, StateFields
    <3> HIDE DEF f
    <3>3. DOMAIN ep' = PipeFields /\ \A x \in PipeFlags : ep'[x] = ep[x]
      BY <3>1, <3>2 DEF SameFlags, PipeRecord, PipeFields, PipeFlags
    <3>4. PipeRecord(ep') /\ ep'.read = TRUE /\ ep'.preread = FALSE
      BY <1>1, <2>1, <2>2, <2>3, <3>3 DEF PipeRecord, PipeFlags, Ending
    <3> QED
      BY <1>1, <2>1, <3>4 DEF PipeInv, First, Unfilled, Ending, Resting
  <2>4. CASE ~(Over(ep) /\ ep.free_raw # <<>>)
    <3>1. ep' = ep
      BY <1>1, <1>2, <1>13, <2>4 DEF Ep!ReadEnd, Ep!Becomes
    <3>2. ep.eof = TRUE => ep.read = TRUE
      BY <1>1, <2>1 DEF Ending, Over
    <3> QED
      BY <1>1, <2>1, <2>2, <3>1, <3>2 DEF PipeInv, First, Unfilled, Ending
  <2> QED
    BY <2>3, <2>4
<1> QED
  BY <1>4, <1>6, <1>7, <1>8, <1>9, <1>10, <1>11, <1>12, <1>13 DEF Ep!Reading

LEMMA WritingKeeps == ASSUME PipeInv, Ep!Writing PROVE PipeInv'
<1>1. /\ PipeRecord(ep) /\ dready \in BOOLEAN /\ Unfilled(ep, pc, dready) /\ Ending(ep, pc)
      /\ First(ep, pc) /\ PipeState(Ep!S) /\ Ep!S.p = ep
  BY HereIs DEF PipeInv
<1>2. /\ Ep!Ended <=> Over(ep)
      /\ ep.preread \in BOOLEAN /\ ep.eof \in BOOLEAN /\ ep.error \in BOOLEAN
      /\ ep.derror \in BOOLEAN
  BY <1>1 DEF Ep!Ended, Over, PipeRecord, PipeFlags
<1>3. pc = "write" => ep.preread = FALSE
  BY <1>1, <1>2 DEF First
\* Back to the top of the loop of ngx_event_pipe.
<1>4. ASSUME NEW s, PipeState(s), s.p.preread = FALSE, ep' = Ep!ToRead(s).p, pc' = "read",
             dready' \in BOOLEAN, dready' = TRUE => Empty(s.p),
             Over(s.p) => s.p.derror = TRUE \/ HandedOn(s.p)
      PROVE  PipeInv'
  <2>1. /\ PipeRecord(ep') /\ Resting(ep') /\ SameChains(s.p, ep')
        /\ \A x \in PipeFlags \ {"read", "blocked"} : ep'[x] = s.p[x]
    BY <1>4, ToReadIs
  <2>2. /\ ep'.preread = FALSE /\ ep'.eof = s.p.eof /\ ep'.error = s.p.error
        /\ ep'.derror = s.p.derror /\ ep'.done = s.p.done
    BY <1>4, <2>1 DEF PipeFlags
  <2> QED
    BY <1>4, <2>1, <2>2
       DEF PipeInv, First, Unfilled, Ending, Over, HandedOn, Empty, SameChains
\* The output filter is called again, or failed.
<1>5. ASSUME PipeRecord(ep'), ep'.preread = FALSE, pc' = "write", dready' \in BOOLEAN
      PROVE  PipeInv'
  BY <1>5 DEF PipeInv, First, Unfilled, Ending
<1>6. ASSUME NEW s, PipeState(s), s.p.preread = FALSE, Ep!WriteError(s), pc = "write"
      PROVE  PipeInv'
  <2>1. ep' = [s.p EXCEPT !.derror = TRUE] /\ pc' = "write" /\ dready' \in BOOLEAN
    BY <1>1, <1>6 DEF Ep!WriteError, Ep!Becomes, PipeState, StateFields
  <2>2. PipeRecord(ep') /\ ep'.preread = FALSE
    BY <1>6, <2>1 DEF PipeState, PipeRecord, PipeFields, PipeFlags
  <2> QED
    BY <1>5, <2>1, <2>2
<1>7. CASE Ep!WriteDrain
  <2> DEFINE s == Ep!Drained(Ep!S)
  <2>1. PipeState(s) /\ SameFlags(ep, s.p)
    BY <1>1, DrainedFlags
  <2>2. /\ pc = "write" /\ ep.derror = TRUE /\ ep' = Ep!ToRead(s).p /\ pc' = "read"
        /\ dready' = dready
    BY <1>2, <1>7 DEF Ep!WriteDrain, Ep!Becomes
  <2>3. Empty(s.p)
    <3>1. \E d : s = [Ep!S EXCEPT !.p.busy = <<>>, !.p.out = <<>>, !.p.in = <<>>,
                        !.p.free = d.p.free, !.p.free_raw = d.p.free_raw, !.raw = d.raw,
                        !.sh = d.sh]
      BY Zenon DEF Ep!Drained
    <3>2. PICK d : s = [Ep!S EXCEPT !.p.busy = <<>>, !.p.out = <<>>, !.p.in = <<>>,
                        !.p.free = d.p.free, !.p.free_raw = d.p.free_raw, !.raw = d.raw,
                        !.sh = d.sh]
      BY <3>1
    <3> HIDE DEF s
    <3>3. s.p = [ep EXCEPT !.busy = <<>>, !.out = <<>>, !.in = <<>>, !.free = d.p.free,
                           !.free_raw = d.p.free_raw]
      BY <1>1, <3>2 DEF PipeState, StateFields
    <3> QED
      BY <1>1, <3>3 DEF PipeRecord, PipeFields, Empty
  <2> HIDE DEF s
  <2>4. s.p.preread = FALSE /\ s.p.derror = TRUE
    BY <1>3, <2>1, <2>2 DEF SameFlags, PipeFlags
  <2> QED
    BY <1>1, <1>4, <2>1, <2>2, <2>3, <2>4
<1>8. CASE Ep!WriteLast
  <2>1. pc = "write" /\ ep.preread = FALSE
    BY <1>3, <1>8 DEF Ep!WriteLast
  <2>2. ASSUME NEW o, Ep!WriteError([Ep!S EXCEPT !.p.out = o]) PROVE PipeInv'
    <3> DEFINE s == [Ep!S EXCEPT !.p.out = o]
    <3>1. DOMAIN s = StateFields /\ s.p = [ep EXCEPT !.out = o]
      BY <1>1 DEF PipeState, StateFields
    <3>2. Ep!WriteError(s)
      BY <2>2
    <3> HIDE DEF s
    <3>3. PipeState(s) /\ s.p.preread = FALSE
      BY <1>1, <2>1, <3>1 DEF PipeState, PipeRecord, PipeFields, PipeFlags
    <3> QED
      BY <1>6, <2>1, <3>2, <3>3
  <2>3. ASSUME NEW l, pc' = "read", dready' = dready,
               Ep!Becomes(Ep!ToRead([Ep!S EXCEPT !.p.last = l, !.p.out = <<>>, !.p.in = <<>>,
                                                 !.p.done = TRUE]))
        PROVE  PipeInv'
    <3> DEFINE s == [Ep!S EXCEPT !.p.last = l, !.p.out = <<>>, !.p.in = <<>>, !.p.done = TRUE]
    <3>1. /\ DOMAIN s = StateFields
          /\ s.p = [ep EXCEPT !.last = l, !.out = <<>>, !.in = <<>>, !.done = TRUE]
      BY <1>1 DEF PipeState, StateFields
    <3>2. ep' = Ep!ToRead(s).p
      BY <2>3 DEF Ep!Becomes
    <3> HIDE DEF s
    <3>3. /\ DOMAIN s.p = PipeFields /\ HandedOn(s.p) /\ s.p.preread = FALSE
          /\ \A x \in PipeFlags \ {"done"} : s.p[x] = ep[x]
      BY <1>1, <2>1, <3>1 DEF PipeRecord, PipeFields, PipeFlags, HandedOn, Empty
    <3>4. PipeState(s)
      BY <1>1, <3>1, <3>3 DEF PipeState, PipeRecord, PipeFlags, HandedOn
    <3> QED
      BY <1>1, <1>4, <2>3, <3>2, <3>3, <3>4 DEF HandedOn
  <2>4. \/ \E o : Ep!WriteError([Ep!S EXCEPT !.p.out = o])
        \/ \E l : /\ Ep!Becomes(Ep!ToRead([Ep!S EXCEPT !.p.last = l, !.p.out = <<>>, !.p.in = <<>>,
                                                       !.p.done = TRUE]))
                  /\ pc' = "read" /\ dready' = dready
    <3>1. \/ \E o \in {ep.out, <<>>} : Ep!WriteError([Ep!S EXCEPT !.p.out = o])
          \/ /\ Ep!Becomes(Ep!ToRead([Ep!S EXCEPT !.p.last = @ \o ep.out \o ep.in,
                                    !.p.out = <<>>, !.p.in = <<>>, !.p.done = TRUE]))
             /\ pc' = "read" /\ dready' = dready
      BY <1>8 DEF Ep!WriteLast
    <3> QED
      BY <3>1, Zenon
  <2> QED
    BY <2>2, <2>3, <2>4
<1>9. CASE Ep!WriteOut
  <2>1. pc = "write" /\ ep.preread = FALSE
    BY <1>3, <1>9 DEF Ep!WriteOut
  <2>2. PICK o, i, chain, n :
          LET s == [Ep!S EXCEPT !.p.out = o, !.p.in = i]
          IN  \/ Ep!WriteError(s)
              \/ /\ Ep!Becomes(Ep!Updated(Ep!Sent(s, chain, n), chain))
                 /\ pc' = pc /\ dready' \in BOOLEAN
    <3>1. PICK k \in 0 .. Len(ep.out \o ep.in) :
       LET all   == ep.out \o ep.in
           chain == ep.busy \o SubSeq(all, 1, k)
           o     == IF k < Len(ep.out) THEN SubSeq(ep.out, k + 1, Len(ep.out)) ELSE <<>>
           rest  == SubSeq(all, k + 1, Len(all))
           s     == [Ep!S EXCEPT !.p.out = o, !.p.in = SubSeq(rest, Len(o) + 1, Len(rest))]
       IN  \/ Ep!WriteError(s)
           \/ \E n \in 0 .. Ep!Units(chain) :
                 /\ Ep!Becomes(Ep!Updated(Ep!Sent(s, chain, n), chain))
                 /\ dready' = (n = Ep!Units(chain)) /\ pc' = pc
      BY <1>9 DEF Ep!WriteOut
    <3> QED
      BY <3>1
  <2> DEFINE s == [Ep!S EXCEPT !.p.out = o, !.p.in = i]
  <2>3. Ep!WriteError(s) \/ (Ep!Becomes(Ep!Updated(Ep!Sent(s, chain, n), chain))
                             /\ pc' = pc /\ dready' \in BOOLEAN)
    BY <2>2
  <2>4. DOMAIN s = StateFields /\ s.p = [ep EXCEPT !.out = o, !.in = i]
    BY <1>1 DEF PipeState, StateFields
  <2> HIDE DEF s
  <2>5. PipeState(s) /\ s.p.preread = FALSE
    BY <1>1, <2>1, <2>4 DEF PipeState, PipeRecord, PipeFields, PipeFlags
  <2>6. CASE Ep!WriteError(s)
    BY <1>6, <2>1, <2>5, <2>6
  <2>7. CASE Ep!Becomes(Ep!Updated(Ep!Sent(s, chain, n), chain)) /\ pc' = pc /\ dready' \in BOOLEAN
    <3>1. ep' = Ep!Updated(Ep!Sent(s, chain, n), chain).p
      BY <2>7 DEF Ep!Becomes
    <3>2. PipeRecord(ep') /\ ep'.preread = FALSE
      BY <2>5, <3>1, UpdatedFlags DEF SameFlags, PipeFlags
    <3> QED
      BY <1>5, <2>1, <2>7, <3>2
  <2> QED
    BY <2>3, <2>6, <2>7
<1>10. CASE Ep!WriteEnd
  <2>1. /\ pc = "write" /\ ~Over(ep) /\ (dready = TRUE => Empty(ep))
        /\ ep' = Ep!ToRead(Ep!S).p /\ pc' = "read" /\ dready' = dready
    BY <1>2, <1>10 DEF Ep!WriteEnd, Ep!Becomes, Empty
  <2> QED
    BY <1>1, <1>3, <1>4, <2>1
<1> QED
  BY <1>7, <1>8, <1>9, <1>10 DEF Ep!Writing

LEMMA EventKeeps ==
  ASSUME PipeInv, Ep!Loop \/ Ep!UpstreamEvent \/ Ep!DownstreamEvent \/ Ep!Timeout
  PROVE  PipeInv'
<1>1. /\ PipeRecord(ep) /\ dready \in BOOLEAN /\ Unfilled(ep, pc, dready) /\ Ending(ep, pc)
      /\ First(ep, pc) /\ PipeState(Ep!S) /\ Ep!S.p = ep
  BY HereIs DEF PipeInv
<1>2. /\ Ep!Ended <=> Over(ep)
      /\ ep.preread \in BOOLEAN /\ ep.eof \in BOOLEAN /\ ep.error \in BOOLEAN
      /\ ep.derror \in BOOLEAN /\ ep.read \in BOOLEAN /\ ep.blocked \in BOOLEAN
  BY <1>1 DEF Ep!Ended, Over, PipeRecord, PipeFlags
<1>3. pc # "read" => ep.preread = FALSE
  BY <1>1, <1>2 DEF First
<1>4. CASE Ep!Loop
  <2>1. pc = "loop" /\ ep' = ep /\ dready' = dready /\ ep.preread = FALSE
    BY <1>3, <1>4 DEF Ep!Loop
  <2>2. \/ pc' = "write"
        \/ pc' = "over" /\ Resting(ep)
        \/ pc' = "idle" /\ Resting(ep) /\ ~Over(ep) /\ ep.derror = FALSE
    BY <1>2, <1>4 DEF Ep!Loop, Resting
  <2>3. CASE pc' = "write"
    BY <1>1, <2>1, <2>3 DEF PipeInv, First, Unfilled, Ending
  <2>4. CASE pc' = "over" /\ Resting(ep)
    BY <1>1, <2>1, <2>4 DEF PipeInv, First, Unfilled, Ending, Resting
  <2>5. CASE pc' = "idle" /\ Resting(ep) /\ ~Over(ep) /\ ep.derror = FALSE
    BY <1>1, <2>1, <2>5 DEF PipeInv, First, Unfilled, Ending
  <2> QED
    BY <2>2, <2>3, <2>4, <2>5
<1>5. CASE Ep!UpstreamEvent
  <2>1. pc = "idle" /\ pc' = "read" /\ ep' = Ep!ToRead(Ep!S).p /\ dready' = dready
    BY <1>5 DEF Ep!UpstreamEvent, Ep!Becomes
  <2>2. /\ PipeRecord(ep') /\ SameChains(ep, ep')
        /\ \A x \in PipeFlags \ {"read", "blocked"} : ep'[x] = ep[x]
    BY <1>1, <2>1, ToReadIs
  <2>3. ep'.preread = FALSE /\ ~Over(ep') /\ (dready = TRUE => Empty(ep'))
    BY <1>1, <1>3, <2>1, <2>2 DEF PipeFlags, Unfilled, Over, Empty, SameChains
  <2> QED
    BY <1>1, <2>1, <2>2, <2>3 DEF PipeInv, First, Unfilled, Ending
<1>6. CASE Ep!DownstreamEvent
  <2>1. pc = "idle" /\ pc' = "write" /\ ep' = ep /\ dready' = TRUE
    BY <1>6 DEF Ep!DownstreamEvent
  <2> QED
    BY <1>1, <1>3, <2>1 DEF PipeInv, First, Unfilled, Ending
<1>7. CASE Ep!Timeout
  <2>1. /\ pc = "idle" /\ pc' = "over" /\ dready' = dready
        /\ ep' = [ep EXCEPT !.error = TRUE] \/ ep' = [ep EXCEPT !.derror = TRUE]
    BY <1>7 DEF Ep!Timeout
  <2>2. PipeRecord(ep') /\ ep'.eof = ep.eof /\ ep'.preread = ep.preread
    BY <1>1, <2>1 DEF PipeRecord, PipeFields, PipeFlags
  <2>3. ep'.eof = FALSE /\ ep'.preread = FALSE
    BY <1>1, <1>2, <1>3, <2>1, <2>2 DEF Unfilled, Over
  <2> QED
    BY <1>1, <2>1, <2>2, <2>3 DEF PipeInv, First, Unfilled, Ending
<1> QED
  BY <1>4, <1>5, <1>6, <1>7

\* A call of ngx_event_pipe() that returns while the client can be written to, whose
\* edge-triggered event then does not come again, has handed all it has to the output
\* filter; and when the upstream has ended the response, the pipe is over only after
\* the whole of it was handed on. For any sizes, limits and order of events.
THEOREM PipeNeverStuck == Ep!Spec => []Ep!NothingStuck
<1>1. PipeInv => Ep!NothingStuck
  <2> SUFFICES ASSUME PipeInv PROVE Ep!NothingStuck
    OBVIOUS
  <2>1. /\ Unfilled(ep, pc, dready) /\ Ending(ep, pc) /\ dready \in BOOLEAN
        /\ ep.eof \in BOOLEAN /\ ep.derror \in BOOLEAN
    BY DEF PipeInv, PipeRecord, PipeFlags
  <2>2. Ep!EndIsPassed
    BY <2>1 DEF Ep!EndIsPassed, Ending, HandedOn, Empty
  <2>3. Ep!ReadyMeansFlushed
    BY <2>1 DEF Ep!ReadyMeansFlushed, Unfilled, Empty
  <2> QED
    BY <2>2, <2>3 DEF Ep!NothingStuck
<1>2. PipeInv /\ [Ep!Next]_(Ep!vars) => PipeInv'
  <2>1. PipeInv /\ UNCHANGED Ep!vars => PipeInv'
    <3> SUFFICES ASSUME PipeInv, UNCHANGED <<ep, dready, pc>> PROVE PipeInv'
      BY DEF Ep!vars
    <3> QED
      BY DEF PipeInv
  <2> QED
    BY <2>1, ReadingKeeps, WritingKeeps, EventKeeps DEF Ep!Next
<1> QED
  BY <1>1, <1>2, PipeInit, PTL DEF Ep!Spec
==============================================================================
