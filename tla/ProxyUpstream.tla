---------------------------- MODULE ProxyUpstream ----------------------------
(***************************************************************************)
(* The proxy module of one worker: the requests that share the peers of a  *)
(* location and its busy lock, and the attempts each makes until a peer    *)
(* answers (http/modules/proxy/ngx_http_proxy_upstream.c,                  *)
(* ngx_http_proxy_handler.c, event/ngx_event_connect.c,                    *)
(* http/ngx_http_busy_lock.c), built without NGX_HTTP_CACHE, with epoll.   *)
(*                                                                         *)
(* A handler runs to its end once it is called. One that calls the next    *)
(* function of the module does so through the program points "lock",       *)
(* "connect", "send", "next", "headers" and "body", and no event of        *)
(* another request is handled in between. A request at "idle" or "wait"    *)
(* has returned to the event loop.                                         *)
(***************************************************************************)
EXTENDS Integers, Sequences, FiniteSets, SequencesExt

CONSTANTS
  Reqs,          \* client requests
  N,             \* peers->number
  MaxFails,      \* peers->max_fails; 0 turns the fault tolerance off
  NextOn,        \* lcf->next_upstream
  HasLock,       \* lcf->busy_lock is configured
  MaxBusy, MaxWaiting, LockTimeout,  \* its b=, w= and t= parameters
  EarlyAnswers,  \* a peer may answer before it was sent the whole request
  Corked,        \* the request is sent with TCP_CORK
  PartialErrors  \* one call may send a part of the request and then fail

Reasons == {"error", "timeout", "invalid_header", "http_500", "http_404"}

ASSUME ProxyUpstreamAssumption ==
  /\ N \in Nat \ {0}
  /\ MaxFails \in Nat
  /\ NextOn \subseteq Reasons
  /\ HasLock \in BOOLEAN
  /\ MaxBusy \in Nat /\ MaxWaiting \in Nat /\ LockTimeout \in Nat
  /\ EarlyAnswers \in BOOLEAN /\ Corked \in BOOLEAN /\ PartialErrors \in BOOLEAN

Peers == 0 .. N - 1

VARIABLES
  req,      \* what each request has in its ngx_http_proxy_ctx_t
  fails,    \* peer->fails, up to MaxFails + 1
  hot,      \* peers over max_fails whose fail_timeout has not passed
  current,  \* peers->current
  busy,     \* lcf->busy_lock->busy
  waiting   \* lcf->busy_lock->waiting

peers  == <<fails, hot, current>>
lock   == <<busy, waiting>>
vars   == <<req, peers, lock>>

\* at: where the request is; tries, cur: those of peer; open: its connection
\* is not NULL; sent: request_sent; pos: how much of the request chain was
\* consumed; whole: the connection got the request from its start; hdr: what
\* is in header_in; wh, rh: the connection's handlers; wtimer, rtimer: its
\* timers, the client's write timer too once the body is read; time: that of
\* busy_lock; headers: calls of ngx_http_send_header; asked, skipped: peers
\* tried and passed over; why: the ft_type of next_upstream; status: the end.
NewRequest ==
  [ at |-> "new", tries |-> N, cur |-> 0, open |-> FALSE, sent |-> FALSE,
    pos |-> "start", whole |-> FALSE, hdr |-> "empty", wh |-> "send",
    rh |-> "status", wtimer |-> FALSE, rtimer |-> FALSE, time |-> 0,
    headers |-> 0, asked |-> <<>>, skipped |-> {}, why |-> "none",
    status |-> 0 ]

Init ==
  /\ req = [r \in Reqs |-> NewRequest]
  /\ fails = [p \in Peers |-> 0]
  /\ hot = {} /\ current = 0
  /\ busy = 0 /\ waiting = 0

At(r, points) == req[r].at \in points

\* No handler is running: the event loop may call one.
Returned == \A r \in Reqs : At(r, {"new", "idle", "wait", "done"})

Set(r, new) == req' = [req EXCEPT ![r] = new]
Count(b) == IF b THEN 1 ELSE 0

\* Where a new attempt begins: ngx_http_proxy_upstream_busy_lock or _connect.
Begin == IF HasLock THEN "lock" ELSE "connect"

\* ngx_http_proxy_finalize_request: a status after the header becomes 0.
Finished(q, status) ==
  [q EXCEPT !.at = "done", !.open = FALSE, !.wtimer = FALSE, !.rtimer = FALSE,
            !.status = IF q.headers > 0 THEN 0 ELSE status]
CloseCount(r) == Count(HasLock /\ req[r].open)

\* ngx_http_proxy_next_upstream(p, why) is called.
Fail(r, why) == Set(r, [req[r] EXCEPT !.at = "next", !.why = why])

Arrives(r) ==
  /\ Returned /\ At(r, {"new"})
  /\ Set(r, [req[r] EXCEPT !.at = Begin])
  /\ UNCHANGED <<peers, lock>>

-----------------------------------------------------------------------------
(* ngx_http_busy_lock.                                                     *)

\* Mutant: a request that never waited is counted out of the waiting ones.
LockTakenAlwaysDecrements(r) ==
  /\ At(r, {"lock"}) /\ busy < MaxBusy
  /\ busy' = busy + 1
  /\ waiting' = waiting - 1
  /\ Set(r, [req[r] EXCEPT !.at = "connect", !.time = 0])
  /\ UNCHANGED peers

LockTaken(r) ==
  /\ At(r, {"lock"}) /\ busy < MaxBusy
  /\ busy' = busy + 1
  /\ waiting' = waiting - Count(req[r].time > 0)
  /\ Set(r, [req[r] EXCEPT !.at = "connect", !.time = 0])
  /\ UNCHANGED peers

MayWait(r) == IF req[r].time > 0 THEN req[r].time < LockTimeout
                                 ELSE LockTimeout > 0 /\ waiting < MaxWaiting

LockWait(r) ==
  /\ At(r, {"lock"}) /\ busy >= MaxBusy /\ MayWait(r)
  /\ waiting' = waiting + Count(req[r].time = 0)
  /\ Set(r, [req[r] EXCEPT !.at = "wait"])
  /\ UNCHANGED <<peers, busy>>

\* NGX_DONE or NGX_ERROR: 503, after an unlock of what was not locked.
LockRefused(r) ==
  /\ At(r, {"lock"}) /\ busy >= MaxBusy /\ ~MayWait(r)
  /\ waiting' = waiting - Count(req[r].time > 0)
  /\ busy' = busy - 1
  /\ Set(r, Finished(req[r], 503))
  /\ UNCHANGED peers

\* The timer of one second; ngx_http_proxy_busy_lock_handler tries again.
WaitTimer(r) ==
  /\ Returned /\ At(r, {"wait"})
  /\ Set(r, [req[r] EXCEPT !.at = "lock", !.time = @ + 1])
  /\ UNCHANGED <<peers, lock>>

-----------------------------------------------------------------------------
(* ngx_event_connect_peer and ngx_http_proxy_connect.                      *)

FirstTry(r) == N > 1 /\ req[r].tries = N
Cursor(r, k) == ((IF FirstTry(r) THEN current ELSE req[r].cur) + k) % N
Tolerant == N > 1 /\ MaxFails > 0

\* The peers passed over: the k that come first are hot.
Passed(r) ==
  LET cold == {k \in 0 .. req[r].tries - 1 : Cursor(r, k) \notin hot}
  IN  IF ~Tolerant THEN 0
      ELSE IF cold = {} THEN req[r].tries
      ELSE CHOOSE k \in cold : \A j \in cold : k <= j

\* The request as ngx_event_connect_peer leaves it, with its cursor moved.
Chosen(r) ==
  LET k == Passed(r) IN
  [req[r] EXCEPT !.cur = IF N = 1 THEN @ ELSE Cursor(r, k),
                 !.tries = @ - k,
                 !.skipped = @ \cup {Cursor(r, j) : j \in 0 .. k - 1}]
NextCurrent(r) == current' = IF FirstTry(r) THEN (current + 1) % N ELSE current

\* No peer is left, or socket() or adding it to epoll failed, before or
\* after peer.connection is set: 500.
ConnectFails(r) ==
  LET q == Chosen(r) IN
  /\ At(r, {"connect"})
  /\ NextCurrent(r)
  /\ Set(r, Finished(q, 500))
  /\ \E set \in IF q.tries = 0 THEN {FALSE} ELSE BOOLEAN :
       busy' = busy - Count(HasLock /\ set)
  /\ UNCHANGED <<fails, hot, waiting>>

\* connect() fails at once; peer.connection is set, its descriptor closed.
ConnectRefused(r) ==
  LET q == Chosen(r) IN
  /\ At(r, {"connect"}) /\ q.tries > 0
  /\ NextCurrent(r)
  /\ Set(r, [q EXCEPT !.open = TRUE, !.asked = Append(@, q.cur),
                      !.at = "next", !.why = "error"])
  /\ UNCHANGED <<fails, hot, lock>>

\* Mutant: nothing is reinitialised for another peer.
ReinitNever(q) ==
  [q EXCEPT !.hdr = IF @ = "empty" THEN @ ELSE "stale"]

\* ngx_http_proxy_reinit_upstream, called unless this is the last try.
Reinit(q) ==
  IF q.tries > 1 /\ q.sent
  THEN [q EXCEPT !.pos = "start", !.hdr = "empty"]
  ELSE [q EXCEPT !.hdr = IF @ = "empty" THEN @ ELSE "stale"]

\* Mutant: a connection that is not established yet has no timer.
ConnectedUntimed(r, rc) ==
  LET q == Reinit(Chosen(r)) IN
  [q EXCEPT !.open = TRUE, !.asked = Append(@, q.cur),
            !.whole = q.pos = "start", !.sent = FALSE,
            !.wh = "send", !.rh = "status",
            !.at = IF rc = "again" THEN "idle" ELSE "send"]

Connected(r, rc) ==
  LET q == Reinit(Chosen(r)) IN
  [q EXCEPT !.open = TRUE, !.asked = Append(@, q.cur),
            !.whole = q.pos = "start", !.sent = FALSE,
            !.wh = "send", !.rh = "status",
            !.wtimer = rc = "again",
            !.at = IF rc = "again" THEN "idle" ELSE "send"]

Connect(r) ==
  /\ At(r, {"connect"}) /\ Chosen(r).tries > 0
  /\ NextCurrent(r)
  /\ \E rc \in {"again", "ok"} : Set(r, Connected(r, rc))
  /\ UNCHANGED <<fails, hot, lock>>

-----------------------------------------------------------------------------
(* ngx_http_proxy_send_request and its handler.                            *)

WriteEvent(r) ==
  /\ Returned /\ At(r, {"idle"}) /\ req[r].wh = "send"
  /\ Set(r, [req[r] EXCEPT !.at = "send"])
  /\ UNCHANGED <<peers, lock>>

WriteTimeout(r) ==
  /\ Returned /\ At(r, {"idle"}) /\ req[r].wtimer
  /\ Set(r, [req[r] EXCEPT !.wtimer = FALSE, !.at = "next", !.why = "timeout"])
  /\ UNCHANGED <<peers, lock>>

\* request_sent keeps its value, whatever was sent before the error.
SendError(r) ==
  /\ At(r, {"send"})
  /\ \E pos \in {req[r].pos} \cup (IF PartialErrors THEN {"mid"} ELSE {}) :
       Set(r, [req[r] EXCEPT !.pos = pos, !.at = "next", !.why = "error"])
  /\ UNCHANGED <<peers, lock>>

SendAgain(r) ==
  /\ At(r, {"send"}) /\ req[r].pos = "start"
  /\ Set(r, [req[r] EXCEPT !.sent = TRUE, !.pos = "mid", !.wtimer = TRUE,
                           !.at = "idle"])
  /\ UNCHANGED <<peers, lock>>

\* With TCP_CORK set the call returns before it arms the read timer.
SendOK(r) ==
  /\ At(r, {"send"})
  /\ \E corked \in IF Corked /\ req[r].pos # "end" THEN BOOLEAN ELSE {FALSE} :
       Set(r, [req[r] EXCEPT !.sent = TRUE, !.pos = "end", !.wtimer = FALSE,
                             !.rtimer = @ \/ ~corked,
                             !.wh = IF corked THEN @ ELSE "dummy",
                             !.at = "idle"])
  /\ UNCHANGED <<peers, lock>>

-----------------------------------------------------------------------------
(* Reading the answer.                                                     *)

Answers(r) == req[r].sent /\ (req[r].pos = "end" \/ EarlyAnswers)

ReadTimeout(r) ==
  /\ Returned /\ At(r, {"idle"}) /\ req[r].rtimer /\ req[r].rh # "body"
  /\ Fail(r, "timeout")
  /\ UNCHANGED <<peers, lock>>

\* The connection is closed or broken before the header is complete.
ReadError(r) ==
  /\ \/ Returned /\ At(r, {"idle"}) /\ req[r].open /\ req[r].rh # "body"
     \/ At(r, {"headers"})
  /\ Fail(r, "error")
  /\ UNCHANGED <<peers, lock>>

Received(q) == IF q.hdr = "stale" THEN q ELSE [q EXCEPT !.hdr = "own"]

\* ngx_http_proxy_process_upstream_status_line.
StatusPartial(r) ==
  /\ Returned /\ At(r, {"idle"}) /\ req[r].rh = "status" /\ Answers(r)
  /\ Set(r, Received(req[r]))
  /\ UNCHANGED <<peers, lock>>

StatusInvalid(r) ==
  /\ Returned /\ At(r, {"idle"}) /\ req[r].rh = "status" /\ Answers(r)
  /\ Set(r, [Received(req[r]) EXCEPT !.at = "next", !.why = "invalid_header"])
  /\ UNCHANGED <<peers, lock>>

StatusLine(r, code) ==
  LET retry == req[r].tries > 1 /\ code \in NextOn \cap {"http_500", "http_404"}
  IN  /\ Returned /\ At(r, {"idle"}) /\ req[r].rh = "status" /\ Answers(r)
      /\ Set(r, IF retry
                THEN [Received(req[r]) EXCEPT !.at = "next", !.why = code]
                ELSE [Received(req[r]) EXCEPT !.at = "headers", !.rh = "headers"])
      /\ UNCHANGED <<peers, lock>>

\* ngx_http_proxy_process_upstream_headers, called or by an event.
Reading(r) ==
  At(r, {"headers"})
  \/ (Returned /\ At(r, {"idle"}) /\ req[r].rh = "headers" /\ Answers(r))

HeadersPartial(r) ==
  /\ Reading(r)
  /\ Set(r, [req[r] EXCEPT !.at = "idle"])
  /\ UNCHANGED <<peers, lock>>

HeadersInvalid(r) ==
  /\ Reading(r)
  /\ Fail(r, "invalid_header")
  /\ UNCHANGED <<peers, lock>>

\* The header is complete: ngx_http_proxy_send_response.
HeadersDone(r) ==
  /\ Reading(r)
  /\ Set(r, [req[r] EXCEPT !.headers = @ + 1, !.rh = "body", !.at = "body"])
  /\ UNCHANGED <<peers, lock>>

-----------------------------------------------------------------------------
(* ngx_http_proxy_process_body.                                            *)

InBody(r) ==
  At(r, {"body"}) \/ (Returned /\ At(r, {"idle"}) /\ req[r].rh = "body")

\* Mutant: the pipe waits without a timer.
BodyWaitsUntimed(r) ==
  /\ InBody(r)
  /\ Set(r, [req[r] EXCEPT !.at = "idle", !.rtimer = FALSE])
  /\ UNCHANGED <<peers, lock>>

\* The pipe waits: both its timers are armed.
BodyWaits(r) ==
  /\ InBody(r)
  /\ Set(r, [req[r] EXCEPT !.at = "idle", !.rtimer = TRUE])
  /\ UNCHANGED <<peers, lock>>

\* Mutant: an upstream that breaks in the body makes the next one be tried.
BodyEndsNext(r) ==
  /\ InBody(r)
  /\ Fail(r, "error")
  /\ UNCHANGED <<peers, lock>>

\* upstream_done, upstream_eof or upstream_error, a read timeout too.
BodyEnds(r) ==
  /\ InBody(r)
  /\ busy' = busy - Count(HasLock) - CloseCount(r)
  /\ Set(r, Finished(req[r], 0))
  /\ UNCHANGED <<peers, waiting>>

\* NGX_ABORT or downstream_error, a write timeout of the client too.
BodyAborts(r) ==
  /\ InBody(r)
  /\ busy' = busy - CloseCount(r)
  /\ Set(r, Finished(req[r], 0))
  /\ UNCHANGED <<peers, waiting>>

BodyTimeout(r) == At(r, {"idle"}) /\ req[r].rtimer /\ (BodyEnds(r) \/ BodyAborts(r))

-----------------------------------------------------------------------------
(* ngx_http_proxy_next_upstream and ngx_event_connect_peer_failed.         *)

\* Mutant: the failed peer stays the current one.
PeerFailedSamePeer(q) == [q EXCEPT !.tries = @ - 1]

\* Mutant: the index is not wrapped.
PeerFailedNoWrap(q) == [q EXCEPT !.cur = @ + 1, !.tries = @ - 1]

\* Mutant: one try too many is counted.
PeerFailedTwice(q) ==
  [q EXCEPT !.cur = (@ + 1) % N, !.tries = IF @ > 1 THEN @ - 2 ELSE @ - 1]

PeerFailed(q) == [q EXCEPT !.cur = (@ + 1) % N, !.tries = @ - 1]

Status == [ error |-> 502, timeout |-> 504, invalid_header |-> 502,
            http_500 |-> 500, http_404 |-> 404 ]

NextUpstream(r) ==
  LET q    == req[r]
      bad  == q.why # "http_404"
      left == [IF bad THEN PeerFailed(q) ELSE q EXCEPT
                 !.open = FALSE, !.wtimer = FALSE, !.rtimer = FALSE]
      more == IF fails[q.cur] > MaxFails THEN fails[q.cur] ELSE fails[q.cur] + 1
  IN  /\ At(r, {"next"})
      /\ busy' = busy - Count(HasLock) - CloseCount(r)
      /\ IF bad
         THEN /\ fails' = [fails EXCEPT ![q.cur] = more]
              /\ hot' = IF more > MaxFails THEN hot \cup {q.cur} ELSE hot
         ELSE UNCHANGED <<fails, hot>>
      /\ Set(r, IF left.tries = 0 \/ q.why \notin NextOn
                THEN Finished(left, Status[q.why])
                ELSE [left EXCEPT !.at = Begin])
      /\ UNCHANGED <<current, waiting>>

-----------------------------------------------------------------------------
(* The client and the clock.                                               *)

\* ngx_http_proxy_check_broken_connection: the client is gone. A request in
\* the busy lock is finished as it is.
ClientGone(r) ==
  /\ Returned /\ At(r, {"idle", "wait"})
  /\ busy' = busy - CloseCount(r)
  /\ Set(r, Finished(req[r], 499))
  /\ UNCHANGED <<peers, waiting>>

\* fail_timeout has passed since the peer's last failure.
Cools(p) ==
  /\ Returned /\ p \in hot
  /\ hot' = hot \ {p}
  /\ UNCHANGED <<req, fails, current, lock>>

-----------------------------------------------------------------------------
Locking(r) == LockTaken(r) \/ LockWait(r) \/ LockRefused(r)
Connecting(r) == ConnectFails(r) \/ ConnectRefused(r) \/ Connect(r)
Sending(r) == SendError(r) \/ SendAgain(r) \/ SendOK(r)
Answering(r) ==
  \/ ReadError(r) \/ StatusPartial(r) \/ StatusInvalid(r)
  \/ \E code \in {"ok", "http_500", "http_404"} : StatusLine(r, code)
  \/ HeadersPartial(r) \/ HeadersInvalid(r) \/ HeadersDone(r)
  \/ BodyWaits(r) \/ BodyEnds(r) \/ BodyAborts(r)
Timers(r) == WaitTimer(r) \/ WriteTimeout(r) \/ ReadTimeout(r) \/ BodyTimeout(r)

Handler(r) ==
  Locking(r) \/ Connecting(r) \/ Sending(r) \/ Answering(r) \/ NextUpstream(r)

Next ==
  \/ \E r \in Reqs : Arrives(r) \/ Handler(r) \/ WriteEvent(r) \/ Timers(r)
                                \/ ClientGone(r)
  \/ \E p \in Peers : Cools(p)

Spec == Init /\ [][Next]_vars

\* A handler that was called runs on, and the timers fire; no peer answers,
\* and no client leaves, unless it wants to.
Runs(r) == ~At(r, {"idle", "wait"}) /\ Handler(r)
FairSpec == Spec /\ \A r \in Reqs : WF_vars(Runs(r)) /\ WF_vars(Timers(r))

-----------------------------------------------------------------------------
(* Properties.                                                             *)

Points == {"new", "lock", "wait", "connect", "send", "idle", "next", "headers",
           "body", "done"}

Contexts ==
  [ at : Points, tries : 0 .. N, cur : Peers, open : BOOLEAN, sent : BOOLEAN,
    pos : {"start", "mid", "end"}, whole : BOOLEAN,
    hdr : {"empty", "own", "stale"}, wh : {"send", "dummy"},
    rh : {"status", "headers", "body"}, wtimer : BOOLEAN, rtimer : BOOLEAN,
    time : Nat, headers : Nat, asked : Seq(Peers), skipped : SUBSET Peers,
    why : Reasons \cup {"none"}, status : {0, 404, 499, 500, 502, 503, 504} ]

\* The state has the shape the C declarations give it, and no index runs out
\* of the array of peers.
TypeOK ==
  /\ req \in [Reqs -> Contexts]
  /\ fails \in [Peers -> 0 .. MaxFails + 1]
  /\ hot \subseteq Peers
  /\ current \in Peers
  /\ busy \in Int /\ waiting \in Int

Fresh(q) == q.open /\ q.at # "next" => (q.sent => q.whole) /\ q.hdr # "stale"

\* A peer that is not the last one left is sent the request from its start
\* and read into an empty buffer, whatever the peer before it did.
FreshAttempt == \A r \in Reqs : req[r].tries > 1 => Fresh(req[r])

\* Every peer is, the last one too (the comment in ngx_http_proxy_connect:
\* init or reinit the contexts).
EveryAttemptFresh == \A r \in Reqs : Fresh(req[r])

\* The client is sent one response header, although attempts may be repeated
\* until the body begins.
HeaderSentOnce == \A r \in Reqs : req[r].headers <= 1

\* An attempt repeats nothing of the one before it that a peer or the client
\* has seen, and is made to a peer there is.
CleanRetries == TypeOK /\ FreshAttempt /\ HeaderSentOnce

\* A request asks no peer twice, although other requests move the shared
\* cursor and failing peers are passed over.
DistinctPeers ==
  \A r \in Reqs : /\ IsInjective(req[r].asked)
                  /\ Range(req[r].asked) \cap req[r].skipped = {}

\* A gateway error is the answer only when the reason allows no other peer,
\* or when every peer was asked or passed over.
GivesUpLast ==
  \A r \in Reqs :
    /\ At(r, {"done"}) /\ req[r].status \in {502, 504} /\ req[r].why \in NextOn
    => Range(req[r].asked) \cup req[r].skipped = Peers

\* Every peer is tried at most once, and at least once before the client is
\* told that none answers.
PeersTriedOnce == DistinctPeers /\ GivesUpLast

\* A request that waits for its peer has a timer armed.
WaitIsTimed ==
  \A r \in Reqs : At(r, {"idle"}) => req[r].wtimer \/ req[r].rtimer

\* The busy lock never counts fewer waiting requests than there are, whichever
\* way each of them leaves it, so w= does bound them.
WaitersCounted ==
  Cardinality({r \in Reqs : At(r, {"wait"})
                            \/ (At(r, {"lock"}) /\ req[r].time > 0)}) <= waiting

\* A waiting request, for its peer or for the lock, is timed and counted.
WaitsBounded == WaitIsTimed /\ WaitersCounted

\* Every request ends, even if no peer and no client ever reacts.
EveryRequestEnds == \A r \in Reqs : ~At(r, {"new"}) ~> At(r, {"done"})

=============================================================================
