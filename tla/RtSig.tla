-------------------------------- MODULE RtSig --------------------------------
(* The real-time signal method of one worker (ngx_rtsig_module.c): the kernel *)
(* queues a signal for each change of a descriptor, and when the queue is     *)
(* full it sends SIGIO; the worker then polls all connections, a few at a     *)
(* time, while handlers run, connections come and go and signals are queued.  *)
EXTENDS Integers, Sequences, FiniteSets, SequencesExt

CONSTANTS Connections,     \* cycle->connection_n
          QueueMax,        \* rtsig-max
          OverflowEvents,  \* rtsig_overflow_events
          OverflowTest,    \* rtsig_overflow_test
          MaxOps           \* connections that the handlers open and close

RtSigAssumption ==
  {Connections, QueueMax, OverflowEvents, OverflowTest} \subseteq Nat \ {0}

VARIABLES queue,   \* the signals the kernel holds
          sigio,   \* SIGIO is pending: the queue overflowed
          conn,    \* the connections; unseen: changes no handler was called for
          over,    \* overflow, overflow_current, overflow_list and tested
          posted,  \* ngx_posted_events
          held,    \* ngx_accept_mutex_held
          at,      \* where the worker is
          ops
vars == <<queue, sigio, conn, over, posted, held, at, ops>>

Fds == 0 .. Connections - 1
Sides == {"read", "write"}

Init ==
  /\ queue = <<>> /\ sigio = FALSE
  /\ conn = [f \in Fds |-> [open |-> f = 0, instance |-> 0, unseen |-> {}]]
  /\ over = [on |-> FALSE, current |-> 0, list |-> [f \in Fds |-> {}], tested |-> 0]
  /\ posted = {} /\ held = FALSE /\ at = "wait" /\ ops = 0

-----------------------------------------------------------------------------
(* The kernel, and the handlers.                                           *)

\* A descriptor becomes readable or writable.
Change(f, side) ==
  /\ conn[f].open
  /\ conn' = [conn EXCEPT ![f].unseen = @ \cup {side}]
  /\ IF Len(queue) < QueueMax
     THEN /\ queue' = Append(queue, [fd |-> f, instance |-> conn[f].instance, side |-> side])
          /\ UNCHANGED sigio
     ELSE sigio' = TRUE /\ UNCHANGED queue
  /\ UNCHANGED <<over, posted, held, at, ops>>

\* A handler was called; the connection is closed (ngx_close_connection), or a
\* new one is accepted or connected, and added by ngx_rtsig_add_connection.
Calls == at \notin {"scan", "polled"} /\ ops < MaxOps /\ ops' = ops + 1
Close(f) ==
  /\ Calls /\ conn[f].open
  /\ conn' = [conn EXCEPT ![f].open = FALSE, ![f].unseen = {}]
  /\ posted' = {x \in posted : x[1] # f}
  /\ UNCHANGED <<queue, sigio, over, held, at>>
Open(f) ==
  /\ Calls /\ ~conn[f].open
  /\ conn' = [conn EXCEPT ![f].open = TRUE, ![f].instance = 1 - @]
  /\ UNCHANGED <<queue, sigio, over, posted, held, at>>

Handled(x) == conn' = [conn EXCEPT ![x[1]].unseen = @ \ {x[2]}]

-----------------------------------------------------------------------------
(* ngx_rtsig_process_events, in the loop of the worker or in the one that     *)
(* drains the queue while an overflow is recovered.                          *)

Taking == at \in {"wait", "drain"}
\* sigtimedwait() takes the lowest signal first: SIGIO, then instance 0.
Lowest(s) == s.instance = 0 \/ \A k \in DOMAIN queue : queue[k].instance = 1
Taken == SelectInSeq(queue, Lowest)
\* The accept mutex is tried before a wait, not during a recovery.
Lock == IF over.on THEN UNCHANGED held ELSE held' \in BOOLEAN
Done == at' = IF posted' # {} THEN "posted" ELSE at

\* Mutant: what was polled already is left.
LeftPolled(s) == (over.on /\ s.fd < over.current) \/ conn[s.fd].instance # s.instance
\* While an overflow is recovered, what will still be polled is left; and the
\* instance tells a signal of an earlier connection.
Left(s) == (over.on /\ s.fd > over.current) \/ conn[s.fd].instance # s.instance
SignalLeft ==
  /\ Taking /\ ~sigio /\ queue # <<>>
  /\ Left(queue[Taken])
  /\ queue' = RemoveAt(queue, Taken)
  /\ Lock
  /\ UNCHANGED <<sigio, conn, over, posted, at, ops>>
Signal ==
  /\ Taking /\ ~sigio /\ queue # <<>>
  /\ LET s == queue[Taken]
         x == <<s.fd, s.side>>
     IN  /\ ~Left(s)
         /\ Lock
         /\ IF ~conn[s.fd].open THEN UNCHANGED <<conn, posted>>
            ELSE IF held' THEN posted' = posted \cup {x} /\ UNCHANGED conn
            ELSE Handled(x) /\ UNCHANGED posted
  /\ queue' = RemoveAt(queue, Taken)
  /\ Done
  /\ UNCHANGED <<sigio, over, ops>>
\* ngx_event_process_posted()
Posted ==
  /\ at \in {"posted", "recovered"} /\ posted # {}
  /\ \E x \in posted : Handled(x) /\ posted' = posted \ {x}
  /\ UNCHANGED <<queue, sigio, over, held, at, ops>>
PostedDone ==
  /\ at = "posted" /\ posted = {}
  /\ at' = IF over.on THEN "drain" ELSE "wait"
  /\ UNCHANGED <<queue, sigio, conn, over, posted, held, ops>>

\* Mutant: a second overflow does not start it again.
RestartedOnce == [over EXCEPT !.on = TRUE, !.current = IF over.on THEN @ ELSE 0, !.tested = 0]
\* The scan starts again at the first connection. Whether sigaction() flushes the
\* queue is the kernel's affair.
Restarted == [over EXCEPT !.on = TRUE, !.current = 0, !.tested = 0]
Overflow ==
  /\ Taking /\ sigio
  /\ Lock
  /\ sigio' = FALSE /\ queue' \in {<<>>, queue}
  /\ over' = Restarted /\ at' = "scan"
  /\ UNCHANGED <<conn, posted, ops>>
\* EAGAIN ends the draining.
Drained ==
  /\ at = "drain" /\ ~sigio /\ queue = <<>>
  /\ over' = [over EXCEPT !.tested = 0] /\ at' = IF posted = {} THEN "scan" ELSE "posted"
  /\ UNCHANGED <<queue, sigio, conn, posted, held, ops>>

-----------------------------------------------------------------------------
(* ngx_rtsig_process_overflow.                                             *)

\* The next open connections, at most OverflowEvents of them.
Scanned(n) == {f \in over.current .. n - 1 : conn[f].open}
Enough(n) == n = Connections \/ Cardinality(Scanned(n)) >= OverflowEvents
End == LET ends == {n \in over.current .. Connections : Enough(n)}
       IN  CHOOSE n \in ends : \A k \in ends : n <= k
\* What is polled may be ready although it was handled.
Scan ==
  /\ at = "scan" /\ Scanned(End) # {}
  /\ \E extra \in SUBSET {"write"} :
       over' = [over EXCEPT !.current = End,
                  !.list = [f \in Fds |-> IF f \in Scanned(End) THEN conn[f].unseen \cup extra
                                                               ELSE {}]]
  /\ at' = "polled"
  /\ UNCHANGED <<queue, sigio, conn, posted, held, ops>>
ScanDone ==
  /\ at = "scan" /\ Scanned(End) = {}
  /\ over' = [over EXCEPT !.current = Connections] /\ at' = "recovered"
  /\ UNCHANGED <<queue, sigio, conn, posted, held, ops>>

\* What poll() returned is handled in the order of the descriptors.
Polled == {f \in Fds : over.list[f] # {}}
First(f) == IF "read" \in over.list[f] THEN "read" ELSE "write"
Ready ==
  /\ at \in {"polled", "handle"}
  /\ \E f \in Polled :
       /\ \A g \in Polled : f <= g
       /\ IF ~conn[f].open
          THEN over' = [over EXCEPT !.list[f] = {}] /\ UNCHANGED <<conn, at>>
          ELSE /\ Handled(<<f, First(f)>>)
               /\ over' = [over EXCEPT !.list[f] = @ \ {First(f)},
                              !.tested = IF @ < OverflowTest THEN @ + 1 ELSE @]
               /\ at' = "handle"
  /\ UNCHANGED <<queue, sigio, posted, held, ops>>
\* The queue is drained when enough was tested and it is not almost empty.
ReadyDone ==
  /\ at \in {"polled", "handle"} /\ Polled = {}
  /\ at' = IF over.tested >= OverflowTest THEN "drain" ELSE "scan"
  /\ UNCHANGED <<queue, sigio, conn, over, posted, held, ops>>
AlmostEmpty ==
  /\ at \in {"polled", "handle"} /\ Polled = {} /\ over.tested >= OverflowTest
  /\ Len(queue) < QueueMax
  /\ over' = [over EXCEPT !.tested = 0] /\ at' = "scan"
  /\ UNCHANGED <<queue, sigio, conn, posted, held, ops>>
Recovered ==
  /\ at = "recovered" /\ posted = {}
  /\ over' = [over EXCEPT !.on = FALSE] /\ at' = "wait"
  /\ UNCHANGED <<queue, sigio, conn, posted, held, ops>>

Next ==
  \/ \E f \in Fds : Close(f) \/ Open(f) \/ \E side \in Sides : Change(f, side)
  \/ SignalLeft \/ Signal \/ Posted \/ PostedDone \/ Overflow \/ Drained
  \/ Scan \/ ScanDone \/ Ready \/ ReadyDone \/ AlmostEmpty \/ Recovered
Spec == Init /\ [][Next]_vars

-----------------------------------------------------------------------------
(* Properties.                                                             *)

TypeOK ==
  /\ queue \in Seq([fd : Fds, instance : {0, 1}, side : Sides]) /\ Len(queue) <= QueueMax
  /\ conn \in [Fds -> [open : BOOLEAN, instance : {0, 1}, unseen : SUBSET Sides]]
  /\ over \in [on : BOOLEAN, current : 0 .. Connections, list : [Fds -> SUBSET Sides],
               tested : 0 .. OverflowTest]
  /\ posted \subseteq Fds \X Sides /\ sigio \in BOOLEAN /\ held \in BOOLEAN
  /\ at \in {"wait", "drain", "posted", "recovered", "scan", "polled", "handle"} /\ ops \in Nat

\* No change of a connection is forgotten: its handler was called for it, or it is
\* posted, or a signal that will not be taken for a stale one tells it, or the
\* recovery from an overflow is going to poll it or to handle what it polled.
\* This is so although signals are flushed, left and taken in the order of their
\* numbers, a second overflow comes during the recovery and handlers reuse the
\* descriptors meanwhile.
ChangesKept ==
  \A f \in Fds : \A side \in conn[f].unseen :
    \/ <<f, side>> \in posted
    \/ sigio
    \/ \E k \in DOMAIN queue : queue[k] = [fd |-> f, instance |-> conn[f].instance, side |-> side]
    \/ over.on /\ f >= over.current
    \/ over.on /\ side \in over.list[f]

=============================================================================
