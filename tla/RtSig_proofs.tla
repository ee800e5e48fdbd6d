---------------------------- MODULE RtSig_proofs -----------------------------
(***************************************************************************)
(* Proofs about RtSig for every number of connections, every length of the *)
(* kernel's queue and every setting: no change of a connection is          *)
(* forgotten, whatever overflows.                                          *)
(***************************************************************************)
EXTENDS RtSig, FiniteSetTheorems, SequenceTheorems, WellFoundedInduction, TLAPS

\* A closed connection has no changes; what was polled is handled before the
\* next scan; a recovery is over when every connection was looked at.
Recovery ==
  /\ \A f \in Fds : conn[f].open = FALSE => conn[f].unseen = {}
  /\ at \notin {"polled", "handle"} => \A f \in Fds : over.list[f] = {}
  /\ at \in {"scan", "polled", "handle", "drain", "recovered"} => over.on = TRUE
  /\ at = "recovered" => over.current = Connections

RInv == TypeOK /\ Recovery /\ ChangesKept

-----------------------------------------------------------------------------
(* Taking one signal out of the kernel's queue.                            *)

LEMMA LeastExists ==
  ASSUME NEW T, T \subseteq Nat, T # {}
  PROVE  \E x \in T : \A y \in T : x <= y
<1>1. PICK x \in T : \A y \in T : <<y, x>> \notin OpToRel(<, Nat)
  BY WFMin, NatLessThanWellFounded, Zenon
<1>2. \A y \in T : ~(y < x)
  BY <1>1, Zenon DEF OpToRel
<1> QED
  BY <1>2

LEMMA RemoveAtIs ==
  ASSUME NEW S, NEW q \in Seq(S), NEW n \in 1 .. Len(q)
  PROVE  /\ RemoveAt(q, n) \in Seq(S) /\ Len(RemoveAt(q, n)) = Len(q) - 1
         /\ \A k \in 1 .. Len(q) : k # n =>
              \E j \in 1 .. Len(q) - 1 : RemoveAt(q, n)[j] = q[k]
<1> DEFINE a == SubSeq(q, 1, n - 1)
           b == SubSeq(q, n + 1, Len(q))
<1>0. Len(q) \in Nat /\ n \in Nat /\ 1 <= n /\ n <= Len(q)
  BY LenProperties
<1>1. a \in Seq(S) /\ Len(a) = n - 1 /\ \A k \in 1 .. n - 1 : a[k] = q[k]
  BY <1>0, SubSeqProperties
<1>2. b \in Seq(S) /\ Len(b) = Len(q) - n /\ \A k \in 1 .. Len(q) - n : b[k] = q[n + k]
  BY <1>0, SubSeqProperties
<1>3. RemoveAt(q, n) = a \o b
  BY DEF RemoveAt
<1> HIDE DEF a, b
<1>4. /\ a \o b \in Seq(S) /\ Len(a \o b) = Len(a) + Len(b)
      /\ \A k \in 1 .. Len(a) + Len(b) : (a \o b)[k] = IF k <= Len(a) THEN a[k] ELSE b[k - Len(a)]
  BY <1>1, <1>2, ConcatProperties
<1>5. /\ Len(a \o b) = Len(q) - 1
      /\ \A k \in 1 .. Len(q) - 1 :
           (a \o b)[k] = IF k <= n - 1 THEN a[k] ELSE b[k - (n - 1)]
  <2>1. Len(a) + Len(b) = Len(q) - 1
    BY <1>0, <1>1, <1>2
  <2> QED
    BY <1>1, <1>4, <2>1
<1>6. ASSUME NEW k \in 1 .. Len(q), k # n
      PROVE  \E j \in 1 .. Len(q) - 1 : (a \o b)[j] = q[k]
  <2>0. k \in Nat /\ 1 <= k /\ k <= Len(q)
    BY <1>0
  <2>1. CASE k < n
    <3>1. k \in 1 .. Len(q) - 1 /\ k <= n - 1 /\ k \in 1 .. n - 1
      BY <1>0, <2>0, <2>1
    <3>2. (a \o b)[k] = a[k] /\ a[k] = q[k]
      BY <1>1, <1>5, <3>1
    <3> QED
      BY <3>1, <3>2
  <2>2. CASE k > n
    <3>1. k - 1 \in 1 .. Len(q) - 1 /\ ~(k - 1 <= n - 1) /\ k - n \in 1 .. Len(q) - n
          /\ (k - 1) - (n - 1) = k - n /\ n + (k - n) = k
      BY <1>0, <2>0, <2>2
    <3>2. (a \o b)[k - 1] = b[(k - 1) - (n - 1)]
      BY <1>5, <3>1
    <3>3. b[k - n] = q[n + (k - n)]
      BY <1>2, <3>1
    <3>4. (a \o b)[k - 1] = q[k]
      BY <3>1, <3>2, <3>3
    <3> QED
      BY <3>1, <3>4
  <2>3. k < n \/ k > n
    BY <1>0, <1>6, <2>0
  <2> QED
    BY <2>1, <2>2, <2>3
<1> QED
  BY <1>3, <1>4, <1>5, <1>6

Signals == [fd : Fds, instance : {0, 1}, side : Sides]

LEMMA TakenIs ==
  ASSUME queue \in Seq(Signals), queue # <<>>
  PROVE  Taken \in 1 .. Len(queue) /\ queue[Taken] \in Signals
<1> DEFINE I == {k \in 1 .. Len(queue) : Lowest(queue[k])}
<1>1. Len(queue) \in Nat \ {0} /\ DOMAIN queue = 1 .. Len(queue)
      /\ \A k \in 1 .. Len(queue) : queue[k] \in Signals
  BY EmptySeq, LenProperties, ElementOfSeq
<1>2. I # {}
  <2>1. CASE \E k \in 1 .. Len(queue) : queue[k].instance = 0
    BY <2>1 DEF Lowest
  <2>2. CASE \A k \in 1 .. Len(queue) : queue[k].instance # 0
    <3>1. \A k \in 1 .. Len(queue) : queue[k].instance = 1
      BY <1>1, <2>2 DEF Signals
    <3>2. Lowest(queue[1])
      BY <1>1, <3>1 DEF Lowest
    <3> QED
      BY <1>1, <3>2
  <2> QED
    BY <2>1, <2>2
<1>3. Taken = Min(I)
  BY <1>2 DEF Taken, SelectInSeq
<1>4. \E x \in I : \A y \in I : x <= y
  <2>1. I \subseteq Nat
    BY <1>1
  <2> HIDE DEF I
  <2> QED
    BY <1>2, <2>1, LeastExists
<1>5. Min(I) \in I
  <2> HIDE DEF I
  <2> QED
    BY <1>4 DEF Min
<1> QED
  BY <1>1, <1>3, <1>5

-----------------------------------------------------------------------------
(* How far a scan goes.                                                    *)

LEMMA EndIs ==
  ASSUME RtSigAssumption, TypeOK
  PROVE  End \in over.current .. Connections /\ Enough(End)
<1> DEFINE ends == {n \in over.current .. Connections : Enough(n)}
<1>1. over.current \in 0 .. Connections /\ Connections \in Nat
  BY DEF TypeOK, RtSigAssumption
<1>2. Connections \in ends /\ ends \subseteq Nat
  BY <1>1 DEF Enough
<1>3. End = CHOOSE n \in ends : \A k \in ends : n <= k
  BY DEF End
<1> HIDE DEF ends
<1>4. \E x \in ends : \A y \in ends : x <= y
  BY <1>2, LeastExists
<1>5. End \in ends
  BY <1>3, <1>4
<1> QED
  BY <1>5 DEF ends

\* A scan that finds no open connection has seen them all.
LEMMA EmptyScan ==
  ASSUME RtSigAssumption, TypeOK, Scanned(End) = {}
  PROVE  \A f \in Fds : f >= over.current => conn[f].open = FALSE
<1>1. End \in over.current .. Connections /\ Enough(End)
  BY EndIs
<1>2. Cardinality(Scanned(End)) = 0 /\ OverflowEvents \in Nat \ {0} /\ Connections \in Nat
      /\ over.current \in Nat
  BY FS_EmptySet DEF RtSigAssumption, TypeOK
<1>3. End = Connections
  BY <1>1, <1>2 DEF Enough
<1>4. ASSUME NEW f \in Fds, f >= over.current PROVE f \in over.current .. End - 1
  BY <1>2, <1>3, <1>4 DEF Fds
<1>5. \A f \in Fds : f >= over.current => ~conn[f].open
  BY <1>4 DEF Scanned
<1>6. \A f \in Fds : conn[f].open \in BOOLEAN
  BY DEF TypeOK
<1> QED
  BY <1>5, <1>6

-----------------------------------------------------------------------------
(* Types and the recovery.                                                 *)

Overs == [on : BOOLEAN, current : 0 .. Connections, list : [Fds -> SUBSET Sides],
          tested : 0 .. OverflowTest]
Conns == [Fds -> [open : BOOLEAN, instance : {0, 1}, unseen : SUBSET Sides]]

LEMMA HandledIs ==
  ASSUME conn \in Conns, NEW f \in Fds, NEW side, Handled(<<f, side>>)
  PROVE  /\ conn' \in Conns /\ \A g \in Fds \ {f} : conn'[g] = conn[g]
         /\ conn'[f].open = conn[f].open /\ conn'[f].instance = conn[f].instance
         /\ conn'[f].unseen = conn[f].unseen \ {side}
BY DEF Handled, Conns

LEMMA OverIs ==
  ASSUME over \in Overs
  PROVE  /\ over.on \in BOOLEAN /\ over.current \in 0 .. Connections
         /\ over.list \in [Fds -> SUBSET Sides] /\ over.tested \in 0 .. OverflowTest
BY DEF Overs

LEMMA OverSet ==
  ASSUME over \in Overs, NEW b \in BOOLEAN, NEW c \in 0 .. Connections,
         NEW l \in [Fds -> SUBSET Sides], NEW n \in 0 .. OverflowTest
  PROVE  [on |-> b, current |-> c, list |-> l, tested |-> n] \in Overs
BY DEF Overs

LEMMA RtInit == RtSigAssumption /\ Init => RInv
<1> SUFFICES ASSUME RtSigAssumption, Init PROVE RInv
  OBVIOUS
<1>1. <<>> \in Seq(Signals) /\ Len(<<>>) = 0 /\ QueueMax \in Nat /\ Connections \in Nat
      /\ OverflowTest \in Nat
  BY EmptySeq DEF RtSigAssumption
<1>2. queue \in Seq(Signals) /\ Len(queue) <= QueueMax
  BY <1>1 DEF Init
<1>3. conn \in Conns
  BY DEF Init, Conns
<1>4. over \in Overs
  <2>1. 0 \in 0 .. Connections /\ 0 \in 0 .. OverflowTest
    BY <1>1
  <2>2. [f \in Fds |-> {}] \in [Fds -> SUBSET Sides]
    OBVIOUS
  <2> QED
    BY <2>1, <2>2 DEF Init, Overs
<1>5. TypeOK
  BY <1>2, <1>3, <1>4 DEF Init, TypeOK, Signals, Conns, Overs
<1> QED
  BY <1>5 DEF Init, RInv, Recovery, ChangesKept

\* A step of the kernel, of a handler or of a loop changes the queue, the
\* connections and the recovery one at a time or together; this is what it
\* may do to each of them.
LEMMA RtTypeStep ==
  ASSUME RtSigAssumption, TypeOK, Recovery, [Next]_vars
  PROVE  TypeOK'
<1>0. /\ queue \in Seq(Signals) /\ Len(queue) <= QueueMax /\ conn \in Conns /\ over \in Overs
      /\ QueueMax \in Nat /\ Connections \in Nat \ {0} /\ OverflowTest \in Nat /\ Len(queue) \in Nat
  BY LenProperties DEF TypeOK, Signals, Conns, Overs, RtSigAssumption
<1>1. /\ posted \subseteq Fds \X Sides /\ sigio \in BOOLEAN /\ held \in BOOLEAN /\ ops \in Nat
      /\ at \in {"wait", "drain", "posted", "recovered", "scan", "polled", "handle"}
  BY DEF TypeOK
<1>2. TypeOK' <=>
        /\ queue' \in Seq(Signals) /\ Len(queue') <= QueueMax /\ conn' \in Conns
        /\ over' \in Overs /\ posted' \subseteq Fds \X Sides /\ sigio' \in BOOLEAN
        /\ held' \in BOOLEAN /\ ops' \in Nat
        /\ at' \in {"wait", "drain", "posted", "recovered", "scan", "polled", "handle"}
  BY DEF TypeOK, Signals, Conns, Overs
<1>3. CASE UNCHANGED vars
  BY <1>0, <1>1, <1>2, <1>3 DEF vars
<1>4. ASSUME NEW f \in Fds, NEW side \in Sides, Change(f, side) PROVE TypeOK'
  <2>1. conn' \in Conns
    BY <1>0, <1>4 DEF Change, Conns
  <2>2. queue' \in Seq(Signals) /\ Len(queue') <= QueueMax
    <3> DEFINE s == [fd |-> f, instance |-> conn[f].instance, side |-> side]
    <3>1. s \in Signals
      BY <1>0 DEF Signals, Conns
    <3> HIDE DEF s
    <3>2. Append(queue, s) \in Seq(Signals) /\ Len(Append(queue, s)) = Len(queue) + 1
      BY <1>0, <3>1, AppendProperties
    <3>3. queue' = queue \/ (queue' = Append(queue, s) /\ Len(queue) < QueueMax)
      BY <1>4 DEF Change, s
    <3> QED
      BY <1>0, <3>2, <3>3
  <2> QED
    BY <1>0, <1>1, <1>2, <1>4, <2>1, <2>2 DEF Change
<1>5. ASSUME NEW f \in Fds, Close(f) \/ Open(f) PROVE TypeOK'
  <2>1. conn' \in Conns
    <3>1. conn[f].instance \in {0, 1} /\ 1 - conn[f].instance \in {0, 1}
      BY <1>0 DEF Conns
    <3>2. CASE Close(f)
      BY <1>0, <3>2 DEF Close, Conns
    <3>3. CASE Open(f)
      <4> DEFINE n == 1 - conn[f].instance
      <4>1. n \in {0, 1}
        BY <3>1
      <4>2. conn' = [conn EXCEPT ![f].open = TRUE, ![f].instance = n]
        BY <1>0, <3>3 DEF Open, Conns
      <4> HIDE DEF n
      <4> QED
        BY <1>0, <4>1, <4>2 DEF Conns
    <3> QED
      BY <1>5, <3>2, <3>3
  <2>2. posted' \subseteq Fds \X Sides /\ ops' \in Nat
        /\ UNCHANGED <<queue, sigio, over, held, at>>
    BY <1>1, <1>5 DEF Close, Open, Calls
  <2> QED
    BY <1>0, <1>1, <1>2, <2>1, <2>2
<1>6. CASE SignalLeft \/ Signal
  <2>1. queue # <<>> /\ Taken \in 1 .. Len(queue) /\ queue[Taken] \in Signals
        /\ queue' = RemoveAt(queue, Taken)
    BY <1>0, <1>6, TakenIs DEF SignalLeft, Signal
  <2>2. queue' \in Seq(Signals) /\ Len(queue') <= QueueMax
    <3>1. RemoveAt(queue, Taken) \in Seq(Signals)
          /\ Len(RemoveAt(queue, Taken)) = Len(queue) - 1
      BY <1>0, <2>1, RemoveAtIs
    <3> QED
      BY <1>0, <2>1, <3>1
  <2>3. held' \in BOOLEAN /\ UNCHANGED <<sigio, over, ops>>
    BY <1>1, <1>6 DEF SignalLeft, Signal, Lock
  <2>4. conn' \in Conns /\ posted' \subseteq Fds \X Sides
    <3> DEFINE x == <<queue[Taken].fd, queue[Taken].side>>
    <3>1. queue[Taken].fd \in Fds /\ x \in Fds \X Sides
      BY <2>1 DEF Signals
    <3>2. \/ UNCHANGED <<conn, posted>>
          \/ posted' = posted \cup {x} /\ UNCHANGED conn
          \/ Handled(x) /\ UNCHANGED posted
      BY <1>6 DEF SignalLeft, Signal
    <3> QED
      BY <1>0, <1>1, <3>1, <3>2, HandledIs
  <2>5. at' \in {at, "posted"}
    BY <1>6 DEF SignalLeft, Signal, Done
  <2> QED
    BY <1>0, <1>1, <1>2, <2>2, <2>3, <2>4, <2>5
<1>7. CASE Posted
  <2>1. PICK x \in posted : Handled(x) /\ posted' = posted \ {x}
    BY <1>7 DEF Posted
  <2>2. conn' \in Conns
    BY <1>0, <1>1, <2>1, HandledIs
  <2> QED
    BY <1>0, <1>1, <1>2, <1>7, <2>1, <2>2 DEF Posted
<1>8. CASE PostedDone \/ ReadyDone
  BY <1>0, <1>1, <1>2, <1>8 DEF PostedDone, ReadyDone
<1>9. CASE Overflow
  <2>1. over' \in Overs
    <3>1. 0 \in 0 .. Connections /\ 0 \in 0 .. OverflowTest
      BY <1>0
    <3>2. over' = [over EXCEPT !.on = TRUE, !.current = 0, !.tested = 0]
      BY <1>9 DEF Overflow, Restarted
    <3> QED
      BY <1>0, <3>1, <3>2 DEF Overs
  <2>2. queue' \in Seq(Signals) /\ Len(queue') <= QueueMax
    <3>1. <<>> \in Seq(Signals) /\ Len(<<>>) <= QueueMax
      BY <1>0, EmptySeq
    <3>2. queue' = <<>> \/ queue' = queue
      BY <1>9 DEF Overflow
    <3>3. CASE queue' = <<>>
      BY <3>1, <3>3
    <3>4. CASE queue' = queue
      BY <1>0, <3>4
    <3> QED
      BY <3>2, <3>3, <3>4
  <2> QED
    BY <1>0, <1>1, <1>2, <1>9, <2>1, <2>2 DEF Overflow, Lock
<1>10. CASE Drained \/ AlmostEmpty \/ Recovered
  <2>1. over' \in Overs
    <3>1. 0 \in 0 .. OverflowTest
      BY <1>0
    <3>2. over' = [over EXCEPT !.tested = 0] \/ over' = [over EXCEPT !.on = FALSE]
      BY <1>10 DEF Drained, AlmostEmpty, Recovered
    <3> QED
      BY <1>0, <3>1, <3>2 DEF Overs
  <2> QED
    BY <1>0, <1>1, <1>2, <1>10, <2>1 DEF Drained, AlmostEmpty, Recovered
<1>11. CASE Scan
  <2>1. PICK extra \in SUBSET {"write"} :
          over' = [over EXCEPT !.current = End,
                     !.list = [f \in Fds |-> IF f \in Scanned(End) THEN conn[f].unseen \cup extra
                                                                  ELSE {}]]
    BY <1>11 DEF Scan
  <2> DEFINE L == [f \in Fds |-> IF f \in Scanned(End) THEN conn[f].unseen \cup extra ELSE {}]
  <2>2. L \in [Fds -> SUBSET Sides]
    BY <1>0 DEF Conns, Sides
  <2>3. End \in 0 .. Connections
    BY <1>0, EndIs, OverIs
  <2> HIDE DEF L
  <2>4. over' = [over EXCEPT !.current = End, !.list = L]
    BY <2>1 DEF L
  <2>5. over' \in Overs
    BY <1>0, <2>2, <2>3, <2>4 DEF Overs
  <2> QED
    BY <1>0, <1>1, <1>2, <1>11, <2>5 DEF Scan
<1>12. CASE ScanDone
  <2>1. over' \in Overs
    BY <1>0, <1>12 DEF ScanDone, Overs
  <2> QED
    BY <1>0, <1>1, <1>2, <1>12, <2>1 DEF ScanDone
<1>13. CASE Ready
  <2>1. PICK f \in Polled :
          \/ over' = [over EXCEPT !.list[f] = {}] /\ UNCHANGED <<conn, at>>
          \/ /\ Handled(<<f, First(f)>>) /\ at' = "handle"
             /\ over' = [over EXCEPT !.list[f] = @ \ {First(f)},
                            !.tested = IF @ < OverflowTest THEN @ + 1 ELSE @]
    BY <1>13 DEF Ready
  <2>2. f \in Fds
    BY DEF Polled
  <2>3. conn' \in Conns
    BY <1>0, <2>1, <2>2, HandledIs
  <2>4. over' \in Overs
    <3> DEFINE L(S) == [over.list EXCEPT ![f] = S]
               n == IF over.tested < OverflowTest THEN over.tested + 1 ELSE over.tested
    <3>1. over.list \in [Fds -> SUBSET Sides] /\ over.tested \in 0 .. OverflowTest
      BY <1>0, OverIs
    <3>2. n \in 0 .. OverflowTest
      BY <1>0, <3>1
    <3>3. L({}) \in [Fds -> SUBSET Sides] /\ L(over.list[f] \ {First(f)}) \in [Fds -> SUBSET Sides]
      BY <2>2, <3>1
    <3>4. \/ over' = [over EXCEPT !.list = L({})]
          \/ over' = [over EXCEPT !.list = L(over.list[f] \ {First(f)}), !.tested = n]
      BY <1>0, <2>1, <2>2 DEF Overs
    <3> HIDE DEF L, n
    <3> QED
      BY <1>0, <3>2, <3>3, <3>4 DEF Overs
  <2> QED
    BY <1>0, <1>1, <1>2, <1>13, <2>1, <2>3, <2>4 DEF Ready
<1> QED
  BY <1>3, <1>4, <1>5, <1>6, <1>7, <1>8, <1>9, <1>10, <1>11, <1>12, <1>13 DEF Next

LEMMA RtRecoveryStep ==
  ASSUME RtSigAssumption, TypeOK, Recovery, [Next]_vars
  PROVE  Recovery'
<1>0. /\ conn \in Conns /\ over \in Overs /\ Connections \in Nat \ {0} /\ posted \subseteq Fds \X Sides
      /\ over.list \in [Fds -> SUBSET Sides] /\ over.on \in BOOLEAN
  BY OverIs DEF TypeOK, Conns, Overs, RtSigAssumption
<1>1. /\ \A f \in Fds : conn[f].open = FALSE => conn[f].unseen = {}
      /\ at \notin {"polled", "handle"} => \A f \in Fds : over.list[f] = {}
      /\ at \in {"scan", "polled", "handle", "drain", "recovered"} => over.on = TRUE
      /\ at = "recovered" => over.current = Connections
  BY DEF Recovery
<1>2. ASSUME NEW f \in Fds, NEW x, Handled(<<f, x>>)
      PROVE  \A g \in Fds : conn'[g].open = FALSE => conn'[g].unseen = {}
  <2>1. \A g \in Fds \ {f} : conn'[g] = conn[g]
    BY <1>0, <1>2, HandledIs
  <2>2. conn'[f].open = conn[f].open /\ conn'[f].unseen = conn[f].unseen \ {x}
    BY <1>0, <1>2, HandledIs
  <2> QED
    BY <1>1, <2>1, <2>2
<1>3. CASE UNCHANGED vars
  BY <1>1, <1>3 DEF vars, Recovery
<1>4. ASSUME NEW f \in Fds, NEW side \in Sides, Change(f, side) PROVE Recovery'
  BY <1>0, <1>1, <1>4 DEF Change, Conns, Recovery
<1>5. ASSUME NEW f \in Fds, Close(f) \/ Open(f) PROVE Recovery'
  <2>1. \A g \in Fds : conn'[g].open = FALSE => conn'[g].unseen = {}
    BY <1>0, <1>1, <1>5 DEF Close, Open, Conns
  <2>2. UNCHANGED <<over, at>>
    BY <1>5 DEF Close, Open
  <2> QED
    BY <1>1, <2>1, <2>2 DEF Recovery
<1>6. CASE SignalLeft \/ Signal
  <2>1. queue # <<>> /\ queue[Taken] \in Signals /\ at \in {"wait", "drain"}
        /\ at' \in {at, "posted"} /\ over' = over
    BY <1>6, TakenIs DEF SignalLeft, Signal, Taking, Done, TypeOK, Signals
  <2>2. conn' = conn \/ Handled(<<queue[Taken].fd, queue[Taken].side>>)
    BY <1>6 DEF SignalLeft, Signal
  <2>3. \A g \in Fds : conn'[g].open = FALSE => conn'[g].unseen = {}
    <3>1. queue[Taken].fd \in Fds
      BY <2>1 DEF Signals
    <3> QED
      BY <1>1, <1>2, <2>2, <3>1
  <2> QED
    BY <1>1, <2>1, <2>3 DEF Recovery
<1>7. CASE Posted
  <2>1. PICK x \in posted : Handled(x)
    BY <1>7 DEF Posted
  <2>2. \A g \in Fds : conn'[g].open = FALSE => conn'[g].unseen = {}
    <3>1. x[1] \in Fds /\ x = <<x[1], x[2]>>
      BY <1>0
    <3> QED
      BY <1>2, <2>1, <3>1
  <2> QED
    BY <1>1, <1>7, <2>2 DEF Posted, Recovery
<1>8. CASE PostedDone
  BY <1>0, <1>1, <1>8 DEF PostedDone, Recovery
<1>9. CASE ReadyDone
  BY <1>1, <1>9 DEF ReadyDone, Recovery, Polled
<1>10. CASE Overflow
  <2>1. over'.on = TRUE /\ over'.list = over.list
    BY <1>0, <1>10 DEF Overflow, Restarted, Overs
  <2> QED
    BY <1>1, <1>10, <2>1 DEF Overflow, Taking, Recovery
<1>11. CASE Drained
  BY <1>0, <1>1, <1>11 DEF Drained, Recovery, Overs
<1>12. CASE AlmostEmpty
  BY <1>0, <1>1, <1>12 DEF AlmostEmpty, Recovery, Overs, Polled
<1>13. CASE Recovered
  BY <1>0, <1>1, <1>13 DEF Recovered, Recovery, Overs
<1>14. CASE Scan
  <2>1. over'.on = over.on
    BY <1>0, <1>14 DEF Scan, Overs
  <2> QED
    BY <1>1, <1>14, <2>1 DEF Scan, Recovery
<1>15. CASE ScanDone
  <2>1. over'.on = over.on /\ over'.list = over.list /\ over'.current = Connections
    BY <1>0, <1>15 DEF ScanDone, Overs
  <2> QED
    BY <1>1, <1>15, <2>1 DEF ScanDone, Recovery
<1>16. CASE Ready
  <2>1. PICK f \in Polled :
          \/ over' = [over EXCEPT !.list[f] = {}] /\ UNCHANGED <<conn, at>>
          \/ /\ Handled(<<f, First(f)>>) /\ at' = "handle"
             /\ over' = [over EXCEPT !.list[f] = @ \ {First(f)},
                            !.tested = IF @ < OverflowTest THEN @ + 1 ELSE @]
    BY <1>16 DEF Ready
  <2>2. f \in Fds /\ at \in {"polled", "handle"} /\ at' \in {"polled", "handle"}
    BY <1>16, <2>1 DEF Polled, Ready
  <2>3. over'.on = over.on
    BY <1>0, <2>1 DEF Overs
  <2>4. \A g \in Fds : conn'[g].open = FALSE => conn'[g].unseen = {}
    BY <1>1, <1>2, <2>1, <2>2
  <2> QED
    BY <1>1, <2>2, <2>3, <2>4 DEF Recovery
<1> QED
  BY <1>3, <1>4, <1>5, <1>6, <1>7, <1>8, <1>9, <1>10, <1>11, <1>12, <1>13, <1>14, <1>15, <1>16 DEF Next

-----------------------------------------------------------------------------
(* No change is forgotten.                                                 *)

\* What makes a handler be called for a change: see ChangesKept.
Told(f, side) ==
  \E k \in DOMAIN queue : queue[k] = [fd |-> f, instance |-> conn[f].instance, side |-> side]
Kept(f, side) ==
  \/ <<f, side>> \in posted
  \/ sigio = TRUE
  \/ Told(f, side)
  \/ over.on = TRUE /\ f >= over.current
  \/ over.on = TRUE /\ side \in over.list[f]

LEMMA KeptIs ==
  ASSUME TypeOK
  PROVE  ChangesKept <=> \A f \in Fds : \A side \in conn[f].unseen : Kept(f, side)
BY DEF TypeOK, ChangesKept, Kept, Told

\* A signal that is taken is one change less to be told.
LEMMA OthersTold ==
  ASSUME RtSigAssumption, TypeOK, queue # <<>>, queue' = RemoveAt(queue, Taken),
         NEW f \in Fds, NEW side, Told(f, side), conn'[f].instance = conn[f].instance,
         ~Told(f, side)'
  PROVE  queue[Taken] = [fd |-> f, instance |-> conn[f].instance, side |-> side]
<1> DEFINE s == [fd |-> f, instance |-> conn[f].instance, side |-> side]
<1>1. queue \in Seq(Signals) /\ Taken \in 1 .. Len(queue)
  BY TakenIs DEF TypeOK, Signals
<1>2. DOMAIN queue = 1 .. Len(queue) /\ queue' \in Seq(Signals) /\ Len(queue') = Len(queue) - 1
  BY <1>1, RemoveAtIs, LenProperties
<1>3. PICK k \in 1 .. Len(queue) : queue[k] = s
  BY <1>2 DEF Told
<1>4. SUFFICES ASSUME k # Taken PROVE FALSE
  BY <1>3
<1>5. PICK j \in 1 .. Len(queue) - 1 : queue'[j] = s
  <2>1. \E j \in 1 .. Len(queue) - 1 : RemoveAt(queue, Taken)[j] = queue[k]
    BY <1>1, <1>4, RemoveAtIs
  <2> QED
    BY <1>3, <2>1
<1>6. j \in DOMAIN queue'
  BY <1>2, <1>5, LenProperties
<1> QED
  BY <1>5, <1>6 DEF Told

LEMMA KeptStep ==
  ASSUME RtSigAssumption, TypeOK, TypeOK', Recovery, ChangesKept, [Next]_vars
  PROVE  ChangesKept'
<1>0. /\ conn \in Conns /\ over \in Overs /\ Connections \in Nat \ {0} /\ posted \subseteq Fds \X Sides
      /\ over.list \in [Fds -> SUBSET Sides] /\ over.on \in BOOLEAN /\ over.current \in 0 .. Connections
      /\ queue \in Seq(Signals) /\ sigio \in BOOLEAN
  BY OverIs DEF TypeOK, Conns, Overs, RtSigAssumption, Signals
<1>1. /\ \A f \in Fds : conn[f].open = FALSE => conn[f].unseen = {}
      /\ at \notin {"polled", "handle"} => \A f \in Fds : over.list[f] = {}
      /\ at \in {"scan", "polled", "handle", "drain", "recovered"} => over.on = TRUE
      /\ at = "recovered" => over.current = Connections
  BY DEF Recovery
<1>2. \A f \in Fds : \A side \in conn[f].unseen : Kept(f, side)
  BY KeptIs
<1>3. SUFFICES ASSUME NEW f \in Fds, NEW side \in conn'[f].unseen
               PROVE  Kept(f, side)'
  <2>1. TypeOK' => (ChangesKept' <=> \A f \in Fds : \A side \in conn'[f].unseen : Kept(f, side)')
    BY DEF TypeOK, ChangesKept, Kept, Told
  <2> QED
    BY <2>1
<1>4. f \in Int /\ f >= 0 /\ f < Connections
  BY <1>0 DEF Fds
<1>5. CASE UNCHANGED vars
  BY <1>2, <1>3, <1>5 DEF vars, Kept, Told
<1>6. ASSUME NEW g \in Fds, NEW s \in Sides, Change(g, s) PROVE Kept(f, side)'
  <2> DEFINE m == [fd |-> g, instance |-> conn[g].instance, side |-> s]
  <2>1. /\ conn' = [conn EXCEPT ![g].unseen = @ \cup {s}] /\ UNCHANGED <<over, posted>>
        /\ (queue' = Append(queue, m) /\ sigio' = sigio) \/ sigio' = TRUE
    BY <1>6 DEF Change
  <2>2. conn'[f].instance = conn[f].instance /\ (side \in conn[f].unseen \/ (f = g /\ side = s))
    BY <1>0, <1>3, <2>1 DEF Conns
  <2>3. CASE sigio' = TRUE
    BY <2>3 DEF Kept
  <2>4. CASE queue' = Append(queue, m) /\ sigio' = sigio
    <3>1. m \in Signals
      BY <1>0 DEF Conns, Signals
    <3> HIDE DEF m
    <3>2. /\ DOMAIN queue' = 1 .. Len(queue) + 1 /\ Len(queue) \in Nat
          /\ DOMAIN queue = 1 .. Len(queue)
          /\ queue'[Len(queue) + 1] = m /\ \A k \in 1 .. Len(queue) : queue'[k] = queue[k]
      BY <1>0, <2>4, <3>1, AppendProperties, LenProperties
    <3>3. Told(f, side) => Told(f, side)'
      BY <2>2, <3>2 DEF Told
    <3>4. f = g /\ side = s => Told(f, side)'
      BY <2>2, <3>2 DEF Told, m
    <3> QED
      BY <1>2, <2>1, <2>2, <2>4, <3>3, <3>4 DEF Kept
  <2> QED
    BY <2>1, <2>3, <2>4
<1>7. ASSUME NEW g \in Fds, Close(g) \/ Open(g) PROVE Kept(f, side)'
  <2>1. f # g /\ conn'[f] = conn[f]
    <3>1. conn[g].open = FALSE => conn[g].unseen = {}
      BY <1>1
    <3>2. CASE Close(g)
      <4>1. conn' = [conn EXCEPT ![g].open = FALSE, ![g].unseen = {}]
        BY <3>2 DEF Close
      <4> QED
        BY <1>0, <1>3, <4>1 DEF Conns
    <3>3. CASE Open(g)
      <4>1. conn' = [conn EXCEPT ![g].open = TRUE, ![g].instance = 1 - @] /\ conn[g].open = FALSE
        BY <1>0, <3>3 DEF Open, Conns
      <4> QED
        BY <1>0, <1>3, <3>1, <4>1 DEF Conns
    <3> QED
      BY <1>7, <3>2, <3>3
  <2>2. UNCHANGED <<queue, sigio, over>> /\ (posted' = posted \/ posted' = {x \in posted : x[1] # g})
    BY <1>7 DEF Close, Open
  <2>3. Kept(f, side)
    BY <1>2, <1>3, <2>1
  <2> QED
    BY <2>1, <2>2, <2>3 DEF Kept, Told
<1>8. CASE SignalLeft \/ Signal
  <2> DEFINE s == queue[Taken]
             x == <<s.fd, s.side>>
  <2>1. /\ queue # <<>> /\ queue' = RemoveAt(queue, Taken) /\ s \in Signals
        /\ UNCHANGED <<sigio, over>>
    BY <1>0, <1>8, TakenIs DEF SignalLeft, Signal
  <2>2. \/ UNCHANGED <<conn, posted>> /\ Left(s)
        \/ UNCHANGED <<conn, posted>> /\ conn[s.fd].open = FALSE
        \/ posted' = posted \cup {x} /\ UNCHANGED conn
        \/ Handled(x) /\ UNCHANGED posted
    <3>1. s.fd \in Fds
      BY <2>1 DEF Signals
    <3> QED
      BY <1>0, <1>8, <3>1 DEF SignalLeft, Signal, Conns
  <2>3. conn'[f].instance = conn[f].instance /\ side \in conn[f].unseen
        /\ (conn' = conn \/ ~(s.fd = f /\ s.side = side))
    <3>1. s.fd \in Fds
      BY <2>1 DEF Signals
    <3>2. CASE conn' = conn
      BY <1>3, <3>2
    <3>3. CASE Handled(x)
      BY <1>0, <1>3, <3>1, <3>3, HandledIs
    <3> QED
      BY <2>2, <3>2, <3>3
  <2>4. Kept(f, side)
    BY <1>2, <2>3
  <2>5. CASE Told(f, side) /\ ~Told(f, side)'
    <3>1. s = [fd |-> f, instance |-> conn[f].instance, side |-> side]
      BY <2>1, <2>3, <2>5, OthersTold
    <3>2. s.fd = f /\ s.side = side /\ s.instance = conn[f].instance /\ x = <<f, side>>
      BY <3>1
    <3>3. conn[f].open # FALSE
      BY <1>1, <2>3
    <3>4. CASE Left(s)
      <4>1. over.on = TRUE /\ f > over.current
        BY <1>0, <3>2, <3>4 DEF Left
      <4> QED
        BY <1>0, <1>4, <2>1, <4>1 DEF Kept
    <3>5. CASE posted' = posted \cup {x}
      BY <3>2, <3>5 DEF Kept
    <3>6. CASE Handled(x) /\ UNCHANGED posted
      <4>1. conn'[f].unseen = conn[f].unseen \ {side}
        BY <1>0, <3>2, <3>6, HandledIs
      <4> QED
        BY <1>3, <4>1
    <3> QED
      BY <2>2, <3>2, <3>3, <3>4, <3>5, <3>6
  <2>6. CASE Told(f, side)'
    BY <2>6 DEF Kept
  <2>7. CASE ~Told(f, side)
    <3>1. posted \subseteq posted'
      BY <2>2
    <3> QED
      BY <2>1, <2>4, <2>7, <3>1 DEF Kept
  <2> QED
    BY <2>5, <2>6, <2>7
<1>9. CASE Posted
  <2>1. PICK x \in posted : Handled(x) /\ posted' = posted \ {x}
    BY <1>9 DEF Posted
  <2>2. x[1] \in Fds /\ x = <<x[1], x[2]>>
    BY <1>0
  <2>3. conn'[f].instance = conn[f].instance /\ side \in conn[f].unseen /\ x # <<f, side>>
    <3>1. /\ \A g \in Fds \ {x[1]} : conn'[g] = conn[g]
          /\ conn'[x[1]].instance = conn[x[1]].instance
          /\ conn'[x[1]].unseen = conn[x[1]].unseen \ {x[2]}
      BY <1>0, <2>1, <2>2, HandledIs
    <3> QED
      BY <1>3, <2>2, <3>1
  <2>4. Kept(f, side) /\ UNCHANGED <<queue, sigio, over>>
    BY <1>2, <1>9, <2>3 DEF Posted
  <2> QED
    BY <2>1, <2>3, <2>4 DEF Kept, Told
<1>10. CASE PostedDone \/ ReadyDone
  <2>1. UNCHANGED <<queue, sigio, conn, over, posted>>
    BY <1>10 DEF PostedDone, ReadyDone
  <2> QED
    BY <1>2, <1>3, <2>1 DEF Kept, Told
<1>11. CASE Overflow
  <2>1. over'.on = TRUE /\ over'.current = 0
    BY <1>0, <1>11 DEF Overflow, Restarted, Overs
  <2> QED
    BY <1>4, <2>1 DEF Kept
<1>12. CASE Drained \/ AlmostEmpty
  <2>1. UNCHANGED <<queue, sigio, conn, posted>> /\ over' = [over EXCEPT !.tested = 0]
    BY <1>12 DEF Drained, AlmostEmpty
  <2>2. over'.on = over.on /\ over'.current = over.current /\ over'.list = over.list
    BY <1>0, <2>1 DEF Overs
  <2> QED
    BY <1>2, <1>3, <2>1, <2>2 DEF Kept, Told
<1>13. CASE Recovered
  <2>1. UNCHANGED <<queue, sigio, conn, posted>> /\ over.current = Connections
        /\ side \notin over.list[f]
    BY <1>1, <1>13 DEF Recovered
  <2>2. ~(f >= over.current) /\ Kept(f, side)
    BY <1>0, <1>2, <1>3, <1>4, <2>1
  <2>3. <<f, side>> \in posted \/ sigio = TRUE \/ Told(f, side)
    BY <2>1, <2>2 DEF Kept
  <2>4. Told(f, side) => Told(f, side)'
    BY <2>1 DEF Told
  <2> QED
    BY <2>1, <2>3, <2>4 DEF Kept
<1>14. CASE Scan
  <2>1. PICK extra \in SUBSET {"write"} :
          over' = [over EXCEPT !.current = End,
                     !.list = [h \in Fds |-> IF h \in Scanned(End) THEN conn[h].unseen \cup extra
                                                                  ELSE {}]]
    BY <1>14 DEF Scan
  <2>2. UNCHANGED <<queue, sigio, conn, posted>> /\ side \in conn[f].unseen /\ conn[f].open = TRUE
    <3>1. UNCHANGED <<queue, sigio, conn, posted>> /\ side \in conn[f].unseen
      BY <1>3, <1>14 DEF Scan
    <3> QED
      BY <1>0, <1>1, <3>1 DEF Conns
  <2>3. /\ over'.on = over.on /\ over'.current = End
        /\ f \in Scanned(End) => over'.list[f] = conn[f].unseen \cup extra
    BY <1>0, <2>1 DEF Overs
  <2>4. side \notin over.list[f]
    BY <1>1, <1>14 DEF Scan
  <2>5. Kept(f, side)
    BY <1>2, <2>2
  <2>6. CASE over.on = TRUE /\ f >= over.current
    <3>1. End \in Nat /\ (f >= End \/ f \in Scanned(End))
      BY <1>0, <1>4, <2>2, <2>6, EndIs DEF Scanned
    <3> QED
      BY <2>2, <2>3, <2>6, <3>1 DEF Kept
  <2>7. CASE ~(over.on = TRUE /\ f >= over.current)
    BY <2>2, <2>4, <2>5, <2>7 DEF Kept, Told
  <2> QED
    BY <2>6, <2>7
<1>15. CASE ScanDone
  <2>1. UNCHANGED <<queue, sigio, conn, posted>> /\ over'.on = over.on /\ over'.list = over.list
    BY <1>0, <1>15 DEF ScanDone, Overs
  <2>2. ~(f >= over.current)
    BY <1>1, <1>3, <1>15, <2>1, EmptyScan DEF ScanDone
  <2> QED
    BY <1>2, <1>3, <2>1, <2>2 DEF Kept, Told
<1>16. CASE Ready
  <2>1. PICK g \in Polled :
          \/ conn[g].open = FALSE /\ over' = [over EXCEPT !.list[g] = {}] /\ UNCHANGED conn
          \/ /\ Handled(<<g, First(g)>>)
             /\ over' = [over EXCEPT !.list[g] = @ \ {First(g)},
                            !.tested = IF @ < OverflowTest THEN @ + 1 ELSE @]
    <3>1. \A g \in Polled : conn[g].open \in BOOLEAN
      BY <1>0 DEF Polled, Conns
    <3> QED
      BY <1>16, <3>1 DEF Ready
  <2>2. g \in Fds /\ UNCHANGED <<queue, sigio, posted>>
    BY <1>16 DEF Polled, Ready
  <2>3. over'.on = over.on /\ over'.current = over.current
    BY <1>0, <2>1 DEF Overs
  <2>4. /\ conn'[f].instance = conn[f].instance /\ side \in conn[f].unseen
        /\ side \in over.list[f] => side \in over'.list[f]
    <3>1. CASE conn[g].open = FALSE /\ over' = [over EXCEPT !.list[g] = {}] /\ UNCHANGED conn
      <4>1. f # g
        BY <1>1, <1>3, <2>2, <3>1
      <4> QED
        BY <1>0, <1>3, <3>1, <4>1 DEF Overs
    <3>2. CASE /\ Handled(<<g, First(g)>>)
               /\ over' = [over EXCEPT !.list[g] = @ \ {First(g)},
                              !.tested = IF @ < OverflowTest THEN @ + 1 ELSE @]
      <4>1. /\ \A h \in Fds \ {g} : conn'[h] = conn[h]
            /\ conn'[g].instance = conn[g].instance
            /\ conn'[g].unseen = conn[g].unseen \ {First(g)}
        BY <1>0, <2>2, <3>2, HandledIs
      <4>2. over'.list = [over.list EXCEPT ![g] = @ \ {First(g)}]
        BY <1>0, <2>2, <3>2 DEF Overs
      <4> QED
        BY <1>0, <1>3, <2>2, <4>1, <4>2
    <3> QED
      BY <2>1, <3>1, <3>2
  <2> QED
    BY <1>2, <2>2, <2>3, <2>4 DEF Kept, Told
<1> QED
  BY <1>5, <1>6, <1>7, <1>8, <1>9, <1>10, <1>11, <1>12, <1>13, <1>14, <1>15, <1>16 DEF Next

\* No change of a connection is forgotten, for any number of connections, any
\* length of the kernel's queue and any setting of the overflow's directives.
THEOREM NoChangeForgotten ==
  ASSUME RtSigAssumption
  PROVE  Spec => [](TypeOK /\ ChangesKept)
<1>1. Init => RInv
  BY RtInit
<1>2. RInv /\ [Next]_vars => RInv'
  BY RtTypeStep, RtRecoveryStep, KeptStep DEF RInv
<1>3. RInv => TypeOK /\ ChangesKept
  BY DEF RInv
<1> QED
  BY <1>1, <1>2, <1>3, PTL DEF Spec

=============================================================================
