------------------------- MODULE EventMethods_proofs -------------------------
(***************************************************************************)
(* Proofs about EventMethods for every set of descriptors, every length of *)
(* the lists of changes and any number of calls by the handlers: the       *)
(* tables of select, poll, /dev/poll, kqueue and epoll watch the active    *)
(* events, and an event reaches the connection it was reported for.        *)
(***************************************************************************)
EXTENDS EventMethods, SequenceTheorems, WellFoundedInduction, TLAPS

Tables(entries) ==
  [ active : [Events -> BOOLEAN], disabled : [Events -> BOOLEAN],
    index : [Events -> Nat \cup {Invalid}], list : Seq(entries),
    kernel : [Events -> {Off, 0, 1}], max_fd : Nat \cup {-1}, mislaid : SUBSET Events ]
PollEntries == [fd : Fds, events : SUBSET Sides]
DevpollChanges == [fd : Fds, events : Sides \cup {"remove"}]
KqueueChanges == [event : Events, flags : {"add", "disable"}, instance : {0, 1}]
Conns == [Fds -> [open : BOOLEAN, instance : {0, 1}, gen : Nat]]

\* select: the array has each active event once, at its index, and the fd_set has the
\* active events; max_fd, when it is known, is not below any of them.
SelectInv(u) ==
  /\ \A i \in 1 .. Len(u.list) : u.index[u.list[i]] = i - 1
  /\ \A x \in Events :
       IF u.active[x] = TRUE
       THEN /\ u.index[x] \in 0 .. Len(u.list) - 1 /\ u.list[u.index[x] + 1] = x
            /\ u.kernel[x] = 0
       ELSE u.index[x] = Invalid /\ u.kernel[x] = Off
  /\ u.max_fd # -1 => \A x \in Events : u.active[x] = TRUE => x[1] <= u.max_fd
\* poll: an entry has the sides of its descriptor that are active and have its index.
PollInv(u) ==
  /\ \A i \in 1 .. Len(u.list) : \A s \in u.list[i].events :
       /\ u.active[<<u.list[i].fd, s>>] = TRUE
       /\ u.index[<<u.list[i].fd, s>>] = i - 1
  /\ \A x \in Events :
       IF u.active[x] = TRUE
       THEN /\ u.index[x] \in 0 .. Len(u.list) - 1 /\ u.list[u.index[x] + 1].fd = x[1]
            /\ x[2] \in u.list[u.index[x] + 1].events
       ELSE u.index[x] = Invalid
  /\ \A x \in Events :
       u.active[x] = TRUE /\ u.active[Other(x)] = TRUE => u.index[x] = u.index[Other(x)]
\* epoll: the kernel has the active events, with the instance of their connections.
EpollInv(u, c) ==
  \A x \in Events : u.kernel[x] = IF u.active[x] = TRUE THEN c[x[1]].instance ELSE Off
\* /dev/poll: the active events are watched once the changes are written.
DevpollInv(u) ==
  /\ Len(u.list) <= MaxChanges
  /\ \A x \in Events : u.active[x] = TRUE => DevpollWritten(u.kernel, u.list)[x] # Off
\* kqueue: an event has at most one change, at its index, that makes true what its
\* bits say; without a change the kernel has what they say.
KqueueOk(u, c, x) ==
  /\ \A i \in 1 .. Len(u.list) : u.list[i].event = x =>
       /\ u.index[x] = i - 1
       /\ u.list[i].instance = c[x[1]].instance /\ c[x[1]].open = TRUE
       /\ IF u.list[i].flags = "add" THEN u.active[x] = TRUE /\ u.kernel[x] = Off
          ELSE /\ u.active[x] = FALSE /\ u.disabled[x] = TRUE
               /\ u.kernel[x] = c[x[1]].instance
  /\ (\A i \in 1 .. Len(u.list) : u.list[i].event # x) =>
       u.kernel[x] = IF u.active[x] = TRUE THEN c[x[1]].instance ELSE Off
KqueueInv(u, c) ==
  /\ Len(u.list) <= MaxChanges
  /\ \A x \in Events : c[x[1]].open = FALSE => u.kernel[x] = Off
  /\ \A x \in Events \ u.mislaid : KqueueOk(u, c, x)

\* A closed connection has no active and no disabled events.
OnlyOpen(u, c) ==
  \A x \in Events : u.active[x] = TRUE \/ u.disabled[x] = TRUE => c[x[1]].open = TRUE
TableInv(u, c) ==
  /\ m \in {"select", "poll", "devpoll", "kqueue", "epoll"}
  /\ m = "select" => u \in Tables(Events) /\ SelectInv(u)
  /\ m = "poll" => u \in Tables(PollEntries) /\ PollInv(u)
  /\ m = "epoll" => u \in Tables({}) /\ EpollInv(u, c)
  /\ m = "devpoll" => u \in Tables(DevpollChanges) /\ DevpollInv(u)
  /\ m = "kqueue" => u \in Tables(KqueueChanges) /\ KqueueInv(u, c)
  /\ m # "kqueue" => u.mislaid = {} /\ \A x \in Events : u.disabled[x] = FALSE

-----------------------------------------------------------------------------
(* Sequences.                                                              *)

LEMMA FrontIs ==
  ASSUME NEW S, NEW q \in Seq(S), Len(q) > 0
  PROVE  /\ Front(q) \in Seq(S) /\ Len(Front(q)) = Len(q) - 1
         /\ \A k \in 1 .. Len(q) - 1 : Front(q)[k] = q[k]
<1> DEFINE n == Len(q) - 1
<1>1. Len(q) = n + 1 /\ n \in Nat /\ n \in Int /\ 1 \in Int /\ \A i \in 1 .. n : q[i] \in S
  BY LenProperties
<1>2. /\ SubSeq(q, 1, Len(q) - 1) \in Seq(S)
      /\ Len(SubSeq(q, 1, Len(q) - 1)) = Len(q) - 1
      /\ \A k \in 1 .. Len(q) - 1 : SubSeq(q, 1, Len(q) - 1)[k] = q[k]
  <2> HIDE DEF n
  <2>1. SubSeq(q, 1, n) \in Seq(S)
    BY <1>1, SubSeqProperties, Zenon
  <2>2. Len(SubSeq(q, 1, n)) = IF 1 <= n THEN n - 1 + 1 ELSE 0
    BY <1>1, SubSeqProperties
  <2>3. \A k \in 1 .. n - 1 + 1 : SubSeq(q, 1, n)[k] = q[1 + k - 1]
    BY <1>1, SubSeqProperties
  <2>4. Len(SubSeq(q, 1, n)) = n /\ \A k \in 1 .. n : SubSeq(q, 1, n)[k] = q[k]
    BY <1>1, <2>2, <2>3
  <2> QED
    BY <2>1, <2>4 DEF n
<1> QED
  BY <1>2 DEF Front

LEMMA SwapIs ==
  ASSUME NEW S, NEW q \in Seq(S), NEW i \in Nat, i < Len(q) - 1
  PROVE  /\ Swap(q, i) \in Seq(S) /\ Len(Swap(q, i)) = Len(q) - 1
         /\ \A k \in 1 .. Len(q) - 1 : Swap(q, i)[k] = IF k = i + 1 THEN q[Len(q)] ELSE q[k]
<1> DEFINE p == SubSeq(q, 1, Len(q) - 1)
<1>1. Len(q) \in Nat /\ Len(q) > 0
  BY LenProperties
<1>2. p \in Seq(S) /\ Len(p) = Len(q) - 1 /\ \A k \in 1 .. Len(q) - 1 : p[k] = q[k]
  BY <1>1, FrontIs DEF Front
<1>3. q[Len(q)] \in S
  BY <1>1
<1>4. Swap(q, i) = [p EXCEPT ![i + 1] = q[Len(q)]]
  BY DEF Swap, Last
<1> HIDE DEF p
<1>5. i + 1 \in 1 .. Len(p)
  BY <1>1, <1>2
<1> QED
  BY <1>2, <1>3, <1>4, <1>5, ExceptSeq

LEMMA EventIs ==
  ASSUME NEW x \in Events
  PROVE  /\ x[1] \in Fds /\ x[2] \in Sides /\ x = <<x[1], x[2]>>
         /\ Other(x) \in Events /\ Other(x) # x /\ Other(x)[1] = x[1] /\ Other(Other(x)) = x
         /\ \A y \in Events : y[1] = x[1] => y = x \/ y = Other(x)
  BY DEF Events, Sides, Other

LEMMA LeastExists ==
  ASSUME NEW T, T \subseteq Nat, T # {}
  PROVE  \E x \in T : \A y \in T : x <= y
<1>1. PICK x \in T : \A y \in T : <<y, x>> \notin OpToRel(<, Nat)
  BY WFMin, NatLessThanWellFounded, Zenon
<1>2. \A y \in T : ~(y < x)
  BY <1>1, Zenon DEF OpToRel
<1> QED
  BY <1>2

LEMMA GreatestExists ==
  ASSUME NEW T, T \subseteq Nat, T # {}, NEW b \in Nat, \A y \in T : y <= b
  PROVE  \E x \in T : \A y \in T : y <= x
<1> DEFINE D == {d \in Nat : b - d \in T}
<1>1. D \subseteq Nat /\ D # {}
  <2>1. PICK y \in T : TRUE
    OBVIOUS
  <2>2. b - y \in Nat /\ b - (b - y) = y
    BY <2>1
  <2> QED
    BY <2>1, <2>2
<1>2. PICK d \in D : \A e \in D : d <= e
  BY <1>1, LeastExists, Zenon
<1>3. ASSUME NEW y \in T PROVE y <= b - d
  <2>1. b - y \in Nat /\ b - (b - y) = y /\ d \in Nat /\ y \in Nat
    OBVIOUS
  <2>2. d <= b - y
    BY <1>2, <2>1
  <2> QED
    BY <2>1, <2>2
<1> QED
  BY <1>2, <1>3

LEMMA BoundExists ==
  ASSUME NEW n \in Nat, NEW f, \A k \in 1 .. n : f[k] \in Nat
  PROVE  \E b \in Nat : \A k \in 1 .. n : f[k] <= b
<1> DEFINE Bounded(j) == \E b \in Nat : \A k \in 1 .. j : f[k] <= b
           T == {j \in 0 .. n : ~Bounded(j)}
<1>1. SUFFICES T = {}
  <2>1. n \in 0 .. n
    OBVIOUS
  <2>2. n \notin T => Bounded(n)
    BY <2>1
  <2> QED
    BY <1>1, <2>2
<1>2. SUFFICES ASSUME T # {} PROVE FALSE
  OBVIOUS
<1>3. T \subseteq Nat
  OBVIOUS
<1>4. PICK j \in T : \A i \in T : j <= i
  <2> HIDE DEF T
  <2> QED
    BY <1>2, <1>3, LeastExists
<1>5. j \in 0 .. n /\ ~Bounded(j)
  OBVIOUS
<1>6. j # 0
  <2>1. 1 .. 0 = {}
    OBVIOUS
  <2>2. Bounded(0)
    BY <2>1
  <2> QED
    BY <1>5, <2>2
<1>7. j - 1 \in 0 .. n /\ j \in 1 .. n /\ j \in Nat /\ ~(j <= j - 1)
  BY <1>5, <1>6
<1>8. Bounded(j - 1)
  BY <1>4, <1>7
<1>9. PICK b \in Nat : \A k \in 1 .. j - 1 : f[k] <= b
  BY <1>8
<1>10. f[j] \in Nat
  BY <1>7
<1>11. \A k \in 1 .. j : k = j \/ k \in 1 .. j - 1
  BY <1>7
<1>12. \A k \in 1 .. j - 1 : f[k] \in Nat
  BY <1>5
<1>13. CASE f[j] <= b
  <2>1. \A k \in 1 .. j : f[k] <= b
    BY <1>9, <1>11, <1>13
  <2> QED
    BY <1>5, <2>1
<1>14. CASE ~(f[j] <= b)
  <2>1. \A k \in 1 .. j : f[k] <= f[j]
    BY <1>9, <1>10, <1>11, <1>12, <1>14
  <2> QED
    BY <1>5, <1>10, <2>1
<1> QED
  BY <1>13, <1>14

LEMMA GreatestIs ==
  ASSUME NEW n \in Nat, NEW T, T \subseteq 1 .. n, T # {}
  PROVE  Max(T) \in T /\ \A y \in T : y <= Max(T)
<1>1. T \subseteq Nat /\ \A y \in T : y <= n
  OBVIOUS
<1>2. PICK x \in T : \A y \in T : y <= x
  BY <1>1, GreatestExists
<1>3. \A y \in T : x >= y
  BY <1>1, <1>2
<1>4. Max(T) \in T /\ \A y \in T : Max(T) >= y
  BY <1>3 DEF Max
<1> QED
  BY <1>1, <1>4

-----------------------------------------------------------------------------
(* select.                                                                 *)

LEMMA SelectAddKeeps ==
  ASSUME Fds \subseteq Nat, NEW u \in Tables(Events), SelectInv(u), NEW x \in Events,
         u.active[x] = FALSE
  PROVE  /\ SelectAdd(u, x) \in Tables(Events) /\ SelectInv(SelectAdd(u, x))
         /\ SelectAdd(u, x).active = [u.active EXCEPT ![x] = TRUE]
         /\ SelectAdd(u, x).disabled = u.disabled /\ SelectAdd(u, x).mislaid = u.mislaid
<1> DEFINE v == SelectAdd(u, x)
<1>1. u.index[x] = Invalid
  BY DEF SelectInv
<1>0. /\ x[1] \in Nat /\ Len(u.list) \in Nat /\ Append(u.list, x) \in Seq(Events)
      /\ \A y \in Events : y[1] \in Nat
      /\ u.max_fd \in Nat \cup {-1}
  <2>1. u.list \in Seq(Events) /\ u.max_fd \in Nat \cup {-1}
    BY DEF Tables
  <2> QED
    BY <2>1, EventIs, LenProperties
<1>2. /\ v \in Tables(Events)
      /\ v.active = [u.active EXCEPT ![x] = TRUE] /\ v.disabled = u.disabled
      /\ v.mislaid = u.mislaid /\ v.kernel = [u.kernel EXCEPT ![x] = 0]
      /\ v.max_fd = IF u.max_fd # -1 /\ u.max_fd < x[1] THEN x[1] ELSE u.max_fd
      /\ v.index = [u.index EXCEPT ![x] = Len(u.list)] /\ v.list = Append(u.list, x)
  BY <1>0, <1>1 DEF SelectAdd, Tables, Invalid, Off
<1> HIDE DEF v
<1>3. /\ Len(v.list) = Len(u.list) + 1 /\ v.list[Len(u.list) + 1] = x
      /\ \A i \in 1 .. Len(u.list) : v.list[i] = u.list[i] /\ u.list[i] \in Events
      /\ Len(u.list) \in Nat
  BY <1>2, LenProperties DEF Tables
<1>4. \A i \in 1 .. Len(u.list) : u.list[i] # x
  BY <1>1, <1>3 DEF SelectInv, Invalid
<1>5. \A i \in 1 .. Len(v.list) : v.index[v.list[i]] = i - 1
  BY <1>2, <1>3, <1>4 DEF SelectInv, Tables
<1>6. ASSUME NEW y \in Events
      PROVE  IF v.active[y] = TRUE
             THEN /\ v.index[y] \in 0 .. Len(v.list) - 1 /\ v.list[v.index[y] + 1] = y
                  /\ v.kernel[y] = 0
             ELSE v.index[y] = Invalid /\ v.kernel[y] = Off
  <2>1. CASE y = x
    BY <1>2, <1>3, <2>1 DEF Tables
  <2>2. CASE y # x
    BY <1>2, <1>3, <2>2 DEF Tables, SelectInv
  <2> QED
    BY <2>1, <2>2
<1>7. v.max_fd # -1 => \A y \in Events : v.active[y] = TRUE => y[1] <= v.max_fd
  <2>1. u.max_fd # -1 => \A y \in Events : u.active[y] = TRUE => y[1] <= u.max_fd
    BY DEF SelectInv
  <2>2. \A y \in Events : v.active[y] = IF y = x THEN TRUE ELSE u.active[y]
    BY <1>2 DEF Tables
  <2> QED
    BY <1>0, <1>2, <2>1, <2>2
<1> QED
  BY <1>2, <1>5, <1>6, <1>7 DEF v, SelectInv

LEMMA SelectDelKeeps ==
  ASSUME Fds \subseteq Nat, NEW u \in Tables(Events), SelectInv(u), NEW x \in Events,
         u.active[x] = TRUE
  PROVE  /\ SelectDel(u, x) \in Tables(Events) /\ SelectInv(SelectDel(u, x))
         /\ SelectDel(u, x).active = [u.active EXCEPT ![x] = FALSE]
         /\ SelectDel(u, x).disabled = u.disabled /\ SelectDel(u, x).mislaid = u.mislaid
<1> DEFINE v == SelectDel(u, x)
           i == u.index[x]
           n == Len(u.list) - 1
           z == u.list[Len(u.list)]
<1>1. /\ i \in 0 .. n /\ u.list[i + 1] = x /\ Len(u.list) = n + 1 /\ i # Invalid
      /\ u.list \in Seq(Events) /\ n \in Nat /\ Len(u.list) > 0 /\ z \in Events
      /\ \A k \in 1 .. Len(u.list) : u.list[k] \in Events
  BY LenProperties DEF SelectInv, Tables, Invalid
<1>2. /\ v = [ u EXCEPT !.active[x] = FALSE, !.kernel[x] = Off,
                 !.max_fd = IF @ = x[1] THEN -1 ELSE @,
                 !.list = IF i < n THEN Swap(@, i) ELSE Front(@),
                 !.index = IF i < n THEN [@ EXCEPT ![z] = i, ![x] = Invalid]
                           ELSE [@ EXCEPT ![x] = Invalid] ]
  BY <1>1 DEF SelectDel, Last
<1>3. /\ Len(v.list) = n /\ v.list \in Seq(Events)
      /\ \A k \in 1 .. n : v.list[k] = IF k = i + 1 THEN z ELSE u.list[k]
  <2>1. v.list = IF i < n THEN Swap(u.list, i) ELSE Front(u.list)
    BY <1>2 DEF Tables
  <2>2. CASE i < n
    BY <1>1, <2>1, <2>2, SwapIs
  <2>3. CASE ~(i < n)
    BY <1>1, <2>1, <2>3, FrontIs
  <2> QED
    BY <2>2, <2>3
<1>4. /\ v.active = [u.active EXCEPT ![x] = FALSE] /\ v.disabled = u.disabled
      /\ v.mislaid = u.mislaid /\ v.kernel = [u.kernel EXCEPT ![x] = Off]
      /\ v.max_fd = IF u.max_fd = x[1] THEN -1 ELSE u.max_fd
      /\ v.index \in [Events -> Nat \cup {Invalid}] /\ v.index[x] = Invalid
      /\ \A y \in Events : y # x => v.index[y] = IF y = z THEN i ELSE u.index[y]
  <2>1. v.index = IF i < n THEN [[u.index EXCEPT ![z] = i] EXCEPT ![x] = Invalid]
                  ELSE [u.index EXCEPT ![x] = Invalid]
    BY <1>2 DEF Tables
  <2>2. /\ v.active = [u.active EXCEPT ![x] = FALSE] /\ v.disabled = u.disabled
        /\ v.mislaid = u.mislaid /\ v.kernel = [u.kernel EXCEPT ![x] = Off]
        /\ v.max_fd = IF u.max_fd = x[1] THEN -1 ELSE u.max_fd
    BY <1>2 DEF Tables
  <2>3. u.index \in [Events -> Nat \cup {Invalid}] /\ i \in Nat
    BY <1>1 DEF Tables
  <2>4. ~(i < n) => z = x
    BY <1>1
  <2> HIDE DEF v, i, z, n
  <2> QED
    BY <1>1, <2>1, <2>2, <2>3, <2>4 DEF Invalid
<1>5. v \in Tables(Events)
  <2>1. v = [ active |-> v.active, disabled |-> v.disabled, index |-> v.index, list |-> v.list,
              kernel |-> v.kernel, max_fd |-> v.max_fd, mislaid |-> v.mislaid ]
    BY <1>2 DEF Tables
  <2>2. /\ v.active \in [Events -> BOOLEAN] /\ v.disabled \in [Events -> BOOLEAN]
        /\ v.kernel \in [Events -> {Off, 0, 1}] /\ v.max_fd \in Nat \cup {-1}
        /\ v.mislaid \in SUBSET Events
    BY <1>4 DEF Tables
  <2> HIDE DEF v
  <2> QED
    BY <1>3, <1>4, <2>1, <2>2 DEF Tables
<1>7. \A k \in 1 .. Len(u.list) : u.index[u.list[k]] = k - 1
  BY DEF SelectInv
<1>6. u.index[z] = n
  <2>1. Len(u.list) \in 1 .. Len(u.list)
    BY <1>1
  <2> QED
    BY <1>7, <2>1
<1>z. z = u.list[n + 1] /\ i = u.index[x] /\ n = Len(u.list) - 1
  BY <1>1
<1> HIDE DEF v, i, z, n
<1>8. ASSUME NEW k \in 1 .. n PROVE v.index[v.list[k]] = k - 1
  <2>1. CASE k = i + 1
    <3>1. z # x
      BY <1>1, <1>6, <2>1 DEF i
    <3>2. v.list[k] = z /\ v.index[z] = i
      BY <1>1, <1>3, <1>4, <2>1, <3>1
    <3> QED
      BY <1>1, <2>1, <3>2
  <2>2. CASE k # i + 1
    <3>1. u.list[k] # x /\ u.list[k] # z /\ u.index[u.list[k]] = k - 1
      <4>1. u.index[u.list[k]] = k - 1
        BY <1>1, <1>7
      <4>2. k - 1 # n /\ k - 1 # i
        BY <1>1, <2>2
      <4> QED
        BY <1>6, <1>z, <4>1, <4>2
    <3> QED
      BY <1>1, <1>3, <1>4, <2>2, <3>1
  <2> QED
    BY <2>1, <2>2
<1>9. ASSUME NEW y \in Events
      PROVE  IF v.active[y] = TRUE
             THEN /\ v.index[y] \in 0 .. n - 1 /\ v.list[v.index[y] + 1] = y
                  /\ v.kernel[y] = 0
             ELSE v.index[y] = Invalid /\ v.kernel[y] = Off
  <2>0. /\ u.active \in [Events -> BOOLEAN] /\ u.kernel \in [Events -> {Off, 0, 1}]
        /\ IF u.active[y] = TRUE
           THEN u.index[y] \in 0 .. n /\ u.list[u.index[y] + 1] = y /\ u.kernel[y] = 0
           ELSE u.index[y] = Invalid /\ u.kernel[y] = Off
    BY DEF Tables, SelectInv, n
  <2>1. CASE y = x
    BY <1>4, <2>0, <2>1
  <2>2. CASE y # x /\ y = z
    <3>1. i < n
      BY <1>1, <1>z, <2>2
    <3>2. v.index[y] = i /\ v.list[i + 1] = z /\ i \in 0 .. n - 1 /\ u.active[y] = TRUE
      BY <1>1, <1>3, <1>4, <1>6, <2>0, <2>2, <3>1 DEF Invalid
    <3>3. v.active[y] = TRUE /\ v.kernel[y] = 0
      BY <1>4, <2>0, <2>2, <3>2
    <3> QED
      BY <2>2, <3>2, <3>3
  <2>3. CASE y # x /\ y # z
    <3>1. /\ v.index[y] = u.index[y] /\ v.active[y] = u.active[y] /\ v.kernel[y] = u.kernel[y]
      BY <1>4, <2>0, <2>3
    <3>2. u.active[y] = TRUE => u.index[y] \in 0 .. n - 1 /\ v.list[u.index[y] + 1] = y
      <4> SUFFICES ASSUME u.active[y] = TRUE PROVE u.index[y] \in 0 .. n - 1 /\ v.list[u.index[y] + 1] = y
        OBVIOUS
      <4>1. u.index[y] \in 0 .. n /\ u.list[u.index[y] + 1] = y
        BY <2>0
      <4>2. u.index[y] # n /\ u.index[y] # i
        BY <1>1, <1>z, <2>3, <4>1
      <4>3. u.index[y] + 1 \in 1 .. n /\ u.index[y] + 1 # i + 1 /\ u.index[y] \in 0 .. n - 1
        BY <1>1, <4>1, <4>2
      <4> QED
        BY <1>3, <4>1, <4>3
    <3> QED
      BY <2>0, <3>1, <3>2
  <2> QED
    BY <2>1, <2>2, <2>3
<1>10. v.max_fd # -1 => \A y \in Events : v.active[y] = TRUE => y[1] <= v.max_fd
  BY <1>4 DEF Tables, SelectInv
<1> QED
  BY <1>3, <1>4, <1>5, <1>8, <1>9, <1>10 DEF v, n, SelectInv

LEMMA SelectWatches ==
  ASSUME Fds \subseteq Nat, t \in Tables(Events), SelectInv(t), OnlyOpen(t, conn), m = "select",
         t.mislaid = {}
  PROVE  /\ Entered \in Tables(Events) /\ SelectInv(Entered) /\ OnlyOpen(Entered, conn)
         /\ Entered.mislaid = {} /\ Watched(Entered) \subseteq Active /\ WatchedAreActive
<1> DEFINE v == Entered
<1>1. t.list \in Seq(Events) /\ Len(t.list) \in Nat /\ t.max_fd \in Nat \cup {-1}
      /\ \A k \in 1 .. Len(t.list) : t.list[k] \in Events
  BY LenProperties DEF Tables
<1>2. ToSet(t.list) = {x \in Events : t.active[x] = TRUE}
  <2>1. ASSUME NEW k \in 1 .. Len(t.list) PROVE t.active[t.list[k]] = TRUE
    BY <1>1, <2>1 DEF SelectInv, Invalid
  <2>2. ASSUME NEW x \in Events, t.active[x] = TRUE PROVE \E k \in 1 .. Len(t.list) : t.list[k] = x
    <3>1. t.index[x] \in 0 .. Len(t.list) - 1 /\ t.list[t.index[x] + 1] = x
      BY <2>2 DEF SelectInv
    <3>2. t.index[x] + 1 \in 1 .. Len(t.list)
      BY <1>1, <3>1
    <3> QED
      BY <3>1, <3>2
  <2>3. DOMAIN t.list = 1 .. Len(t.list)
    BY <1>1, LenProperties
  <2>4. ToSet(t.list) = {t.list[k] : k \in 1 .. Len(t.list)}
    BY <2>3 DEF ToSet
  <2>5. ToSet(t.list) \subseteq {x \in Events : t.active[x] = TRUE}
    BY <1>1, <2>1, <2>4
  <2>6. {x \in Events : t.active[x] = TRUE} \subseteq ToSet(t.list)
    BY <2>2, <2>4
  <2> QED
    BY <2>5, <2>6
<1>3. /\ MaxFd \in Nat \cup {-1} /\ \A x \in Events : t.active[x] = TRUE => x[1] <= MaxFd
  <2>1. CASE t.max_fd # -1
    BY <1>1, <2>1 DEF MaxFd, SelectInv
  <2>2. CASE t.max_fd = -1 /\ t.list = <<>>
    <3>1. ToSet(t.list) = {}
      BY <2>2 DEF ToSet
    <3> QED
      BY <1>2, <2>2, <3>1 DEF MaxFd
  <2>3. CASE t.max_fd = -1 /\ t.list # <<>>
    <3> DEFINE P == {x[1] : x \in ToSet(t.list)}
               f == [k \in 1 .. Len(t.list) |-> t.list[k][1]]
    <3>1. \A k \in 1 .. Len(t.list) : f[k] \in Nat
      BY <1>1, EventIs
    <3>2. PICK b \in Nat : \A k \in 1 .. Len(t.list) : f[k] <= b
      BY <1>1, <3>1, BoundExists
    <3>3. P = {f[k] : k \in 1 .. Len(t.list)}
      <4>1. ToSet(t.list) = {t.list[k] : k \in 1 .. Len(t.list)}
        BY <1>1, LenProperties DEF ToSet
      <4> QED
        BY <4>1
    <3>4. P \subseteq Nat /\ P # {} /\ \A y \in P : y <= b
      <4>1. 1 \in 1 .. Len(t.list)
        BY <1>1, <2>3, EmptySeq
      <4> HIDE DEF P, f
      <4> QED
        BY <3>1, <3>2, <3>3, <4>1
    <3>5. PICK g \in P : \A y \in P : y <= g
      BY <3>4, GreatestExists
    <3>6. MaxFd = CHOOSE h \in P : \A x \in ToSet(t.list) : x[1] <= h
      BY <2>3 DEF MaxFd
    <3>7. \A x \in ToSet(t.list) : x[1] <= g
      BY <3>5
    <3>8. MaxFd \in P /\ \A x \in ToSet(t.list) : x[1] <= MaxFd
      <4> HIDE DEF P
      <4> QED
        BY <3>5, <3>6, <3>7
    <3> HIDE DEF P
    <3> QED
      BY <1>2, <3>4, <3>8
  <2> QED
    BY <2>1, <2>2, <2>3
<1>4. v = [t EXCEPT !.max_fd = MaxFd]
  BY DEF Entered
<1>5. /\ v \in Tables(Events) /\ v.active = t.active /\ v.disabled = t.disabled
      /\ v.index = t.index /\ v.list = t.list /\ v.kernel = t.kernel /\ v.mislaid = t.mislaid
      /\ v.max_fd = MaxFd
  BY <1>3, <1>4 DEF Tables
<1>6. SelectInv(v)
  BY <1>3, <1>5 DEF SelectInv
<1>7. OnlyOpen(v, conn)
  BY <1>5 DEF OnlyOpen
<1>8. Active = {x \in Events : t.active[x] = TRUE}
  BY DEF Active, OnlyOpen
<1>9. Watched(v) = {x \in Events : v.kernel[x] # Off /\ x[1] <= v.max_fd}
  BY DEF Watched
<1>10. Watched(v) = Active
  BY <1>3, <1>5, <1>8, <1>9 DEF SelectInv, Off
<1>11. IsInjective(v.list)
  <2>1. ASSUME NEW j \in 1 .. Len(t.list), NEW k \in 1 .. Len(t.list), t.list[j] = t.list[k]
        PROVE  j = k
    BY <1>1, <2>1 DEF SelectInv
  <2>2. DOMAIN v.list = 1 .. Len(t.list)
    BY <1>1, <1>5, LenProperties
  <2> QED
    BY <1>5, <2>1, <2>2 DEF IsInjective
<1>12. ToSet(v.list) = Active
  BY <1>2, <1>5, <1>8
<1> HIDE DEF v
<1>13. WatchedAreActive
  <2>1. /\ Active \subseteq Watched(v) /\ Watched(v) \subseteq Active
        /\ IsInjective(v.list) /\ ToSet(v.list) = Active
    BY <1>10, <1>11, <1>12
  <2> QED
    BY <2>1 DEF WatchedAreActive, v
<1> QED
  BY <1>5, <1>6, <1>7, <1>10, <1>13 DEF v

-----------------------------------------------------------------------------
(* poll.                                                                   *)

LEMMA PollAddKeeps ==
  ASSUME NEW u \in Tables(PollEntries), PollInv(u), NEW x \in Events, u.active[x] = FALSE
  PROVE  /\ PollAdd(u, x) \in Tables(PollEntries) /\ PollInv(PollAdd(u, x))
         /\ PollAdd(u, x).active = [u.active EXCEPT ![x] = TRUE]
         /\ PollAdd(u, x).disabled = u.disabled /\ PollAdd(u, x).mislaid = u.mislaid
<1> DEFINE v == PollAdd(u, x)
           o == Other(x)
           e == u.index[o]
           n == Len(u.list)
<1>1. /\ u.index[x] = Invalid
      /\ \A i \in 1 .. n : \A s \in u.list[i].events :
           u.active[<<u.list[i].fd, s>>] = TRUE /\ u.index[<<u.list[i].fd, s>>] = i - 1
      /\ \A y \in Events :
           IF u.active[y] = TRUE
           THEN /\ u.index[y] \in 0 .. n - 1 /\ u.list[u.index[y] + 1].fd = y[1]
                /\ y[2] \in u.list[u.index[y] + 1].events
           ELSE u.index[y] = Invalid
      /\ \A y \in Events :
           u.active[y] = TRUE /\ u.active[Other(y)] = TRUE => u.index[y] = u.index[Other(y)]
  BY DEF PollInv
<1>2. /\ u.active \in [Events -> BOOLEAN] /\ u.index \in [Events -> Nat \cup {Invalid}]
      /\ u.list \in Seq(PollEntries) /\ n \in Nat
      /\ \A i \in 1 .. n : u.list[i] \in PollEntries
  BY LenProperties DEF Tables
<1>3. o \in Events /\ o # x /\ o[1] = x[1] /\ Other(o) = x /\ x[1] \in Fds /\ x[2] \in Sides
      /\ x = <<x[1], x[2]>> /\ \A y \in Events : y[1] = x[1] => y = x \/ y = o
  BY EventIs
<1>4. CASE e = Invalid
  <2> DEFINE new == [fd |-> x[1], events |-> {x[2]}]
  <2>1. new \in PollEntries /\ Append(u.list, new) \in Seq(PollEntries)
    BY <1>2, <1>3 DEF PollEntries
  <2>2. v = [u EXCEPT !.active = [@ EXCEPT ![x] = TRUE], !.index = [@ EXCEPT ![x] = n],
                      !.list = Append(@, new)]
    BY <1>1, <1>4 DEF PollAdd, Tables
  <2> HIDE DEF v, new
  <2>3. /\ v \in Tables(PollEntries)
        /\ v.active = [u.active EXCEPT ![x] = TRUE] /\ v.disabled = u.disabled
        /\ v.mislaid = u.mislaid /\ v.index = [u.index EXCEPT ![x] = n]
        /\ v.list = Append(u.list, new)
    BY <1>2, <2>1, <2>2 DEF Tables
  <2>4. /\ Len(v.list) = n + 1 /\ v.list[n + 1] = new
        /\ \A i \in 1 .. n : v.list[i] = u.list[i]
    BY <1>2, <2>1, <2>3
  <2>5. \A y \in Events : y # x => v.active[y] = u.active[y] /\ v.index[y] = u.index[y]
    BY <1>2, <2>3
  <2>6. v.active[x] = TRUE /\ v.index[x] = n /\ new.fd = x[1] /\ new.events = {x[2]}
    BY <1>2, <2>3 DEF new
  <2>7. u.active[o] = FALSE
    BY <1>1, <1>2, <1>3, <1>4 DEF Invalid
  <2> HIDE DEF n, e, o
  <2>8. ASSUME NEW i \in 1 .. Len(v.list), NEW s \in v.list[i].events
        PROVE  v.active[<<v.list[i].fd, s>>] = TRUE /\ v.index[<<v.list[i].fd, s>>] = i - 1
    <3>1. CASE i = n + 1
      BY <1>2, <1>3, <2>4, <2>6, <3>1
    <3>2. CASE i \in 1 .. n
      <4>1. v.list[i] = u.list[i] /\ u.list[i].fd \in Fds /\ s \in Sides
        BY <1>2, <2>4, <3>2 DEF PollEntries
      <4>2. <<u.list[i].fd, s>> \in Events
        BY <4>1 DEF Events
      <4>3. u.active[<<u.list[i].fd, s>>] = TRUE /\ u.index[<<u.list[i].fd, s>>] = i - 1
        BY <1>1, <3>2, <4>1
      <4>4. <<u.list[i].fd, s>> # x
        BY <4>3
      <4> QED
        BY <2>5, <4>1, <4>2, <4>3, <4>4
    <3>3. i = n + 1 \/ i \in 1 .. n
      BY <1>2, <2>4
    <3> QED
      BY <3>1, <3>2, <3>3
  <2>9. ASSUME NEW y \in Events
        PROVE  IF v.active[y] = TRUE
               THEN /\ v.index[y] \in 0 .. Len(v.list) - 1 /\ v.list[v.index[y] + 1].fd = y[1]
                    /\ y[2] \in v.list[v.index[y] + 1].events
               ELSE v.index[y] = Invalid
    <3>1. CASE y = x
      BY <1>2, <2>4, <2>6, <3>1
    <3>2. CASE y # x
      <4>1. v.active[y] = u.active[y] /\ v.index[y] = u.index[y]
        BY <2>5, <3>2
      <4>2. u.active[y] = TRUE => u.index[y] + 1 \in 1 .. n /\ u.index[y] \in 0 .. n
        BY <1>1, <1>2
      <4> QED
        BY <1>1, <1>2, <2>4, <4>1, <4>2
    <3> QED
      BY <3>1, <3>2
  <2>10. ASSUME NEW y \in Events, v.active[y] = TRUE, v.active[Other(y)] = TRUE
         PROVE  v.index[y] = v.index[Other(y)]
    <3>1. y # x /\ Other(y) # x
      BY <1>3, <2>5, <2>7, <2>10, EventIs DEF o
    <3> QED
      BY <1>1, <2>5, <2>10, <3>1, EventIs
  <2> QED
    BY <2>3, <2>8, <2>9, <2>10 DEF PollInv, v
<1>5. CASE e # Invalid
  <2>1. /\ u.active[o] = TRUE /\ e \in 0 .. n - 1 /\ u.list[e + 1].fd = x[1]
        /\ e + 1 \in 1 .. n /\ e \in Nat
    BY <1>1, <1>2, <1>3, <1>5
  <2> DEFINE new == [fd |-> x[1], events |-> u.list[e + 1].events \cup {x[2]}]
  <2>2. /\ new \in PollEntries /\ [u.list EXCEPT ![e + 1] = new] \in Seq(PollEntries)
        /\ new = [u.list[e + 1] EXCEPT !.events = @ \cup {x[2]}]
    <3>1. u.list[e + 1] \in PollEntries
      BY <1>2, <2>1
    <3>2. ASSUME NEW w \in PollEntries, w.fd = x[1]
          PROVE  LET z == [fd |-> x[1], events |-> w.events \cup {x[2]}] IN
                 z \in PollEntries /\ z = [w EXCEPT !.events = @ \cup {x[2]}]
      <4> HIDE DEF new, e, o, v, n
      <4> QED
        BY <1>3, <3>2 DEF PollEntries
    <3>3. new \in PollEntries /\ new = [u.list[e + 1] EXCEPT !.events = @ \cup {x[2]}]
      BY <2>1, <3>1, <3>2
    <3> QED
      BY <1>2, <2>1, <3>3, ExceptSeq
  <2>3. v = [u EXCEPT !.active = [@ EXCEPT ![x] = TRUE], !.index = [@ EXCEPT ![x] = e],
                      !.list = [@ EXCEPT ![e + 1] = new]]
    BY <1>1, <1>5, <2>2 DEF PollAdd, Tables
  <2> HIDE DEF v, new
  <2>4. /\ v \in Tables(PollEntries)
        /\ v.active = [u.active EXCEPT ![x] = TRUE] /\ v.disabled = u.disabled
        /\ v.mislaid = u.mislaid /\ v.index = [u.index EXCEPT ![x] = e]
        /\ v.list = [u.list EXCEPT ![e + 1] = new]
    BY <1>2, <2>1, <2>2, <2>3 DEF Tables
  <2>5. /\ Len(v.list) = n /\ v.list[e + 1] = new
        /\ \A i \in 1 .. n : i # e + 1 => v.list[i] = u.list[i]
    BY <1>2, <2>1, <2>2, <2>4, ExceptSeq
  <2>6. \A y \in Events : y # x => v.active[y] = u.active[y] /\ v.index[y] = u.index[y]
    BY <1>2, <2>4
  <2>7. /\ v.active[x] = TRUE /\ v.index[x] = e /\ new.fd = x[1]
        /\ new.events = u.list[e + 1].events \cup {x[2]}
    BY <1>2, <2>4 DEF new
  <2>0. u.index[o] = e
    OBVIOUS
  <2> HIDE DEF n, e, o
  <2>8. ASSUME NEW i \in 1 .. Len(v.list), NEW s \in v.list[i].events
        PROVE  v.active[<<v.list[i].fd, s>>] = TRUE /\ v.index[<<v.list[i].fd, s>>] = i - 1
    <3>0. i \in 1 .. n /\ v.list[i].fd = u.list[i].fd
      BY <2>1, <2>5, <2>7
    <3>1. CASE i = e + 1 /\ s = x[2]
      BY <1>3, <2>1, <2>5, <2>7, <3>1
    <3>2. CASE ~(i = e + 1 /\ s = x[2])
      <4>1. u.list[i].fd \in Fds /\ s \in u.list[i].events /\ s \in Sides
        BY <1>2, <2>5, <2>7, <3>0, <3>2 DEF PollEntries
      <4>2. <<u.list[i].fd, s>> \in Events
        BY <4>1 DEF Events
      <4>3. u.active[<<u.list[i].fd, s>>] = TRUE /\ u.index[<<u.list[i].fd, s>>] = i - 1
        BY <1>1, <3>0, <4>1
      <4>4. <<u.list[i].fd, s>> # x
        BY <4>3
      <4> QED
        BY <2>6, <3>0, <4>1, <4>2, <4>3, <4>4
    <3> QED
      BY <3>1, <3>2
  <2>9. ASSUME NEW y \in Events
        PROVE  IF v.active[y] = TRUE
               THEN /\ v.index[y] \in 0 .. Len(v.list) - 1 /\ v.list[v.index[y] + 1].fd = y[1]
                    /\ y[2] \in v.list[v.index[y] + 1].events
               ELSE v.index[y] = Invalid
    <3>1. CASE y = x
      BY <1>2, <2>1, <2>5, <2>7, <3>1
    <3>2. CASE y # x
      <4>1. v.active[y] = u.active[y] /\ v.index[y] = u.index[y]
        BY <2>6, <3>2
      <4>2. u.active[y] = TRUE => u.index[y] + 1 \in 1 .. n /\ u.index[y] \in 0 .. n - 1
        BY <1>1, <1>2
      <4>3. \A i \in 1 .. n : v.list[i].fd = u.list[i].fd /\ u.list[i].events \subseteq v.list[i].events
        BY <2>1, <2>5, <2>7
      <4>4. CASE u.active[y] = TRUE
        <5>1. /\ u.index[y] \in 0 .. n - 1 /\ u.list[u.index[y] + 1].fd = y[1]
              /\ y[2] \in u.list[u.index[y] + 1].events
          BY <1>1, <4>4
        <5> QED
          BY <2>5, <4>1, <4>2, <4>3, <4>4, <5>1
      <4> QED
        BY <1>1, <4>1, <4>4
    <3> QED
      BY <3>1, <3>2
  <2>10. ASSUME NEW y \in Events, v.active[y] = TRUE, v.active[Other(y)] = TRUE
         PROVE  v.index[y] = v.index[Other(y)]
    <3>1. CASE y = x \/ Other(y) = x
      <4>1. (y = x /\ Other(y) = o) \/ (y = o /\ Other(y) = x)
        BY <1>3, <3>1, EventIs DEF o
      <4> QED
        BY <1>3, <2>0, <2>6, <2>7, <4>1
    <3>2. CASE y # x /\ Other(y) # x
      BY <1>1, <2>6, <2>10, <3>2, EventIs
    <3> QED
      BY <3>1, <3>2
  <2> QED
    BY <2>4, <2>8, <2>9, <2>10 DEF PollInv, v
<1> QED
  BY <1>4, <1>5

LEMMA PollDelKeeps ==
  ASSUME NEW u \in Tables(PollEntries), PollInv(u), OnlyOpen(u, conn), NEW x \in Events,
         u.active[x] = TRUE
  PROVE  /\ PollDel(u, x) \in Tables(PollEntries) /\ PollInv(PollDel(u, x))
         /\ PollDel(u, x).active = [u.active EXCEPT ![x] = FALSE]
         /\ PollDel(u, x).disabled = u.disabled /\ PollDel(u, x).mislaid = u.mislaid
<1> DEFINE v == PollDel(u, x)
           o == Other(x)
           e == u.index[o]
           n == Len(u.list) - 1
           i == u.index[x]
<1>1. /\ \A j \in 1 .. n + 1 : \A s \in u.list[j].events :
           u.active[<<u.list[j].fd, s>>] = TRUE /\ u.index[<<u.list[j].fd, s>>] = j - 1
      /\ \A y \in Events :
           IF u.active[y] = TRUE
           THEN /\ u.index[y] \in 0 .. n /\ u.list[u.index[y] + 1].fd = y[1]
                /\ y[2] \in u.list[u.index[y] + 1].events
           ELSE u.index[y] = Invalid
      /\ \A y \in Events :
           u.active[y] = TRUE /\ u.active[Other(y)] = TRUE => u.index[y] = u.index[Other(y)]
  <2>1. Len(u.list) \in Nat
    BY LenProperties DEF Tables
  <2>2. n + 1 = Len(u.list)
    BY <2>1
  <2> QED
    BY <2>2 DEF PollInv
<1>2. /\ u.active \in [Events -> BOOLEAN] /\ u.index \in [Events -> Nat \cup {Invalid}]
      /\ u.list \in Seq(PollEntries) /\ n + 1 = Len(u.list) /\ n \in Nat
      /\ \A j \in 1 .. n + 1 : u.list[j] \in PollEntries
  <2>1. u.list \in Seq(PollEntries) /\ Len(u.list) \in Nat
    BY LenProperties DEF Tables
  <2>2. u.index[x] \in 0 .. Len(u.list) - 1
    BY DEF PollInv
  <2>3. n \in Nat /\ n + 1 = Len(u.list)
    BY <2>1, <2>2
  <2> QED
    BY <2>1, <2>3 DEF Tables
<1>3. o \in Events /\ o # x /\ o[1] = x[1] /\ Other(o) = x /\ x[1] \in Fds /\ x[2] \in Sides
      /\ x = <<x[1], x[2]>> /\ \A y \in Events : y[1] = x[1] => y = x \/ y = o
  BY EventIs
<1>4. /\ i \in 0 .. n /\ i \in Nat /\ i # Invalid /\ u.list[i + 1].fd = x[1]
      /\ x[2] \in u.list[i + 1].events /\ i + 1 \in 1 .. n + 1
  BY <1>1, <1>2 DEF Invalid
<1>5. CASE e # Invalid
  <2>1. u.active[o] = TRUE /\ e = i
    BY <1>1, <1>3, <1>5
  <2> DEFINE new == [fd |-> x[1], events |-> u.list[e + 1].events \ {x[2]}]
  <2>2. /\ new \in PollEntries /\ [u.list EXCEPT ![e + 1] = new] \in Seq(PollEntries)
        /\ new = [u.list[e + 1] EXCEPT !.events = @ \ {x[2]}]
    <3>1. u.list[e + 1] \in PollEntries
      BY <1>2, <1>4, <2>1
    <3>2. ASSUME NEW w \in PollEntries, w.fd = x[1]
          PROVE  LET z == [fd |-> x[1], events |-> w.events \ {x[2]}] IN
                 z \in PollEntries /\ z = [w EXCEPT !.events = @ \ {x[2]}]
      <4> HIDE DEF new, e, o, v, n, i
      <4> QED
        BY <1>3, <3>2 DEF PollEntries
    <3>3. new \in PollEntries /\ new = [u.list[e + 1] EXCEPT !.events = @ \ {x[2]}]
      BY <1>4, <2>1, <3>1, <3>2
    <3> QED
      BY <1>2, <1>4, <2>1, <3>3, ExceptSeq
  <2>3. v = [u EXCEPT !.active = [@ EXCEPT ![x] = FALSE], !.index = [@ EXCEPT ![x] = Invalid],
                      !.list = [@ EXCEPT ![e + 1] = new]]
    BY <1>4, <1>5, <2>2 DEF PollDel, Tables
  <2> HIDE DEF v, new
  <2>4. /\ v \in Tables(PollEntries)
        /\ v.active = [u.active EXCEPT ![x] = FALSE] /\ v.disabled = u.disabled
        /\ v.mislaid = u.mislaid /\ v.index = [u.index EXCEPT ![x] = Invalid]
        /\ v.list = [u.list EXCEPT ![e + 1] = new]
    BY <1>2, <2>1, <2>2, <2>3 DEF Tables
  <2>5. /\ Len(v.list) = n + 1 /\ v.list[i + 1] = new
        /\ \A j \in 1 .. n + 1 : j # i + 1 => v.list[j] = u.list[j]
    BY <1>2, <1>4, <2>1, <2>2, <2>4, ExceptSeq
  <2>6. \A y \in Events : y # x => v.active[y] = u.active[y] /\ v.index[y] = u.index[y]
    BY <1>2, <2>4
  <2>7. /\ v.active[x] = FALSE /\ v.index[x] = Invalid /\ new.fd = x[1]
        /\ new.events = u.list[i + 1].events \ {x[2]}
    BY <1>2, <2>1, <2>4 DEF new
  <2> HIDE DEF n, e, o, i
  <2>8. ASSUME NEW j \in 1 .. Len(v.list), NEW s \in v.list[j].events
        PROVE  v.active[<<v.list[j].fd, s>>] = TRUE /\ v.index[<<v.list[j].fd, s>>] = j - 1
    <3>0. j \in 1 .. n + 1 /\ v.list[j].fd = u.list[j].fd
      BY <1>4, <2>5, <2>7
    <3>1. u.list[j].fd \in Fds /\ s \in u.list[j].events /\ s \in Sides
      BY <1>2, <2>5, <2>7, <3>0 DEF PollEntries
    <3>2. <<u.list[j].fd, s>> \in Events
      BY <3>1 DEF Events
    <3>3. u.active[<<u.list[j].fd, s>>] = TRUE /\ u.index[<<u.list[j].fd, s>>] = j - 1
      BY <1>1, <3>0, <3>1
    <3>4. <<u.list[j].fd, s>> # x
      <4>1. CASE j = i + 1
        BY <1>3, <2>5, <2>7, <4>1
      <4>2. CASE j # i + 1
        BY <1>4, <3>0, <3>3, <4>2 DEF i
      <4> QED
        BY <4>1, <4>2
    <3> QED
      BY <2>6, <3>0, <3>2, <3>3, <3>4
  <2>9. ASSUME NEW y \in Events
        PROVE  IF v.active[y] = TRUE
               THEN /\ v.index[y] \in 0 .. Len(v.list) - 1 /\ v.list[v.index[y] + 1].fd = y[1]
                    /\ y[2] \in v.list[v.index[y] + 1].events
               ELSE v.index[y] = Invalid
    <3>1. CASE y = x
      BY <2>7, <3>1
    <3>2. CASE y # x
      <4>1. v.active[y] = u.active[y] /\ v.index[y] = u.index[y]
        BY <2>6, <3>2
      <4>2. CASE u.active[y] = TRUE
        <5>1. /\ u.index[y] \in 0 .. n /\ u.list[u.index[y] + 1].fd = y[1]
              /\ y[2] \in u.list[u.index[y] + 1].events
          BY <1>1, <4>2
        <5>2. u.index[y] + 1 \in 1 .. n + 1
          BY <1>2, <5>1
        <5>3. y = <<y[1], y[2]>>
          BY EventIs
        <5>4. u.index[y] + 1 = i + 1 => y[2] # x[2]
          BY <1>3, <1>4, <3>2, <5>1, <5>3
        <5>5. /\ v.list[u.index[y] + 1].fd = u.list[u.index[y] + 1].fd
              /\ y[2] \in v.list[u.index[y] + 1].events
          BY <1>4, <2>5, <2>7, <5>1, <5>2, <5>4
        <5>6. u.index[y] \in 0 .. Len(v.list) - 1
          BY <1>2, <2>5, <5>1
        <5> QED
          BY <4>1, <4>2, <5>1, <5>5, <5>6
      <4> QED
        BY <1>1, <4>1, <4>2
    <3> QED
      BY <3>1, <3>2
  <2>10. ASSUME NEW y \in Events, v.active[y] = TRUE, v.active[Other(y)] = TRUE
         PROVE  v.index[y] = v.index[Other(y)]
    <3>1. y # x /\ Other(y) # x
      BY <2>7, <2>10
    <3> QED
      BY <1>1, <2>6, <2>10, <3>1, EventIs
  <2> QED
    BY <2>4, <2>8, <2>9, <2>10 DEF PollInv, v
<1>6. CASE e = Invalid
  <2>1. u.active[o] = FALSE /\ u.list[i + 1].events \subseteq {x[2]}
    <3>1. u.active[o] = FALSE
      BY <1>1, <1>2, <1>3, <1>6 DEF Invalid
    <3>2. ASSUME NEW s \in u.list[i + 1].events PROVE s = x[2]
      <4>1. u.active[<<x[1], s>>] = TRUE
        BY <1>1, <1>4, <3>2
      <4>2. u.list[i + 1] \in PollEntries
        BY <1>2, <1>4
      <4>3. s \in Sides
        BY <4>2, <3>2 DEF PollEntries
      <4>4. <<x[1], s>> \in Events /\ <<x[1], s>>[1] = x[1] /\ <<x[1], s>>[2] = s
        BY <1>3, <4>3 DEF Events
      <4> QED
        BY <1>3, <3>1, <4>1, <4>4
    <3> QED
      BY <3>1, <3>2
  <2> DEFINE last == u.list[n + 1]
  <2>2. v = [ u EXCEPT !.active = [@ EXCEPT ![x] = FALSE],
                !.index = [y \in Events |-> IF y = x THEN Invalid
                             ELSE IF i # n /\ y[1] = last.fd /\ conn[y[1]].open /\ u.index[y] = n
                                  THEN i ELSE u.index[y]],
                !.list = IF i = n THEN Front(@) ELSE Swap(@, i) ]
    <3>1. last = u.list[Len(u.list) - 1 + 1]
      OBVIOUS
    <3>2. CASE i = n
      <4>1. v = [ u EXCEPT !.active = [@ EXCEPT ![x] = FALSE], !.index = [@ EXCEPT ![x] = Invalid],
                    !.list = Front(@) ]
        BY <1>4, <1>6, <3>2 DEF PollDel, Tables
      <4>2. [u.index EXCEPT ![x] = Invalid] =
              [y \in Events |-> IF y = x THEN Invalid ELSE u.index[y]]
        BY <1>2
      <4> HIDE DEF v, n, i
      <4> QED
        BY <3>2, <4>1, <4>2
    <3>3. CASE i # n
      BY <1>4, <1>6, <3>3 DEF PollDel, Tables, Moved
    <3> QED
      BY <3>2, <3>3
  <2>3. /\ Len(v.list) = n /\ v.list \in Seq(PollEntries)
        /\ \A j \in 1 .. n : v.list[j] = IF j = i + 1 THEN last ELSE u.list[j]
    <3>1. v.list = IF i = n THEN Front(u.list) ELSE Swap(u.list, i)
      BY <2>2 DEF Tables
    <3>2. CASE i = n
      BY <1>2, <1>4, <3>1, <3>2, FrontIs
    <3>3. CASE i # n
      <4>1. i \in Nat /\ i < Len(u.list) - 1
        BY <1>2, <1>4, <3>3
      <4>2. /\ Swap(u.list, i) \in Seq(PollEntries) /\ Len(Swap(u.list, i)) = Len(u.list) - 1
            /\ \A k \in 1 .. Len(u.list) - 1 :
                 Swap(u.list, i)[k] = IF k = i + 1 THEN u.list[Len(u.list)] ELSE u.list[k]
        BY <1>2, <4>1, SwapIs
      <4>3. Len(u.list) - 1 = n /\ u.list[Len(u.list)] = last
        BY <1>2
      <4> HIDE DEF v, n, i, last
      <4> QED
        BY <3>1, <3>3, <4>2, <4>3
    <3> QED
      BY <3>2, <3>3
  <2>4. \A y \in Events : u.index[y] = n => y[1] = last.fd /\ conn[y[1]].open = TRUE
    <3> SUFFICES ASSUME NEW y \in Events, u.index[y] = n
                 PROVE  y[1] = last.fd /\ conn[y[1]].open = TRUE
      OBVIOUS
    <3>1. u.active[y] = TRUE
      BY <1>1, <1>2 DEF Invalid
    <3> QED
      BY <1>1, <3>1 DEF OnlyOpen
  <2>5. /\ v.active = [u.active EXCEPT ![x] = FALSE] /\ v.disabled = u.disabled
        /\ v.mislaid = u.mislaid /\ v.kernel = u.kernel /\ v.max_fd = u.max_fd
    BY <2>2 DEF Tables
  <2>6. /\ v.index \in [Events -> Nat \cup {Invalid}] /\ v.index[x] = Invalid
        /\ \A y \in Events : y # x =>
             v.index[y] = IF i # n /\ u.index[y] = n THEN i ELSE u.index[y]
    <3>1. v.index = [y \in Events |-> IF y = x THEN Invalid
                       ELSE IF i # n /\ y[1] = last.fd /\ conn[y[1]].open /\ u.index[y] = n
                            THEN i ELSE u.index[y]]
      BY <2>2 DEF Tables
    <3> HIDE DEF v, n, i
    <3> QED
      BY <1>2, <1>4, <2>4, <3>1
  <2>7. v \in Tables(PollEntries)
    <3>1. v = [ active |-> v.active, disabled |-> v.disabled, index |-> v.index, list |-> v.list,
                kernel |-> v.kernel, max_fd |-> v.max_fd, mislaid |-> v.mislaid ]
      BY <2>2 DEF Tables
    <3>2. /\ v.active \in [Events -> BOOLEAN] /\ v.disabled \in [Events -> BOOLEAN]
          /\ v.kernel \in [Events -> {Off, 0, 1}] /\ v.max_fd \in Nat \cup {-1}
          /\ v.mislaid \in SUBSET Events
      BY <2>5 DEF Tables
    <3> HIDE DEF v
    <3> QED
      BY <2>3, <2>6, <3>1, <3>2 DEF Tables
  <2>0. u.index[x] = i
    OBVIOUS
  <2> HIDE DEF v, n, e, o, i, last
  <2>8. \A y \in Events : y # x => v.active[y] = u.active[y]
    BY <1>2, <2>5
  <2>9. v.active[x] = FALSE
    BY <1>2, <2>5
  <2>10. \A y \in Events : y # x => u.index[y] # i
    <3> SUFFICES ASSUME NEW y \in Events, y # x, u.index[y] = i PROVE FALSE
      OBVIOUS
    <3>1. u.active[y] = TRUE
      BY <1>1, <1>4
    <3>2. y[1] = x[1] /\ y[2] = x[2]
      BY <1>1, <1>4, <2>1, <3>1
    <3> QED
      BY <1>3, <3>2, EventIs
  <2>11. ASSUME NEW j \in 1 .. n, NEW s \in v.list[j].events
         PROVE  v.active[<<v.list[j].fd, s>>] = TRUE /\ v.index[<<v.list[j].fd, s>>] = j - 1
    <3>1. PICK k \in 1 .. n + 1 : /\ v.list[j] = u.list[k] /\ k # i + 1
                                  /\ k = IF j = i + 1 THEN n + 1 ELSE j
      <4>1. CASE j = i + 1
        BY <1>2, <1>4, <2>3, <4>1 DEF last
      <4>2. CASE j # i + 1
        BY <1>2, <1>4, <2>3, <4>2
      <4> QED
        BY <4>1, <4>2
    <3> DEFINE y == <<u.list[k].fd, s>>
    <3>2. u.active[y] = TRUE /\ u.index[y] = k - 1 /\ y \in Events
      <4>1. u.list[k] \in PollEntries
        BY <1>2
      <4> QED
        BY <1>1, <3>1, <4>1 DEF PollEntries, Events
    <3>3. y # x
      BY <1>4, <2>0, <3>1, <3>2
    <3> HIDE DEF y
    <3>4. v.active[y] = TRUE /\ v.index[y] = j - 1
      <4>1. v.active[y] = TRUE /\ v.index[y] = IF i # n /\ u.index[y] = n THEN i ELSE u.index[y]
        BY <2>6, <2>8, <3>2, <3>3
      <4>2. CASE j = i + 1
        <5>1. i # n /\ u.index[y] = n
          BY <1>2, <1>4, <3>1, <3>2, <4>2
        <5> QED
          BY <1>4, <4>1, <4>2, <5>1
      <4>3. CASE j # i + 1
        <5>1. u.index[y] = j - 1 /\ j - 1 # n
          BY <1>2, <3>1, <3>2, <4>3
        <5> QED
          BY <4>1, <5>1
      <4> QED
        BY <4>2, <4>3
    <3> QED
      BY <3>1, <3>4 DEF y
  <2>12. ASSUME NEW y \in Events
         PROVE  IF v.active[y] = TRUE
                THEN /\ v.index[y] \in 0 .. n - 1 /\ v.list[v.index[y] + 1].fd = y[1]
                     /\ y[2] \in v.list[v.index[y] + 1].events
                ELSE v.index[y] = Invalid
    <3>1. CASE y = x
      BY <2>6, <2>9, <3>1
    <3>2. CASE y # x /\ u.active[y] = TRUE
      <4>1. /\ u.index[y] \in 0 .. n /\ u.list[u.index[y] + 1].fd = y[1]
            /\ y[2] \in u.list[u.index[y] + 1].events /\ u.index[y] # i
        BY <1>1, <2>10, <3>2
      <4>2. CASE u.index[y] = n
        <5>1. v.index[y] = i /\ i \in 0 .. n - 1 /\ i + 1 \in 1 .. n
          BY <1>2, <1>4, <2>6, <3>2, <4>1, <4>2
        <5>2. v.list[i + 1] = last
          BY <2>3, <5>1
        <5> QED
          BY <2>8, <3>2, <4>1, <4>2, <5>1, <5>2 DEF last
      <4>3. CASE u.index[y] # n
        <5>1. /\ v.index[y] = u.index[y] /\ u.index[y] \in 0 .. n - 1
              /\ u.index[y] + 1 \in 1 .. n /\ u.index[y] + 1 # i + 1
          BY <1>2, <1>4, <2>6, <3>2, <4>1, <4>3
        <5>2. v.list[u.index[y] + 1] = u.list[u.index[y] + 1]
          BY <2>3, <5>1
        <5> QED
          BY <2>8, <3>2, <4>1, <5>1, <5>2
      <4> QED
        BY <4>2, <4>3
    <3>3. CASE y # x /\ u.active[y] # TRUE
      <4>1. u.index[y] = Invalid
        BY <1>1, <3>3
      <4>2. v.index[y] = Invalid
        BY <1>2, <2>6, <3>3, <4>1 DEF Invalid
      <4>3. v.active[y] # TRUE
        BY <2>8, <3>3
      <4> QED
        BY <4>2, <4>3
    <3> QED
      BY <3>1, <3>2, <3>3
  <2>13. ASSUME NEW y \in Events, v.active[y] = TRUE, v.active[Other(y)] = TRUE
         PROVE  v.index[y] = v.index[Other(y)]
    <3>1. y # x /\ Other(y) # x
      BY <2>9, <2>13
    <3>2. u.index[y] = u.index[Other(y)]
      BY <1>1, <2>8, <2>13, <3>1, EventIs
    <3> QED
      BY <2>6, <3>1, <3>2, EventIs
  <2> QED
    BY <2>3, <2>5, <2>7, <2>11, <2>12, <2>13 DEF PollInv, v
<1> QED
  BY <1>5, <1>6

LEMMA PollWatches ==
  ASSUME t \in Tables(PollEntries), PollInv(t), OnlyOpen(t, conn), m = "poll", t.mislaid = {}
  PROVE  Watched(Entered) \subseteq Active /\ WatchedAreActive
<1>1. /\ Entered = t /\ t.list \in Seq(PollEntries)
      /\ \A k \in 1 .. Len(t.list) : t.list[k] \in PollEntries
      /\ ToSet(t.list) = {t.list[k] : k \in 1 .. Len(t.list)} /\ Len(t.list) \in Nat
  BY LenProperties DEF Entered, Tables, ToSet
<1>2. Watched(t) = UNION {{e.fd} \X e.events : e \in ToSet(t.list)}
  BY DEF Watched
<1>3. ASSUME NEW x \in Watched(t) PROVE x \in Active
  <2>1. PICK k \in 1 .. Len(t.list) : x \in {t.list[k].fd} \X t.list[k].events
    BY <1>1, <1>2
  <2>2. x = <<t.list[k].fd, x[2]>> /\ x[2] \in t.list[k].events
    BY <2>1
  <2>3. t.active[x] = TRUE
    BY <2>2 DEF PollInv
  <2>4. x \in Events
    BY <1>1, <2>2 DEF PollEntries, Events
  <2> QED
    BY <2>3, <2>4 DEF Active, OnlyOpen
<1>4. ASSUME NEW x \in Active
      PROVE  /\ x \in Watched(t) /\ t.index[x] \in 0 .. Len(t.list) - 1
             /\ t.list[t.index[x] + 1].fd = x[1]
  <2>1. x \in Events /\ t.active[x] = TRUE
    BY DEF Active, Tables
  <2>2. /\ t.index[x] \in 0 .. Len(t.list) - 1 /\ t.list[t.index[x] + 1].fd = x[1]
        /\ x[2] \in t.list[t.index[x] + 1].events
    BY <2>1 DEF PollInv
  <2>3. t.index[x] + 1 \in 1 .. Len(t.list)
    BY <1>1, <2>2
  <2>4. x \in {t.list[t.index[x] + 1].fd} \X t.list[t.index[x] + 1].events
    BY <2>1, <2>2, EventIs
  <2>5. t.list[t.index[x] + 1] \in ToSet(t.list)
    BY <1>1, <2>3
  <2> QED
    BY <1>2, <2>2, <2>4, <2>5
<1> QED
  BY <1>1, <1>3, <1>4 DEF WatchedAreActive

-----------------------------------------------------------------------------
(* epoll.                                                                  *)

LEMMA EpollAddKeeps ==
  ASSUME NEW u \in Tables({}), EpollInv(u, conn), conn \in Conns, NEW x \in Events,
         u.active[x] = FALSE
  PROVE  /\ EpollAdd(u, x) \in Tables({}) /\ EpollInv(EpollAdd(u, x), conn)
         /\ EpollAdd(u, x).active = [u.active EXCEPT ![x] = TRUE]
         /\ EpollAdd(u, x).disabled = u.disabled /\ EpollAdd(u, x).mislaid = u.mislaid
<1> DEFINE v == EpollAdd(u, x)
           k == [y \in Events |-> IF y = x \/ (y = Other(x) /\ u.active[y])
                                  THEN conn[x[1]].instance ELSE u.kernel[y]]
<1>1. u.kernel \in [Events -> {Off, 0, 1}] /\ u.active \in [Events -> BOOLEAN]
  BY DEF Tables
<1>2. conn[x[1]].instance \in {0, 1} /\ Other(x)[1] = x[1]
  BY EventIs DEF Conns
<1>3. k \in [Events -> {Off, 0, 1}]
  BY <1>1, <1>2
<1>4. v = [u EXCEPT !.active = [@ EXCEPT ![x] = TRUE], !.kernel = k]
  BY DEF EpollAdd, Tables
<1> HIDE DEF v, k
<1>5. /\ v \in Tables({}) /\ v.active = [u.active EXCEPT ![x] = TRUE]
      /\ v.disabled = u.disabled /\ v.mislaid = u.mislaid /\ v.kernel = k
  BY <1>1, <1>3, <1>4 DEF Tables
<1>6. EpollInv(v, conn)
  BY <1>1, <1>2, <1>5 DEF EpollInv, k
<1> QED
  BY <1>5, <1>6 DEF v

LEMMA EpollDelKeeps ==
  ASSUME NEW u \in Tables({}), EpollInv(u, conn), NEW x \in Events
  PROVE  /\ EpollDel(u, x, FALSE) \in Tables({}) /\ EpollInv(EpollDel(u, x, FALSE), conn)
         /\ EpollDel(u, x, FALSE).active = [u.active EXCEPT ![x] = FALSE]
         /\ EpollDel(u, x, FALSE).disabled = u.disabled
         /\ EpollDel(u, x, FALSE).mislaid = u.mislaid
<1> DEFINE v == EpollDel(u, x, FALSE)
<1>1. v = [u EXCEPT !.active = [@ EXCEPT ![x] = FALSE], !.kernel = [@ EXCEPT ![x] = Off]]
  BY DEF EpollDel, Tables
<1> HIDE DEF v
<1>2. /\ v \in Tables({}) /\ v.active = [u.active EXCEPT ![x] = FALSE]
      /\ v.disabled = u.disabled /\ v.mislaid = u.mislaid
      /\ v.kernel = [u.kernel EXCEPT ![x] = Off]
  BY <1>1 DEF Tables
<1>3. EpollInv(v, conn)
  BY <1>2 DEF EpollInv, Tables
<1> QED
  BY <1>2, <1>3 DEF v

LEMMA EpollClosed ==
  ASSUME NEW u \in Tables({}), NEW x \in Events
  PROVE  /\ EpollDel(u, x, TRUE) \in Tables({})
         /\ EpollDel(u, x, TRUE).active = [u.active EXCEPT ![x] = FALSE]
         /\ EpollDel(u, x, TRUE).kernel = u.kernel
         /\ EpollDel(u, x, TRUE).disabled = u.disabled
         /\ EpollDel(u, x, TRUE).mislaid = u.mislaid
<1> DEFINE v == EpollDel(u, x, TRUE)
<1>1. v = [u EXCEPT !.active = [@ EXCEPT ![x] = FALSE], !.kernel = [@ EXCEPT ![x] = u.kernel[x]]]
  BY DEF EpollDel, Tables
<1> HIDE DEF v
<1>2. [u.kernel EXCEPT ![x] = u.kernel[x]] = u.kernel
  BY DEF Tables
<1>3. /\ v \in Tables({}) /\ v.active = [u.active EXCEPT ![x] = FALSE]
      /\ v.disabled = u.disabled /\ v.mislaid = u.mislaid /\ v.kernel = u.kernel
  BY <1>1, <1>2 DEF Tables
<1> QED
  BY <1>3 DEF v

LEMMA EpollWatches ==
  ASSUME t \in Tables({}), EpollInv(t, conn), OnlyOpen(t, conn), m = "epoll", conn \in Conns,
         t.mislaid = {}
  PROVE  /\ Watched(Entered) \subseteq Active /\ WatchedAreActive
         /\ \A x \in Watched(Entered) : Entered.kernel[x] = conn[x[1]].instance
<1>1. Entered = t /\ Watched(t) = {x \in Events : t.kernel[x] # Off}
  BY DEF Entered, Watched
<1>2. ASSUME NEW x \in Events
      PROVE  /\ t.kernel[x] # Off <=> x \in Active
             /\ x \in Active => t.kernel[x] = conn[x[1]].instance
  <2>1. conn[x[1]].instance \in {0, 1} /\ t.active[x] \in BOOLEAN
    BY EventIs DEF Conns, Tables
  <2> QED
    BY <2>1 DEF EpollInv, OnlyOpen, Active, Off
<1> QED
  BY <1>1, <1>2 DEF WatchedAreActive, Active

-----------------------------------------------------------------------------
(* /dev/poll: what the kernel will have once the changes are written.      *)

ChangesOf(list, y) == {i \in DOMAIN list : list[i].fd = y[1] /\ list[i].events \in {"remove", y[2]}}
LEMMA WrittenIs ==
  ASSUME NEW kernel, NEW list, NEW y \in Events
  PROVE  DevpollWritten(kernel, list)[y] =
           IF ChangesOf(list, y) = {} THEN kernel[y]
           ELSE IF list[Max(ChangesOf(list, y))].events = "remove" THEN Off ELSE 0
BY DEF DevpollWritten, ChangesOf

LEMMA WrittenLast ==
  ASSUME NEW kernel, NEW list \in Seq(DevpollChanges), NEW ch \in DevpollChanges, NEW y \in Events
  PROVE  DevpollWritten(kernel, Append(list, ch))[y] =
           IF ch.fd = y[1] /\ ch.events \in {"remove", y[2]}
           THEN IF ch.events = "remove" THEN Off ELSE 0
           ELSE DevpollWritten(kernel, list)[y]
<1> DEFINE n == Len(list)
           more == Append(list, ch)
<1>1. /\ n \in Nat /\ DOMAIN list = 1 .. n /\ DOMAIN more = 1 .. n + 1 /\ more[n + 1] = ch
      /\ \A i \in 1 .. n : more[i] = list[i]
  BY LenProperties, AppendProperties
<1> HIDE DEF n, more
<1>2. CASE ch.fd = y[1] /\ ch.events \in {"remove", y[2]}
  <2>1. n + 1 \in ChangesOf(more, y) /\ ChangesOf(more, y) \subseteq 1 .. n + 1
    BY <1>1, <1>2 DEF ChangesOf
  <2>2. Max(ChangesOf(more, y)) = n + 1
    <3>1. Max(ChangesOf(more, y)) \in ChangesOf(more, y) /\ n + 1 <= Max(ChangesOf(more, y))
      BY <1>1, <2>1, GreatestIs
    <3> QED
      BY <1>1, <2>1, <3>1
  <2> QED
    <3>1. DevpollWritten(kernel, more)[y] =
            IF ChangesOf(more, y) = {} THEN kernel[y]
            ELSE IF more[Max(ChangesOf(more, y))].events = "remove" THEN Off ELSE 0
      BY WrittenIs, Zenon
    <3> QED
      BY <1>1, <1>2, <2>1, <2>2, <3>1 DEF more
<1>3. CASE ~(ch.fd = y[1] /\ ch.events \in {"remove", y[2]})
  <2>1. ChangesOf(more, y) = ChangesOf(list, y) /\ ChangesOf(list, y) \subseteq 1 .. n
    <3>1. \A i \in 1 .. n + 1 : i = n + 1 \/ i \in 1 .. n
      BY <1>1
    <3>2. \A i \in 1 .. n : i \in 1 .. n + 1
      BY <1>1
    <3> QED
      BY <1>1, <1>3, <3>1, <3>2 DEF ChangesOf
  <2>2. ChangesOf(list, y) # {} => more[Max(ChangesOf(list, y))] = list[Max(ChangesOf(list, y))]
    BY <1>1, <2>1, GreatestIs
  <2> QED
    <3>1. /\ DevpollWritten(kernel, more)[y] =
               IF ChangesOf(more, y) = {} THEN kernel[y]
               ELSE IF more[Max(ChangesOf(more, y))].events = "remove" THEN Off ELSE 0
          /\ DevpollWritten(kernel, list)[y] =
               IF ChangesOf(list, y) = {} THEN kernel[y]
               ELSE IF list[Max(ChangesOf(list, y))].events = "remove" THEN Off ELSE 0
      BY WrittenIs, Zenon
    <3> QED
      BY <1>3, <2>1, <2>2, <3>1 DEF more
<1> QED
  BY <1>2, <1>3

LEMMA WrittenNone ==
  ASSUME NEW kernel \in [Events -> {Off, 0, 1}]
  PROVE  DevpollWritten(kernel, <<>>) = kernel
<1>1. \A y \in Events : ChangesOf(<<>>, y) = {}
  BY DEF ChangesOf
<1>2. \A y \in Events : DevpollWritten(kernel, <<>>)[y] = kernel[y]
  BY <1>1, WrittenIs
<1>3. DevpollWritten(kernel, <<>>) = [y \in Events |-> DevpollWritten(kernel, <<>>)[y]]
  BY DEF DevpollWritten
<1> QED
  BY <1>2, <1>3

V(u) == DevpollWritten(u.kernel, u.list)
LEMMA WrittenTyped ==
  ASSUME NEW u \in Tables(DevpollChanges)
  PROVE  V(u) \in [Events -> {Off, 0, 1}]
<1>1. \A y \in Events : V(u)[y] \in {Off, 0, 1}
  BY WrittenIs DEF V, Tables
<1>2. V(u) = [y \in Events |-> V(u)[y]]
  BY DEF V, DevpollWritten
<1> QED
  BY <1>1, <1>2

\* The parts of u that the changes leave alone.
Beside(u) == <<u.active, u.disabled, u.mislaid>>
LEMMA DevpollPassed ==
  ASSUME m = "devpoll", NEW u \in Tables(DevpollChanges), u.mislaid = {}
  PROVE  /\ Passed(u) \in Tables(DevpollChanges) /\ Passed(u).list = <<>>
         /\ Passed(u).kernel = V(u) /\ V(Passed(u)) = V(u)
         /\ Beside(Passed(u)) = Beside(u)
<1> DEFINE v == [u EXCEPT !.kernel = V(u), !.list = <<>>]
<1>1. /\ v \in Tables(DevpollChanges) /\ v.list = <<>> /\ v.kernel = V(u)
      /\ v.active = u.active /\ v.disabled = u.disabled /\ v.mislaid = {}
  <2>1. V(u) \in [Events -> {Off, 0, 1}] /\ <<>> \in Seq(DevpollChanges)
    BY WrittenTyped
  <2> QED
    BY <2>1 DEF Tables
<1>2. Passed(u) = [v EXCEPT !.mislaid = {x \in @ : v.kernel[x] # Told(v, x)}]
  BY DEF Passed, V
<1> HIDE DEF v
<1>3. Passed(u) = v
  BY <1>1, <1>2 DEF Tables
<1>4. V(v) = V(u)
  BY <1>1, WrittenNone, WrittenTyped DEF V
<1> QED
  BY <1>1, <1>3, <1>4 DEF Beside

LEMMA DevpollChanged ==
  ASSUME m = "devpoll", MaxChanges \in Nat \ {0}, NEW u \in Tables(DevpollChanges),
         u.mislaid = {}, Len(u.list) <= MaxChanges, NEW ch \in DevpollChanges
  PROVE  /\ Changed(u, ch) \in Tables(DevpollChanges) /\ Len(Changed(u, ch).list) <= MaxChanges
         /\ Beside(Changed(u, ch)) = Beside(u)
         /\ \A y \in Events : V(Changed(u, ch))[y] =
              IF ch.fd = y[1] /\ ch.events \in {"remove", y[2]}
              THEN IF ch.events = "remove" THEN Off ELSE 0 ELSE V(u)[y]
<1> DEFINE w == IF Len(u.list) >= MaxChanges THEN Passed(u) ELSE u
           v == Changed(u, ch)
<1>1. /\ w \in Tables(DevpollChanges) /\ V(w) = V(u) /\ Beside(w) = Beside(u)
      /\ Len(w.list) + 1 <= MaxChanges
  <2>1. CASE Len(u.list) >= MaxChanges
    BY <2>1, DevpollPassed
  <2>2. CASE ~(Len(u.list) >= MaxChanges)
    <3>1. Len(u.list) \in Nat
      BY LenProperties DEF Tables
    <3> QED
      BY <2>2, <3>1
  <2> QED
    BY <2>1, <2>2
<1>2. v = [w EXCEPT !.list = Append(@, ch)]
  BY DEF Changed
<1> HIDE DEF w, v
<1>3. w.list \in Seq(DevpollChanges) /\ Append(w.list, ch) \in Seq(DevpollChanges)
  BY <1>1 DEF Tables
<1>4. /\ v \in Tables(DevpollChanges) /\ v.list = Append(w.list, ch) /\ v.kernel = w.kernel
      /\ v.active = w.active /\ v.disabled = w.disabled /\ v.mislaid = w.mislaid
  BY <1>1, <1>2, <1>3 DEF Tables
<1>5. Len(v.list) <= MaxChanges
  BY <1>1, <1>3, <1>4, AppendProperties
<1>6. \A y \in Events : V(v)[y] =
        IF ch.fd = y[1] /\ ch.events \in {"remove", y[2]}
        THEN IF ch.events = "remove" THEN Off ELSE 0 ELSE V(w)[y]
  <2>1. V(v) = DevpollWritten(w.kernel, Append(w.list, ch))
    BY <1>4 DEF V
  <2>2. V(w) = DevpollWritten(w.kernel, w.list)
    BY DEF V
  <2>3. ASSUME NEW y \in Events
        PROVE  DevpollWritten(w.kernel, Append(w.list, ch))[y] =
                 IF ch.fd = y[1] /\ ch.events \in {"remove", y[2]}
                 THEN IF ch.events = "remove" THEN Off ELSE 0
                 ELSE DevpollWritten(w.kernel, w.list)[y]
    <3>1. w.list \in Seq(DevpollChanges) /\ ch \in DevpollChanges /\ y \in Events
      BY <1>3
    <3> DEFINE k == w.kernel
               l == w.list
    <3> HIDE DEF k, l
    <3>2. l \in Seq(DevpollChanges)
      BY <3>1 DEF l
    <3>3. DevpollWritten(k, Append(l, ch))[y] =
            IF ch.fd = y[1] /\ ch.events \in {"remove", y[2]}
            THEN IF ch.events = "remove" THEN Off ELSE 0 ELSE DevpollWritten(k, l)[y]
      BY <3>1, <3>2, WrittenLast
    <3> QED
      BY <3>3 DEF k, l
  <2> QED
    BY <2>1, <2>2, <2>3
<1> QED
  BY <1>1, <1>4, <1>5, <1>6 DEF Beside, v

LEMMA DevpollAddKeeps ==
  ASSUME m = "devpoll", MaxChanges \in Nat \ {0}, NEW u \in Tables(DevpollChanges),
         u.mislaid = {}, DevpollInv(u), NEW x \in Events
  PROVE  /\ DevpollAdd(u, x) \in Tables(DevpollChanges) /\ DevpollInv(DevpollAdd(u, x))
         /\ DevpollAdd(u, x).active = [u.active EXCEPT ![x] = TRUE]
         /\ DevpollAdd(u, x).disabled = u.disabled /\ DevpollAdd(u, x).mislaid = {}
<1> DEFINE w == [u EXCEPT !.active[x] = TRUE]
           v == DevpollAdd(u, x)
<1>1. /\ w \in Tables(DevpollChanges) /\ w.list = u.list /\ w.kernel = u.kernel
      /\ w.active = [u.active EXCEPT ![x] = TRUE] /\ w.disabled = u.disabled /\ w.mislaid = {}
  BY DEF Tables
<1>2. Change(x) \in DevpollChanges /\ Change(x).fd = x[1] /\ Change(x).events = x[2]
      /\ x[2] # "remove"
  BY EventIs DEF Change, DevpollChanges, Sides
<1>3. v = Changed(w, Change(x))
  BY DEF DevpollAdd
<1>4. Len(w.list) <= MaxChanges /\ V(w) = V(u)
  BY <1>1 DEF DevpollInv, V
<1> HIDE DEF w, v
<1>5. /\ v \in Tables(DevpollChanges) /\ Len(v.list) <= MaxChanges /\ Beside(v) = Beside(w)
      /\ \A y \in Events : V(v)[y] =
           IF x[1] = y[1] /\ x[2] \in {"remove", y[2]}
           THEN IF x[2] = "remove" THEN Off ELSE 0 ELSE V(w)[y]
  BY <1>1, <1>2, <1>3, <1>4, DevpollChanged
<1>6. v.active = [u.active EXCEPT ![x] = TRUE] /\ v.disabled = u.disabled /\ v.mislaid = {}
  BY <1>1, <1>5 DEF Beside
<1>7. ASSUME NEW y \in Events, v.active[y] = TRUE PROVE V(v)[y] # Off
  <2>1. CASE y = x
    BY <1>2, <1>5, <2>1 DEF Off
  <2>2. CASE y # x
    <3>1. u.active[y] = TRUE
      BY <1>6, <1>7, <2>2 DEF Tables
    <3>2. V(u)[y] # Off
      BY <3>1 DEF DevpollInv, V
    <3> QED
      BY <1>2, <1>4, <1>5, <3>2 DEF Off
  <2> QED
    BY <2>1, <2>2
<1> QED
  BY <1>5, <1>6, <1>7 DEF DevpollInv, V, v

\* What a deletion does to the events of other descriptors: nothing.
DevpollLeft(u, x, closing, v) ==
  /\ v \in Tables(DevpollChanges) /\ Len(v.list) <= MaxChanges
  /\ v.active = [u.active EXCEPT ![x] = FALSE]
  /\ v.disabled = u.disabled /\ v.mislaid = {}
  /\ \A y \in Events : y[1] # x[1] => V(v)[y] = V(u)[y]
  /\ closing = FALSE => V(v)[Other(x)] # Off
LEMMA DevpollDelKeeps ==
  ASSUME m = "devpoll", MaxChanges \in Nat \ {0}, NEW u \in Tables(DevpollChanges),
         u.mislaid = {}, Len(u.list) <= MaxChanges, NEW x \in Events, NEW closing \in BOOLEAN
  PROVE  DevpollLeft(u, x, closing, DevpollDel(u, x, closing))
<1> DEFINE ch == [fd |-> x[1], events |-> "remove"]
           p == Changed(u, ch)
           w == [p EXCEPT !.active[x] = FALSE]
           v == DevpollDel(u, x, closing)
<1>1. ch \in DevpollChanges /\ ch.fd = x[1]
  BY EventIs DEF DevpollChanges
<1>2. v = IF closing THEN Passed(w) ELSE Changed(w, Change(Other(x)))
  BY DEF DevpollDel
<1> HIDE DEF v, w, p, ch
<1>3. /\ p \in Tables(DevpollChanges) /\ Len(p.list) <= MaxChanges /\ Beside(p) = Beside(u)
      /\ \A y \in Events : y[1] # x[1] => V(p)[y] = V(u)[y]
  BY <1>1, DevpollChanged DEF p
<1>4. /\ w \in Tables(DevpollChanges) /\ w.list = p.list /\ w.kernel = p.kernel
      /\ w.active = [u.active EXCEPT ![x] = FALSE] /\ w.disabled = u.disabled /\ w.mislaid = {}
  BY <1>3 DEF Tables, w, Beside
<1>5. Len(w.list) <= MaxChanges /\ V(w) = V(p)
  BY <1>3, <1>4 DEF V
<1>6. CASE closing = TRUE
  <2>1. /\ v \in Tables(DevpollChanges) /\ v.list = <<>> /\ V(v) = V(w) /\ Beside(v) = Beside(w)
    BY <1>2, <1>4, <1>6, DevpollPassed
  <2>2. Len(v.list) <= MaxChanges
    BY <2>1
  <2> QED
    BY <1>3, <1>4, <1>5, <1>6, <2>1, <2>2 DEF Beside, v, DevpollLeft
<1>7. CASE closing = FALSE
  <2>1. /\ Change(Other(x)) \in DevpollChanges /\ Change(Other(x)).fd = x[1]
        /\ Change(Other(x)).events = Other(x)[2] /\ Other(x)[2] # "remove"
        /\ Other(x) \in Events /\ Other(x)[1] = x[1]
    BY EventIs DEF Change, DevpollChanges, Sides
  <2>2. /\ v \in Tables(DevpollChanges) /\ Len(v.list) <= MaxChanges /\ Beside(v) = Beside(w)
        /\ \A y \in Events : V(v)[y] =
             IF x[1] = y[1] /\ Other(x)[2] \in {"remove", y[2]}
             THEN IF Other(x)[2] = "remove" THEN Off ELSE 0 ELSE V(w)[y]
    BY <1>2, <1>4, <1>5, <1>7, <2>1, DevpollChanged
  <2>3. \A y \in Events : y[1] # x[1] => V(v)[y] = V(u)[y]
    BY <1>3, <1>5, <2>2
  <2>4. V(v)[Other(x)] # Off
    BY <2>1, <2>2 DEF Off
  <2> QED
    BY <1>4, <2>2, <2>3, <2>4 DEF Beside, v, DevpollLeft
<1> QED
  BY <1>6, <1>7

LEMMA DevpollWatches ==
  ASSUME t \in Tables(DevpollChanges), DevpollInv(t), OnlyOpen(t, conn), m = "devpoll",
         t.mislaid = {}, MaxChanges \in Nat
  PROVE  /\ Entered \in Tables(DevpollChanges) /\ DevpollInv(Entered) /\ OnlyOpen(Entered, conn)
         /\ Beside(Entered) = Beside(t) /\ WatchedAreActive
<1> DEFINE v == Passed(t)
<1>1. Entered = v
  BY DEF Entered
<1>2. /\ v \in Tables(DevpollChanges) /\ v.list = <<>> /\ v.kernel = V(t) /\ V(v) = V(t)
      /\ Beside(v) = Beside(t)
  BY DevpollPassed
<1> HIDE DEF v
<1>3. v.active = t.active /\ v.disabled = t.disabled
  BY <1>2 DEF Beside
<1>4. Len(v.list) <= MaxChanges
  BY <1>2
<1>5. DevpollInv(v) /\ OnlyOpen(v, conn)
  BY <1>2, <1>3, <1>4 DEF DevpollInv, OnlyOpen, V
<1>6. Active \subseteq Watched(v)
  BY <1>2 DEF Active, Watched, DevpollInv, V, Tables
<1> QED
  BY <1>1, <1>2, <1>5, <1>6 DEF WatchedAreActive

-----------------------------------------------------------------------------
(* kqueue.                                                                 *)

\* The changes of an event are where its index says; it has none.
At(u, x) == \A i \in 1 .. Len(u.list) : u.list[i].event = x => u.index[x] = i - 1
None(u, x) == \A i \in 1 .. Len(u.list) : u.list[i].event # x

LEMMA MovedTyped ==
  ASSUME NEW old \in Nat \cup {Invalid}, NEW i \in Nat, NEW instance
  PROVE  MovedIndex(instance, i, old) \in Nat /\ MovedIndex(0, i, old) = i
<1>1. old % 256 \in 0 .. 255
  BY DEF Invalid
<1> QED
  BY <1>1 DEF MovedIndex

\* Taking a change out of the list: the last one comes into its place.
LEMMA WithdrawnKeeps ==
  ASSUME NEW u \in Tables(KqueueChanges), NEW x \in Events, Pending(u, x),
         \A y \in Events \ u.mislaid : At(u, y)
  PROVE  LET v == Withdrawn(u, x) IN
         /\ v \in Tables(KqueueChanges) /\ Len(v.list) <= Len(u.list)
         /\ v.active = u.active /\ v.disabled = u.disabled /\ v.kernel = u.kernel
         /\ u.mislaid \subseteq v.mislaid
         /\ \A y \in Events \ v.mislaid : At(v, y)
         /\ x \notin v.mislaid => None(v, x)
         /\ \A j \in 1 .. Len(v.list) : \E k \in 1 .. Len(u.list) : v.list[j] = u.list[k]
         /\ \A k \in 1 .. Len(u.list) : u.list[k].event # x =>
              \E j \in 1 .. Len(v.list) : v.list[j] = u.list[k]
<1> DEFINE v == Withdrawn(u, x)
           i == u.index[x]
           n == Len(u.list) - 1
           e == u.list[n + 1]
<1>1. /\ u.list \in Seq(KqueueChanges) /\ Len(u.list) = n + 1 /\ i \in 0 .. n /\ n \in Nat
      /\ i \in Nat /\ u.list[i + 1].event = x
      /\ \A k \in 1 .. n + 1 : u.list[k] \in KqueueChanges
  <2>1. u.list \in Seq(KqueueChanges) /\ Len(u.list) \in Nat
    BY LenProperties DEF Tables
  <2>2. i \in 0 .. Len(u.list) - 1 /\ u.list[i + 1].event = x
    BY DEF Pending
  <2> QED
    BY <2>1, <2>2
<1>2. /\ u.index \in [Events -> Nat \cup {Invalid}] /\ u.mislaid \in SUBSET Events
  BY DEF Tables
<1>3. CASE i = n
  <2>1. v = [u EXCEPT !.list = Front(@)]
    BY <1>3 DEF Withdrawn
  <2>2. /\ Front(u.list) \in Seq(KqueueChanges) /\ Len(Front(u.list)) = n
        /\ \A k \in 1 .. n : Front(u.list)[k] = u.list[k]
    <3>1. Len(u.list) > 0 /\ Len(u.list) - 1 = n
      BY <1>1
    <3>2. /\ Front(u.list) \in Seq(KqueueChanges) /\ Len(Front(u.list)) = Len(u.list) - 1
          /\ \A k \in 1 .. Len(u.list) - 1 : Front(u.list)[k] = u.list[k]
      BY <1>1, <3>1, FrontIs
    <3> HIDE DEF n
    <3> QED
      BY <3>1, <3>2
  <2> HIDE DEF v, n, i, e
  <2>3. /\ v \in Tables(KqueueChanges) /\ v.list = Front(u.list) /\ v.active = u.active
        /\ v.disabled = u.disabled /\ v.kernel = u.kernel /\ v.mislaid = u.mislaid
        /\ v.index = u.index
    BY <2>1, <2>2 DEF Tables
  <2>4. Len(v.list) = n /\ \A k \in 1 .. n : v.list[k] = u.list[k] /\ k \in 1 .. n + 1
    BY <1>1, <2>2, <2>3
  <2>5. ASSUME NEW y \in Events \ v.mislaid PROVE At(v, y)
    <3>1. \A k \in 1 .. n + 1 : u.list[k].event = y => u.index[y] = k - 1
      BY <1>1, <2>3 DEF At
    <3> QED
      BY <2>3, <2>4, <3>1 DEF At
  <2>6. x \notin v.mislaid => None(v, x)
    <3> SUFFICES ASSUME x \notin v.mislaid, NEW k \in 1 .. n, u.list[k].event = x PROVE FALSE
      BY <2>4 DEF None
    <3>1. u.index[x] = k - 1
      BY <1>1, <2>3, <2>4 DEF At
    <3>2. u.index[x] = n
      BY <1>3 DEF i
    <3> QED
      BY <1>1, <3>1, <3>2
  <2>7. \A j \in 1 .. Len(v.list) : \E k \in 1 .. Len(u.list) : v.list[j] = u.list[k]
    BY <1>1, <2>4
  <2>8. ASSUME NEW k \in 1 .. Len(u.list), u.list[k].event # x
        PROVE  \E j \in 1 .. Len(v.list) : v.list[j] = u.list[k]
    <3>1. k \in 1 .. n
      BY <1>1, <1>3, <2>8
    <3> QED
      BY <2>4, <3>1
  <2>9. Len(v.list) <= Len(u.list)
    BY <1>1, <2>4
  <2> QED
    BY <2>3, <2>5, <2>6, <2>7, <2>8, <2>9 DEF v
<1>4. CASE i # n
  <2>0. e \in KqueueChanges /\ e.event \in Events /\ e = Last(u.list)
    BY <1>1 DEF KqueueChanges, Last
  <2> DEFINE q == MovedIndex(e.instance, i, u.index[e.event])
             g == IF e.instance = 0 THEN u.mislaid ELSE u.mislaid \cup {e.event}
  <2>1. v = [u EXCEPT !.list = Swap(@, i), !.index = [@ EXCEPT ![e.event] = q], !.mislaid = g]
    <3>1. i # Len(u.list) - 1
      BY <1>4
    <3> QED
      BY <2>0, <3>1 DEF Withdrawn, Tables
  <2>2. /\ Swap(u.list, i) \in Seq(KqueueChanges) /\ Len(Swap(u.list, i)) = n
        /\ \A k \in 1 .. n : Swap(u.list, i)[k] = IF k = i + 1 THEN e ELSE u.list[k]
    <3>1. i < Len(u.list) - 1 /\ Len(u.list) - 1 = n /\ u.list[Len(u.list)] = e
      BY <1>1, <1>4
    <3>2. /\ Swap(u.list, i) \in Seq(KqueueChanges) /\ Len(Swap(u.list, i)) = Len(u.list) - 1
          /\ \A k \in 1 .. Len(u.list) - 1 :
               Swap(u.list, i)[k] = IF k = i + 1 THEN u.list[Len(u.list)] ELSE u.list[k]
      BY <1>1, <3>1, SwapIs
    <3> HIDE DEF n, i, e
    <3> QED
      BY <3>1, <3>2
  <2>3. q \in Nat /\ (e.instance = 0 => q = i) /\ g \in SUBSET Events
    <3>1. u.index[e.event] \in Nat \cup {Invalid}
      BY <1>2, <2>0
    <3>2. q \in Nat /\ MovedIndex(0, i, u.index[e.event]) = i
      BY <1>1, <3>1, MovedTyped
    <3>3. e.instance = 0 => q = i
      BY <3>2
    <3>4. g \in SUBSET Events
      BY <1>2, <2>0
    <3> QED
      BY <3>2, <3>3, <3>4
  <2> HIDE DEF v, n, i, e, q, g
  <2>4. /\ v \in Tables(KqueueChanges) /\ v.list = Swap(u.list, i) /\ v.active = u.active
        /\ v.disabled = u.disabled /\ v.kernel = u.kernel /\ v.mislaid = g
        /\ v.index = [u.index EXCEPT ![e.event] = q]
    BY <2>0, <2>1, <2>2, <2>3 DEF Tables
  <2>5. /\ Len(v.list) = n
        /\ \A k \in 1 .. n : v.list[k] = (IF k = i + 1 THEN e ELSE u.list[k]) /\ k \in 1 .. n + 1
    BY <1>1, <2>2, <2>4
  <2>6. u.mislaid \subseteq v.mislaid /\ (e.event \notin v.mislaid => e.instance = 0)
    BY <2>4 DEF g
  <2>7. ASSUME NEW y \in Events \ v.mislaid
        PROVE  \A k \in 1 .. n + 1 : u.list[k].event = y => u.index[y] = k - 1
    BY <1>1, <2>6 DEF At
  <2>15. ASSUME NEW y \in Events \ v.mislaid, e.event = y PROVE u.index[y] = n
    <3>1. PICK k \in 1 .. n + 1 : k = n + 1
      BY <1>1
    <3>2. u.list[k].event = y
      BY <2>15, <3>1 DEF e
    <3>3. u.index[y] = k - 1
      BY <2>7, <3>2
    <3> QED
      BY <1>1, <3>1, <3>3
  <2>8. ASSUME NEW y \in Events \ v.mislaid, NEW k \in 1 .. n, v.list[k].event = y
        PROVE  v.index[y] = k - 1
    <3>1. CASE k = i + 1
      <4>1. e.event = y
        BY <2>5, <2>8, <3>1
      <4> QED
        BY <1>1, <1>2, <2>3, <2>4, <2>6, <3>1, <4>1
    <3>2. CASE k # i + 1
      <4>1. u.list[k].event = y /\ u.index[y] = k - 1
        BY <2>5, <2>7, <2>8, <3>2
      <4>2. y # e.event
        <5>1. k - 1 # n
          BY <1>1
        <5> QED
          BY <2>15, <4>1, <5>1
      <4> QED
        BY <1>2, <2>0, <2>4, <4>1, <4>2
    <3> QED
      BY <3>1, <3>2
  <2>9. \A y \in Events \ v.mislaid : At(v, y)
    BY <2>5, <2>8 DEF At
  <2>10. ASSUME x \notin v.mislaid, NEW k \in 1 .. n, v.list[k].event = x PROVE FALSE
    <3>0. u.index[x] = i
      BY DEF i
    <3>1. CASE k = i + 1
      <4>1. e.event = x
        BY <2>5, <2>10, <3>1
      <4>3. u.index[x] = n
        BY <2>15, <2>10, <4>1
      <4> QED
        BY <1>1, <1>4, <3>0, <4>3
    <3>2. CASE k # i + 1
      <4>1. u.list[k].event = x /\ u.index[x] = k - 1
        BY <2>5, <2>7, <2>10, <3>2
      <4> QED
        BY <1>1, <3>0, <3>2, <4>1
    <3> QED
      BY <3>1, <3>2
  <2>11. x \notin v.mislaid => None(v, x)
    BY <2>5, <2>10 DEF None
  <2>12. ASSUME NEW j \in 1 .. n PROVE \E k \in 1 .. n + 1 : v.list[j] = u.list[k]
    BY <1>1, <2>5 DEF e
  <2>13. ASSUME NEW k \in 1 .. n + 1, u.list[k].event # x
         PROVE  \E j \in 1 .. n : v.list[j] = u.list[k]
    <3>1. k # i + 1
      BY <1>1, <2>13
    <3>2. CASE k = n + 1
      <4>1. i + 1 \in 1 .. n
        BY <1>1, <1>4
      <4> QED
        BY <2>5, <3>2, <4>1 DEF e
    <3>3. CASE k # n + 1
      <4>1. k \in 1 .. n
        BY <1>1, <3>3
      <4> QED
        BY <2>5, <3>1, <4>1
    <3> QED
      BY <3>2, <3>3
  <2>14. Len(v.list) <= Len(u.list)
    BY <1>1, <2>5
  <2> QED
    BY <1>1, <2>4, <2>5, <2>6, <2>9, <2>11, <2>12, <2>13, <2>14 DEF v
<1> QED
  BY <1>3, <1>4

LEMMA OkMeansAt ==
  ASSUME NEW u, NEW c, NEW x, KqueueOk(u, c, x)
  PROVE  At(u, x)
BY DEF KqueueOk, At

LEMMA WithdrawnOk ==
  ASSUME NEW u \in Tables(KqueueChanges), NEW c, NEW x \in Events, Pending(u, x),
         \A y \in Events \ u.mislaid : At(u, y),
         NEW y \in Events \ Withdrawn(u, x).mislaid, y # x, KqueueOk(u, c, y)
  PROVE  KqueueOk(Withdrawn(u, x), c, y)
<1> DEFINE v == Withdrawn(u, x)
<1>1. /\ v.active = u.active /\ v.disabled = u.disabled /\ v.kernel = u.kernel
      /\ At(v, y)
      /\ \A j \in 1 .. Len(v.list) : \E k \in 1 .. Len(u.list) : v.list[j] = u.list[k]
      /\ \A k \in 1 .. Len(u.list) : u.list[k].event # x =>
           \E j \in 1 .. Len(v.list) : v.list[j] = u.list[k]
  BY WithdrawnKeeps
<1> HIDE DEF v
<1>2. ASSUME NEW j \in 1 .. Len(v.list), v.list[j].event = y
      PROVE  /\ v.index[y] = j - 1
             /\ v.list[j].instance = c[y[1]].instance /\ c[y[1]].open = TRUE
             /\ IF v.list[j].flags = "add" THEN v.active[y] = TRUE /\ v.kernel[y] = Off
                ELSE /\ v.active[y] = FALSE /\ v.disabled[y] = TRUE
                     /\ v.kernel[y] = c[y[1]].instance
  <2>1. PICK k \in 1 .. Len(u.list) : v.list[j] = u.list[k]
    BY <1>1
  <2>2. v.index[y] = j - 1
    BY <1>1, <1>2 DEF At
  <2> QED
    BY <1>1, <1>2, <2>1, <2>2 DEF KqueueOk
<1>3. ASSUME \A j \in 1 .. Len(v.list) : v.list[j].event # y
      PROVE  v.kernel[y] = IF v.active[y] = TRUE THEN c[y[1]].instance ELSE Off
  <2>1. ASSUME NEW k \in 1 .. Len(u.list), u.list[k].event = y PROVE FALSE
    BY <1>1, <1>3, <2>1
  <2> QED
    BY <1>1, <2>1 DEF KqueueOk
<1> QED
  BY <1>2, <1>3 DEF KqueueOk, v

\* The bits of one event change.
Marked(u, x, active, disabled) == [u EXCEPT !.active[x] = active, !.disabled[x] = disabled]
LEMMA MarkedIs ==
  ASSUME NEW entries, NEW u \in Tables(entries), NEW x \in Events,
         NEW a \in BOOLEAN, NEW d \in BOOLEAN
  PROVE  LET v == Marked(u, x, a, d) IN
         /\ v \in Tables(entries) /\ v.list = u.list /\ v.kernel = u.kernel
         /\ v.index = u.index /\ v.mislaid = u.mislaid
         /\ v.active = [u.active EXCEPT ![x] = a] /\ v.disabled = [u.disabled EXCEPT ![x] = d]
         /\ v.active[x] = a /\ v.disabled[x] = d
         /\ \A y \in Events : y # x =>
              v.active[y] = u.active[y] /\ v.disabled[y] = u.disabled[y]
<1> DEFINE v == Marked(u, x, a, d)
<1>1. v = [u EXCEPT !.active = [@ EXCEPT ![x] = a], !.disabled = [@ EXCEPT ![x] = d]]
  BY DEF Marked, Tables
<1> HIDE DEF v
<1>2. /\ v \in Tables(entries) /\ v.list = u.list /\ v.kernel = u.kernel
      /\ v.index = u.index /\ v.mislaid = u.mislaid
      /\ v.active = [u.active EXCEPT ![x] = a] /\ v.disabled = [u.disabled EXCEPT ![x] = d]
  BY <1>1 DEF Tables
<1>3. u.active \in [Events -> BOOLEAN] /\ u.disabled \in [Events -> BOOLEAN]
  BY DEF Tables
<1>4. /\ v.active[x] = a /\ v.disabled[x] = d
      /\ \A y \in Events : y # x => v.active[y] = u.active[y] /\ v.disabled[y] = u.disabled[y]
  BY <1>2, <1>3
<1> QED
  BY <1>2, <1>4 DEF v

LEMMA MarkedOk ==
  ASSUME NEW u \in Tables(KqueueChanges), NEW c, NEW x \in Events,
         NEW a \in BOOLEAN, NEW d \in BOOLEAN,
         NEW y \in Events, y # x, KqueueOk(u, c, y)
  PROVE  KqueueOk(Marked(u, x, a, d), c, y)
<1> DEFINE v == Marked(u, x, a, d)
<1>1. /\ v.list = u.list /\ v.kernel = u.kernel /\ v.index = u.index
      /\ v.active[y] = u.active[y] /\ v.disabled[y] = u.disabled[y]
  BY DEF Marked, Tables
<1> HIDE DEF v
<1>2. KqueueOk(v, c, y)
  BY <1>1 DEF KqueueOk
<1> QED
  BY <1>2 DEF v

LEMMA KqueuePassed ==
  ASSUME m = "kqueue", conn \in Conns, NEW u \in Tables(KqueueChanges), KqueueInv(u, conn),
         OnlyOpen(u, conn), MaxChanges \in Nat
  PROVE  LET v == Passed(u) IN
         /\ v \in Tables(KqueueChanges) /\ KqueueInv(v, conn) /\ v.list = <<>>
         /\ v.active = u.active /\ v.disabled = u.disabled /\ v.index = u.index
         /\ v.mislaid \subseteq u.mislaid
         /\ \A x \in Events \ v.mislaid : v.kernel[x] = Told(u, x)
<1> DEFINE k == KqueueApplied(u.kernel, u.list)
           w == [u EXCEPT !.kernel = k, !.list = <<>>]
           v == Passed(u)
<1>1. /\ u.list \in Seq(KqueueChanges) /\ Len(u.list) \in Nat /\ DOMAIN u.list = 1 .. Len(u.list)
      /\ \A i \in 1 .. Len(u.list) : u.list[i] \in KqueueChanges
      /\ u.kernel \in [Events -> {Off, 0, 1}] /\ u.active \in [Events -> BOOLEAN]
  BY LenProperties DEF Tables
<1>2. ASSUME NEW y \in Events
      PROVE  k[y] = LET own == {i \in 1 .. Len(u.list) : u.list[i].event = y} IN
                    IF own = {} \/ ~conn[y[1]].open THEN u.kernel[y]
                    ELSE IF u.list[Max(own)].flags = "add" THEN u.list[Max(own)].instance ELSE Off
  BY <1>1 DEF KqueueApplied
<1>3. k = [y \in Events |-> k[y]]
  BY DEF KqueueApplied
<1> HIDE DEF k
<1>4. ASSUME NEW y \in Events PROVE k[y] \in {Off, 0, 1}
  <2> DEFINE own == {i \in 1 .. Len(u.list) : u.list[i].event = y}
  <2>1. CASE own = {} \/ ~conn[y[1]].open
    BY <1>1, <1>2, <2>1
  <2>2. CASE own # {} /\ conn[y[1]].open
    <3>1. Max(own) \in own
      <4>1. own \subseteq 1 .. Len(u.list)
        OBVIOUS
      <4> HIDE DEF own
      <4> QED
        BY <1>1, <2>2, <4>1, GreatestIs
    <3>2. u.list[Max(own)].instance \in {0, 1}
      BY <1>1, <3>1 DEF KqueueChanges
    <3> QED
      BY <1>2, <2>2, <3>2
  <2> QED
    BY <2>1, <2>2
<1>5. /\ w \in Tables(KqueueChanges) /\ w.list = <<>> /\ w.kernel = k /\ w.active = u.active
      /\ w.disabled = u.disabled /\ w.index = u.index /\ w.mislaid = u.mislaid
  <2>1. k \in [Events -> {Off, 0, 1}] /\ <<>> \in Seq(KqueueChanges)
    BY <1>3, <1>4
  <2> QED
    BY <2>1 DEF Tables
<1>6. v = [w EXCEPT !.mislaid = {x \in @ : w.kernel[x] # Told(w, x)}]
  BY DEF Passed, k
<1> HIDE DEF w, v
<1>7. /\ v \in Tables(KqueueChanges) /\ v.list = <<>> /\ v.kernel = k /\ v.active = u.active
      /\ v.disabled = u.disabled /\ v.index = u.index
      /\ v.mislaid = {x \in u.mislaid : k[x] # Told(w, x)}
  BY <1>5, <1>6 DEF Tables
<1>8. \A x \in Events : Told(w, x) = Told(u, x)
  BY <1>5 DEF Told
<1>9. ASSUME NEW x \in Events \ v.mislaid PROVE v.kernel[x] = Told(u, x)
  <2>1. CASE x \in u.mislaid
    BY <1>7, <1>8, <2>1
  <2>2. CASE x \notin u.mislaid
    <3> DEFINE own == {i \in 1 .. Len(u.list) : u.list[i].event = x}
    <3>1. KqueueOk(u, conn, x)
      BY <2>2 DEF KqueueInv
    <3>2. CASE own = {}
      <4>1. u.kernel[x] = IF u.active[x] = TRUE THEN conn[x[1]].instance ELSE Off
        BY <3>1, <3>2 DEF KqueueOk
      <4>2. u.active[x] = TRUE => conn[x[1]].open = TRUE
        BY DEF OnlyOpen
      <4>3. k[x] = u.kernel[x]
        BY <1>2, <3>2
      <4> QED
        BY <1>1, <1>7, <4>1, <4>2, <4>3 DEF Told
    <3>3. CASE own # {}
      <4>1. PICK i \in 1 .. Len(u.list) : u.list[i].event = x
        BY <3>3
      <4>2. \A j \in own : j = i
        BY <1>1, <3>1, <4>1 DEF KqueueOk
      <4>3. Max(own) = i
        <5>1. own \subseteq 1 .. Len(u.list)
          OBVIOUS
        <5>2. Max(own) \in own
          <6> HIDE DEF own
          <6> QED
            BY <1>1, <3>3, <5>1, GreatestIs
        <5> QED
          BY <4>2, <5>2
      <4>4. /\ u.list[i].instance = conn[x[1]].instance /\ conn[x[1]].open = TRUE
            /\ IF u.list[i].flags = "add" THEN u.active[x] = TRUE ELSE u.active[x] = FALSE
        BY <3>1, <4>1 DEF KqueueOk
      <4>5. k[x] = IF u.list[i].flags = "add" THEN u.list[i].instance ELSE Off
        BY <1>2, <3>3, <4>3, <4>4
      <4> QED
        BY <1>7, <4>4, <4>5 DEF Told
    <3> QED
      BY <3>2, <3>3
  <2> QED
    BY <2>1, <2>2
<1>10. KqueueInv(v, conn)
  <2>1. Len(v.list) <= MaxChanges /\ Len(v.list) = 0
    BY <1>7
  <2>2. ASSUME NEW x \in Events, conn[x[1]].open = FALSE PROVE v.kernel[x] = Off
    <3>1. u.kernel[x] = Off
      BY <2>2 DEF KqueueInv
    <3> QED
      BY <1>2, <1>7, <2>2, <3>1
  <2>3. ASSUME NEW x \in Events \ v.mislaid PROVE KqueueOk(v, conn, x)
    <3>1. u.active[x] = TRUE => conn[x[1]].open = TRUE
      BY DEF OnlyOpen
    <3>2. v.kernel[x] = IF v.active[x] = TRUE THEN conn[x[1]].instance ELSE Off
      BY <1>1, <1>7, <1>9, <3>1 DEF Told
    <3> QED
      BY <2>1, <3>2 DEF KqueueOk
  <2> QED
    BY <2>1, <2>2, <2>3 DEF KqueueInv
<1>11. v.mislaid \subseteq u.mislaid
  BY <1>7
<1> QED
  BY <1>7, <1>9, <1>10, <1>11 DEF v

\* A new change goes to the end of the list.
LastIs(u, x, flags, v) ==
  /\ v \in Tables(KqueueChanges) /\ Len(v.list) <= MaxChanges /\ Len(v.list) \in Nat \ {0}
  /\ v.active = u.active /\ v.disabled = u.disabled
  /\ \A y \in Events : conn[y[1]].open = FALSE => v.kernel[y] = Off
  /\ \A y \in Events \ v.mislaid : y # x => KqueueOk(v, conn, y)
  /\ x \notin v.mislaid =>
       /\ v.index[x] = Len(v.list) - 1 /\ v.list[Len(v.list)].event = x /\ v.list[Len(v.list)].flags = flags
       /\ v.list[Len(v.list)].instance = conn[x[1]].instance
       /\ \A i \in 1 .. Len(v.list) - 1 : v.list[i].event # x
       /\ v.kernel[x] = IF u.active[x] = TRUE THEN conn[x[1]].instance ELSE Off
LEMMA KqueueSetKeeps ==
  ASSUME m = "kqueue", conn \in Conns, MaxChanges \in Nat \ {0},
         NEW u \in Tables(KqueueChanges), KqueueInv(u, conn), OnlyOpen(u, conn),
         NEW x \in Events, conn[x[1]].open = TRUE, ~Pending(u, x), NEW flags \in {"add", "disable"}
  PROVE  LastIs(u, x, flags, KqueueSet(u, x, flags))
<1> DEFINE w == IF Len(u.list) >= MaxChanges THEN Passed(u) ELSE u
           ch == [event |-> x, flags |-> flags, instance |-> conn[x[1]].instance]
           v == KqueueSet(u, x, flags)
           k == Len(w.list)
<1>1. /\ w \in Tables(KqueueChanges) /\ KqueueInv(w, conn) /\ Len(w.list) < MaxChanges
      /\ w.active = u.active /\ w.disabled = u.disabled
      /\ x \notin w.mislaid => None(w, x)
  <2>1. CASE Len(u.list) >= MaxChanges
    <3>1. /\ w \in Tables(KqueueChanges) /\ KqueueInv(w, conn) /\ w.list = <<>>
          /\ w.active = u.active /\ w.disabled = u.disabled
      BY <2>1, KqueuePassed
    <3>2. Len(w.list) = 0
      BY <3>1
    <3> HIDE DEF w
    <3> QED
      BY <3>1, <3>2 DEF None
  <2>2. CASE ~(Len(u.list) >= MaxChanges)
    <3>1. Len(u.list) \in Nat
      BY LenProperties DEF Tables
    <3>2. ASSUME x \notin u.mislaid, NEW i \in 1 .. Len(u.list), u.list[i].event = x PROVE FALSE
      <4>1. u.index[x] = i - 1
        BY <3>2 DEF KqueueInv, KqueueOk
      <4>2. i - 1 \in 0 .. Len(u.list) - 1 /\ i - 1 + 1 = i
        BY <3>1
      <4> QED
        BY <3>2, <4>1, <4>2 DEF Pending
    <3>3. x \notin u.mislaid => None(u, x)
      BY <3>2 DEF None
    <3> QED
      BY <2>2, <3>1, <3>3
  <2> QED
    BY <2>1, <2>2
<1>2. /\ v = [[w EXCEPT !.list = Append(@, ch)] EXCEPT
                !.index[x] = Len([w EXCEPT !.list = Append(@, ch)].list) - 1]
  BY DEF KqueueSet, Changed
<1> HIDE DEF w, v
<1>3. ch \in KqueueChanges
  BY EventIs DEF KqueueChanges, Conns
<1>4. /\ w.list \in Seq(KqueueChanges) /\ k \in Nat /\ k + 1 <= MaxChanges
      /\ Append(w.list, ch) \in Seq(KqueueChanges) /\ Len(Append(w.list, ch)) = k + 1
      /\ Append(w.list, ch)[k + 1] = ch
      /\ \A i \in 1 .. k : Append(w.list, ch)[i] = w.list[i]
  <2>1. w.list \in Seq(KqueueChanges)
    BY <1>1 DEF Tables
  <2>2. k \in Nat /\ k + 1 <= MaxChanges
    BY <1>1, <2>1, LenProperties
  <2> HIDE DEF ch
  <2> QED
    BY <1>3, <2>1, <2>2, AppendProperties
<1> HIDE DEF k
<1>5. v = [w EXCEPT !.list = Append(@, ch), !.index = [@ EXCEPT ![x] = k]]
  <2>1. [w EXCEPT !.list = Append(@, ch)].list = Append(w.list, ch)
    BY <1>1 DEF Tables
  <2>2. Len([w EXCEPT !.list = Append(@, ch)].list) - 1 = k
    BY <1>4, <2>1
  <2> HIDE DEF ch
  <2> QED
    BY <1>1, <1>2, <2>2 DEF Tables
<1>6. /\ v \in Tables(KqueueChanges) /\ v.list = Append(w.list, ch)
      /\ v.active = w.active /\ v.disabled = w.disabled /\ v.kernel = w.kernel
      /\ v.mislaid = w.mislaid /\ v.index = [w.index EXCEPT ![x] = k]
  BY <1>1, <1>4, <1>5 DEF Tables
<1>7. ch.event = x /\ ch.flags = flags /\ ch.instance = conn[x[1]].instance
  OBVIOUS
<1> HIDE DEF ch
<1>8. /\ Len(v.list) = k + 1 /\ v.list[k + 1] = ch
      /\ \A i \in 1 .. k : v.list[i] = w.list[i]
  BY <1>4, <1>6
<1>9. \A i \in 1 .. k + 1 : i = k + 1 \/ i \in 1 .. k
  BY <1>4
<1>10. ASSUME NEW y \in Events \ v.mislaid, y # x PROVE KqueueOk(v, conn, y)
  <2>1. KqueueOk(w, conn, y) /\ v.index[y] = w.index[y]
    BY <1>1, <1>6, <1>10 DEF KqueueInv, Tables
  <2>2. ASSUME NEW i \in 1 .. k + 1, v.list[i].event = y
        PROVE  /\ v.index[y] = i - 1
               /\ v.list[i].instance = conn[y[1]].instance /\ conn[y[1]].open = TRUE
               /\ IF v.list[i].flags = "add" THEN v.active[y] = TRUE /\ v.kernel[y] = Off
                  ELSE /\ v.active[y] = FALSE /\ v.disabled[y] = TRUE
                       /\ v.kernel[y] = conn[y[1]].instance
    <3>1. i \in 1 .. k
      BY <1>7, <1>8, <1>9, <1>10, <2>2
    <3> QED
      BY <1>6, <1>8, <2>1, <2>2, <3>1 DEF KqueueOk, k
  <2>3. ASSUME \A i \in 1 .. k + 1 : v.list[i].event # y
        PROVE  v.kernel[y] = IF v.active[y] = TRUE THEN conn[y[1]].instance ELSE Off
    <3>1. \A i \in 1 .. k : i \in 1 .. k + 1
      BY <1>4
    <3>2. \A i \in 1 .. k : w.list[i].event # y
      BY <1>8, <2>3, <3>1
    <3> QED
      BY <1>6, <2>1, <3>2 DEF KqueueOk, k
  <2> QED
    BY <1>8, <2>2, <2>3 DEF KqueueOk
<1>11. ASSUME x \notin v.mislaid
       PROVE  /\ v.index[x] = k
              /\ \A i \in 1 .. k : v.list[i].event # x
              /\ v.kernel[x] = IF u.active[x] = TRUE THEN conn[x[1]].instance ELSE Off
  <2>1. None(w, x) /\ KqueueOk(w, conn, x)
    BY <1>1, <1>6, <1>11 DEF KqueueInv
  <2>2. v.index[x] = k
    BY <1>1, <1>4, <1>6 DEF Tables
  <2> QED
    BY <1>1, <1>6, <1>8, <2>1, <2>2 DEF None, KqueueOk, k
<1>12. \A y \in Events : conn[y[1]].open = FALSE => v.kernel[y] = Off
  BY <1>1, <1>6 DEF KqueueInv
<1>13. /\ Len(v.list) <= MaxChanges /\ Len(v.list) \in Nat \ {0} /\ Len(v.list) - 1 = k
       /\ v.list[Len(v.list)] = ch
  BY <1>4, <1>8
<1> QED
  BY <1>1, <1>6, <1>7, <1>10, <1>11, <1>12, <1>13 DEF LastIs, v

LEMMA KqueueAddKeeps ==
  ASSUME m = "kqueue", conn \in Conns, MaxChanges \in Nat \ {0},
         NEW u \in Tables(KqueueChanges), KqueueInv(u, conn), OnlyOpen(u, conn),
         NEW x \in Events, conn[x[1]].open = TRUE, u.active[x] = FALSE
  PROVE  LET v == KqueueAdd(u, x) IN
         /\ v \in Tables(KqueueChanges) /\ KqueueInv(v, conn)
         /\ v.active = [u.active EXCEPT ![x] = TRUE]
         /\ v.disabled = [u.disabled EXCEPT ![x] = FALSE]
<1> DEFINE w == IF ~Pending(u, x) THEN KqueueSet(u, x, "add")
                ELSE IF u.list[u.index[x] + 1].flags = "disable" THEN Withdrawn(u, x) ELSE u
           v == KqueueAdd(u, x)
<1>0. v = Marked(w, x, TRUE, FALSE)
  BY DEF KqueueAdd, Marked
<1> HIDE DEF v
<1> SUFFICES ASSUME TRUE
             PROVE  /\ w \in Tables(KqueueChanges) /\ Len(w.list) <= MaxChanges
                    /\ w.active = u.active /\ w.disabled = u.disabled
                    /\ \A y \in Events : conn[y[1]].open = FALSE => w.kernel[y] = Off
                    /\ \A y \in Events \ w.mislaid : y # x => KqueueOk(w, conn, y)
                    /\ x \notin w.mislaid => KqueueOk(Marked(w, x, TRUE, FALSE), conn, x)
  <2>1. /\ w \in Tables(KqueueChanges) /\ Len(w.list) <= MaxChanges
        /\ w.active = u.active /\ w.disabled = u.disabled
        /\ \A y \in Events : conn[y[1]].open = FALSE => w.kernel[y] = Off
        /\ \A y \in Events \ w.mislaid : y # x => KqueueOk(w, conn, y)
        /\ x \notin w.mislaid => KqueueOk(v, conn, x)
    BY <1>0
  <2> HIDE DEF w
  <2>2. /\ v \in Tables(KqueueChanges) /\ v.list = w.list /\ v.kernel = w.kernel
        /\ v.mislaid = w.mislaid /\ v.active = [w.active EXCEPT ![x] = TRUE]
        /\ v.disabled = [w.disabled EXCEPT ![x] = FALSE]
    <3>1. v = [w EXCEPT !.active = [@ EXCEPT ![x] = TRUE], !.disabled = [@ EXCEPT ![x] = FALSE]]
      BY <1>0, <2>1 DEF Marked, Tables
    <3> QED
      BY <2>1, <3>1 DEF Tables
  <2>3. \A y \in Events \ w.mislaid : y # x => KqueueOk(v, conn, y)
    BY <1>0, <2>1, MarkedOk
  <2>4. KqueueInv(v, conn)
    BY <2>1, <2>2, <2>3 DEF KqueueInv
  <2> QED
    BY <2>1, <2>2, <2>4 DEF v
<1>1. \A y \in Events \ u.mislaid : At(u, y)
  BY OkMeansAt DEF KqueueInv
<1>2. Len(u.list) \in Nat
  BY LenProperties DEF Tables
<1>3. CASE ~Pending(u, x)
  <2>1. w = KqueueSet(u, x, "add")
    BY <1>3
  <2> HIDE DEF w
  <2>2. /\ w \in Tables(KqueueChanges) /\ Len(w.list) <= MaxChanges /\ Len(w.list) \in Nat \ {0}
        /\ w.active = u.active /\ w.disabled = u.disabled
        /\ \A y \in Events : conn[y[1]].open = FALSE => w.kernel[y] = Off
        /\ \A y \in Events \ w.mislaid : y # x => KqueueOk(w, conn, y)
        /\ x \notin w.mislaid =>
             /\ w.index[x] = Len(w.list) - 1 /\ w.list[Len(w.list)].event = x
             /\ w.list[Len(w.list)].flags = "add"
             /\ w.list[Len(w.list)].instance = conn[x[1]].instance
             /\ \A i \in 1 .. Len(w.list) - 1 : w.list[i].event # x
             /\ w.kernel[x] = IF u.active[x] = TRUE THEN conn[x[1]].instance ELSE Off
    <3> DEFINE add == "add"
    <3>1. add \in {"add", "disable"} /\ w = KqueueSet(u, x, add)
      BY <2>1
    <3> HIDE DEF add
    <3>2. LastIs(u, x, add, KqueueSet(u, x, add))
      BY <1>3, <3>1, KqueueSetKeeps
    <3> QED
      BY <3>1, <3>2 DEF add, LastIs
  <2>3. ASSUME x \notin w.mislaid PROVE KqueueOk(Marked(w, x, TRUE, FALSE), conn, x)
    <3> DEFINE n == Len(w.list)
               z == Marked(w, x, TRUE, FALSE)
    <3>1. /\ w.index[x] = n - 1 /\ w.list[n].event = x /\ w.list[n].flags = "add"
          /\ w.list[n].instance = conn[x[1]].instance /\ n \in Nat \ {0}
          /\ \A i \in 1 .. n - 1 : w.list[i].event # x
          /\ w.kernel[x] = IF u.active[x] = TRUE THEN conn[x[1]].instance ELSE Off
      BY <2>2, <2>3
    <3>2. /\ z.list = w.list /\ z.kernel = w.kernel /\ z.index = w.index /\ z.active[x] = TRUE
      BY <2>2 DEF Marked, Tables
    <3> HIDE DEF z
    <3>3. ASSUME NEW i \in 1 .. n, w.list[i].event = x PROVE i = n
      BY <3>1, <3>3
    <3>4. n \in 1 .. n
      BY <3>1
    <3> QED
      BY <3>1, <3>2, <3>3, <3>4 DEF KqueueOk, z
  <2> QED
    BY <2>2, <2>3
<1>4. CASE Pending(u, x) /\ u.list[u.index[x] + 1].flags = "disable"
  <2>1. w = Withdrawn(u, x)
    BY <1>4
  <2> HIDE DEF w
  <2>2. /\ w \in Tables(KqueueChanges) /\ Len(w.list) <= Len(u.list)
        /\ w.active = u.active /\ w.disabled = u.disabled /\ w.kernel = u.kernel
        /\ u.mislaid \subseteq w.mislaid
        /\ x \notin w.mislaid => None(w, x)
    BY <1>1, <1>4, <2>1, WithdrawnKeeps
  <2>3. \A y \in Events \ w.mislaid : y # x => KqueueOk(w, conn, y)
    BY <1>1, <1>4, <2>1, <2>2, WithdrawnOk DEF KqueueInv
  <2>4. Len(w.list) <= MaxChanges
    <3>1. Len(w.list) \in Nat
      BY <2>2, LenProperties DEF Tables
    <3> QED
      BY <1>2, <2>2, <3>1 DEF KqueueInv
  <2>5. ASSUME x \notin w.mislaid PROVE KqueueOk(Marked(w, x, TRUE, FALSE), conn, x)
    <3> DEFINE z == Marked(w, x, TRUE, FALSE)
    <3>1. z.list = w.list /\ z.kernel = w.kernel /\ z.active[x] = TRUE
      BY <2>2 DEF Marked, Tables
    <3>2. u.index[x] + 1 \in 1 .. Len(u.list) /\ u.list[u.index[x] + 1].event = x
      BY <1>2, <1>4 DEF Pending
    <3>3. KqueueOk(u, conn, x)
      BY <2>2, <2>5 DEF KqueueInv
    <3>4. u.kernel[x] = conn[x[1]].instance
      BY <1>4, <3>2, <3>3 DEF KqueueOk
    <3>5. None(w, x)
      BY <2>2, <2>5
    <3> HIDE DEF z
    <3>6. KqueueOk(z, conn, x)
      BY <2>2, <3>1, <3>4, <3>5 DEF KqueueOk, None
    <3> QED
      BY <3>6 DEF z
  <2>6. \A y \in Events : conn[y[1]].open = FALSE => w.kernel[y] = Off
    BY <2>2 DEF KqueueInv
  <2> QED
    BY <2>2, <2>3, <2>4, <2>5, <2>6
<1>5. CASE Pending(u, x) /\ u.list[u.index[x] + 1].flags # "disable"
  <2>1. w = u
    BY <1>5
  <2> HIDE DEF w
  <2>2. x \in u.mislaid
    <3> SUFFICES ASSUME x \notin u.mislaid PROVE FALSE
      OBVIOUS
    <3>1. KqueueOk(u, conn, x)
      BY DEF KqueueInv
    <3>2. u.index[x] + 1 \in 1 .. Len(u.list) /\ u.list[u.index[x] + 1].event = x
      BY <1>2, <1>5 DEF Pending
    <3>3. u.list[u.index[x] + 1] \in KqueueChanges
      BY <3>2 DEF Tables
    <3>4. u.list[u.index[x] + 1].flags = "add"
      BY <1>5, <3>3 DEF KqueueChanges
    <3> QED
      BY <3>1, <3>2, <3>4 DEF KqueueOk
  <2> QED
    BY <2>1, <2>2 DEF KqueueInv
<1> QED
  BY <1>3, <1>4, <1>5


LEMMA KqueueDelKeeps ==
  ASSUME m = "kqueue", conn \in Conns, MaxChanges \in Nat \ {0},
         NEW u \in Tables(KqueueChanges), KqueueInv(u, conn), OnlyOpen(u, conn),
         NEW x \in Events, conn[x[1]].open = TRUE, u.active[x] = TRUE
  PROVE  LET v == KqueueDel(u, x, FALSE) IN
         /\ v \in Tables(KqueueChanges) /\ KqueueInv(v, conn)
         /\ v.active = [u.active EXCEPT ![x] = FALSE]
         /\ \A y \in Events : y # x => v.disabled[y] = u.disabled[y]
<1> DEFINE w == IF Pending(u, x) THEN Withdrawn(u, x) ELSE KqueueSet(u, x, "disable")
           d == ~Pending(u, x)
           v == KqueueDel(u, x, FALSE)
<1>0. v = Marked(w, x, FALSE, d)
  <2>1. (~FALSE /\ ~Pending(u, x)) = d
    OBVIOUS
  <2> QED
    BY <2>1 DEF KqueueDel, Marked
<1>1. d \in BOOLEAN /\ (Pending(u, x) => d = FALSE) /\ (~Pending(u, x) => d = TRUE)
  OBVIOUS
<1>2. \A y \in Events \ u.mislaid : At(u, y)
  BY OkMeansAt DEF KqueueInv
<1>3. Len(u.list) \in Nat
  BY LenProperties DEF Tables
<1> HIDE DEF v, d
<1> SUFFICES /\ w \in Tables(KqueueChanges) /\ Len(w.list) <= MaxChanges
             /\ w.active = u.active /\ w.disabled = u.disabled
             /\ \A y \in Events : conn[y[1]].open = FALSE => w.kernel[y] = Off
             /\ \A y \in Events \ w.mislaid : y # x => KqueueOk(w, conn, y)
             /\ x \notin w.mislaid => KqueueOk(Marked(w, x, FALSE, d), conn, x)
  <2>1. /\ w \in Tables(KqueueChanges) /\ Len(w.list) <= MaxChanges
        /\ w.active = u.active /\ w.disabled = u.disabled
        /\ \A y \in Events : conn[y[1]].open = FALSE => w.kernel[y] = Off
        /\ \A y \in Events \ w.mislaid : y # x => KqueueOk(w, conn, y)
        /\ x \notin w.mislaid => KqueueOk(v, conn, x)
    BY <1>0
  <2> HIDE DEF w
  <2>2. /\ v \in Tables(KqueueChanges) /\ v.list = w.list /\ v.kernel = w.kernel
        /\ v.mislaid = w.mislaid /\ v.active = [w.active EXCEPT ![x] = FALSE]
        /\ v.disabled = [w.disabled EXCEPT ![x] = d]
    <3>1. v = [w EXCEPT !.active = [@ EXCEPT ![x] = FALSE], !.disabled = [@ EXCEPT ![x] = d]]
      BY <1>0, <2>1 DEF Marked, Tables
    <3> QED
      BY <1>1, <2>1, <3>1 DEF Tables
  <2>3. \A y \in Events \ w.mislaid : y # x => KqueueOk(v, conn, y)
    <3> DEFINE off == FALSE
    <3>1. v = Marked(w, x, off, d) /\ off \in BOOLEAN
      BY <1>0
    <3> HIDE DEF off
    <3> QED
      BY <1>1, <2>1, <3>1, MarkedOk
  <2>4. KqueueInv(v, conn)
    BY <2>1, <2>2, <2>3 DEF KqueueInv
  <2>5. \A y \in Events : y # x => v.disabled[y] = u.disabled[y]
    BY <2>1, <2>2 DEF Tables
  <2> QED
    BY <2>1, <2>2, <2>4, <2>5 DEF v
<1>4. CASE ~Pending(u, x)
  <2>1. w = KqueueSet(u, x, "disable")
    BY <1>4
  <2> HIDE DEF w
  <2>2. LastIs(u, x, "disable", w)
    <3> DEFINE disable == "disable"
    <3>1. disable \in {"add", "disable"} /\ w = KqueueSet(u, x, disable)
      BY <2>1
    <3> HIDE DEF disable
    <3>2. LastIs(u, x, disable, KqueueSet(u, x, disable))
      BY <1>4, <3>1, KqueueSetKeeps
    <3> QED
      BY <3>1, <3>2 DEF disable
  <2>3. ASSUME x \notin w.mislaid PROVE KqueueOk(Marked(w, x, FALSE, d), conn, x)
    <3> DEFINE n == Len(w.list)
               z == Marked(w, x, FALSE, d)
    <3>1. /\ w.index[x] = n - 1 /\ w.list[n].event = x /\ w.list[n].flags = "disable"
          /\ w.list[n].instance = conn[x[1]].instance /\ n \in Nat \ {0}
          /\ \A i \in 1 .. n - 1 : w.list[i].event # x
          /\ w.kernel[x] = conn[x[1]].instance
      BY <2>2, <2>3 DEF LastIs
    <3>2. /\ z.list = w.list /\ z.kernel = w.kernel /\ z.index = w.index /\ z.active[x] = FALSE
          /\ z.disabled[x] = TRUE
      BY <1>1, <1>4, <2>2 DEF Marked, Tables, LastIs
    <3> HIDE DEF z
    <3>3. ASSUME NEW i \in 1 .. n, w.list[i].event = x PROVE i = n
      BY <3>1, <3>3
    <3>4. n \in 1 .. n
      BY <3>1
    <3> QED
      BY <3>1, <3>2, <3>3, <3>4 DEF KqueueOk, z
  <2> QED
    BY <2>2, <2>3 DEF LastIs
<1>5. CASE Pending(u, x)
  <2>1. w = Withdrawn(u, x)
    BY <1>5
  <2> HIDE DEF w
  <2>2. /\ w \in Tables(KqueueChanges) /\ Len(w.list) <= Len(u.list)
        /\ w.active = u.active /\ w.disabled = u.disabled /\ w.kernel = u.kernel
        /\ u.mislaid \subseteq w.mislaid
        /\ x \notin w.mislaid => None(w, x)
    BY <1>2, <1>5, <2>1, WithdrawnKeeps
  <2>3. \A y \in Events \ w.mislaid : y # x => KqueueOk(w, conn, y)
    BY <1>2, <1>5, <2>1, <2>2, WithdrawnOk DEF KqueueInv
  <2>4. Len(w.list) <= MaxChanges
    <3>1. Len(w.list) \in Nat
      BY <2>2, LenProperties DEF Tables
    <3> QED
      BY <1>3, <2>2, <3>1 DEF KqueueInv
  <2>5. ASSUME x \notin w.mislaid PROVE KqueueOk(Marked(w, x, FALSE, d), conn, x)
    <3> DEFINE z == Marked(w, x, FALSE, d)
    <3>1. z.list = w.list /\ z.kernel = w.kernel /\ z.active[x] = FALSE
      BY <2>2 DEF Marked, Tables
    <3>2. u.index[x] + 1 \in 1 .. Len(u.list) /\ u.list[u.index[x] + 1].event = x
      BY <1>3, <1>5 DEF Pending
    <3>3. KqueueOk(u, conn, x)
      BY <2>2, <2>5 DEF KqueueInv
    <3>4. u.kernel[x] = Off
      BY <3>2, <3>3 DEF KqueueOk
    <3>5. None(w, x)
      BY <2>2, <2>5
    <3> HIDE DEF z
    <3>6. KqueueOk(z, conn, x)
      BY <2>2, <3>1, <3>4, <3>5 DEF KqueueOk, None
    <3> QED
      BY <3>6 DEF z
  <2>6. \A y \in Events : conn[y[1]].open = FALSE => w.kernel[y] = Off
    BY <2>2 DEF KqueueInv
  <2> QED
    BY <2>2, <2>3, <2>4, <2>5, <2>6
<1> QED
  BY <1>4, <1>5

\* An event that is deleted for a close leaves no change, unless it was mislaid.
LeftAlone(u, x, v) ==
  /\ v \in Tables(KqueueChanges) /\ Len(v.list) <= Len(u.list) /\ v.kernel = u.kernel
  /\ v.active = [u.active EXCEPT ![x] = FALSE] /\ v.disabled = [u.disabled EXCEPT ![x] = FALSE]
  /\ u.mislaid \subseteq v.mislaid
  /\ \A y \in Events \ v.mislaid : At(v, y)
  /\ x \notin v.mislaid => None(v, x)
  /\ \A y \in Events \ v.mislaid : y # x /\ KqueueOk(u, conn, y) => KqueueOk(v, conn, y)
  /\ \A y \in Events \ v.mislaid : None(u, y) => None(v, y)
ForClose(u, x) ==
  IF u.active[x] = TRUE \/ u.disabled[x] = TRUE THEN KqueueDel(u, x, TRUE) ELSE u
LEMMA KqueueClosed ==
  ASSUME NEW u \in Tables(KqueueChanges), \A y \in Events \ u.mislaid : At(u, y),
         NEW x \in Events, x \notin u.mislaid => KqueueOk(u, conn, x)
  PROVE  LeftAlone(u, x, ForClose(u, x))
<1> DEFINE w == IF Pending(u, x) THEN Withdrawn(u, x) ELSE u
<1>1. /\ u.list \in Seq(KqueueChanges) /\ Len(u.list) \in Nat
      /\ u.active \in [Events -> BOOLEAN] /\ u.disabled \in [Events -> BOOLEAN]
      /\ \A i \in 1 .. Len(u.list) : u.list[i] \in KqueueChanges
  BY LenProperties DEF Tables
<1>2. CASE ~(u.active[x] = TRUE \/ u.disabled[x] = TRUE)
  <2>1. ForClose(u, x) = u
    BY <1>2 DEF ForClose
  <2>2. x \notin u.mislaid => None(u, x)
    BY <1>1, <1>2 DEF KqueueOk, None
  <2>3. u.active = [u.active EXCEPT ![x] = FALSE] /\ u.disabled = [u.disabled EXCEPT ![x] = FALSE]
    BY <1>1, <1>2
  <2> QED
    BY <1>1, <2>1, <2>2, <2>3 DEF LeftAlone
<1>3. CASE u.active[x] = TRUE \/ u.disabled[x] = TRUE
  <2> DEFINE v == ForClose(u, x)
  <2>1. v = Marked(w, x, FALSE, FALSE)
    <3>1. (~TRUE /\ ~Pending(u, x)) = FALSE
      OBVIOUS
    <3> QED
      BY <1>3, <3>1 DEF ForClose, KqueueDel, Marked
  <2>2. /\ w \in Tables(KqueueChanges) /\ Len(w.list) <= Len(u.list)
        /\ w.active = u.active /\ w.disabled = u.disabled /\ w.kernel = u.kernel
        /\ u.mislaid \subseteq w.mislaid
        /\ \A y \in Events \ w.mislaid : At(w, y)
        /\ x \notin w.mislaid => None(w, x)
        /\ \A y \in Events \ w.mislaid : y # x /\ KqueueOk(u, conn, y) => KqueueOk(w, conn, y)
        /\ \A y \in Events \ w.mislaid : None(u, y) => None(w, y)
    <3>1. CASE Pending(u, x)
      <4>1. w = Withdrawn(u, x)
        BY <3>1
      <4> HIDE DEF w
      <4>2. /\ w \in Tables(KqueueChanges) /\ Len(w.list) <= Len(u.list)
            /\ w.active = u.active /\ w.disabled = u.disabled /\ w.kernel = u.kernel
            /\ u.mislaid \subseteq w.mislaid
            /\ \A y \in Events \ w.mislaid : At(w, y)
            /\ x \notin w.mislaid => None(w, x)
            /\ \A j \in 1 .. Len(w.list) : \E k \in 1 .. Len(u.list) : w.list[j] = u.list[k]
        BY <3>1, <4>1, WithdrawnKeeps
      <4>3. \A y \in Events \ w.mislaid : y # x /\ KqueueOk(u, conn, y) => KqueueOk(w, conn, y)
        BY <3>1, <4>1, WithdrawnOk
      <4>4. \A y \in Events : None(u, y) => None(w, y)
        BY <4>2 DEF None
      <4> QED
        BY <4>2, <4>3, <4>4
    <3>2. CASE ~Pending(u, x)
      <4>1. w = u
        BY <3>2
      <4>2. ASSUME x \notin u.mislaid, NEW i \in 1 .. Len(u.list), u.list[i].event = x PROVE FALSE
        <5>1. u.index[x] = i - 1
          BY <4>2 DEF At
        <5>2. i - 1 \in 0 .. Len(u.list) - 1 /\ i - 1 + 1 = i
          BY <1>1
        <5> QED
          BY <3>2, <4>2, <5>1, <5>2 DEF Pending
      <4>3. x \notin u.mislaid => None(u, x)
        BY <4>2 DEF None
      <4> QED
        BY <1>1, <4>1, <4>3
    <3> QED
      BY <3>1, <3>2
  <2> HIDE DEF v, w
  <2>3. /\ v \in Tables(KqueueChanges) /\ v.list = w.list /\ v.kernel = w.kernel
        /\ v.index = w.index /\ v.mislaid = w.mislaid
        /\ v.active = [w.active EXCEPT ![x] = FALSE]
        /\ v.disabled = [w.disabled EXCEPT ![x] = FALSE]
    <3>1. v = [w EXCEPT !.active = [@ EXCEPT ![x] = FALSE], !.disabled = [@ EXCEPT ![x] = FALSE]]
      BY <2>1, <2>2 DEF Marked, Tables
    <3> QED
      BY <2>2, <3>1 DEF Tables
  <2>4. \A y \in Events \ v.mislaid : y # x /\ KqueueOk(u, conn, y) => KqueueOk(v, conn, y)
    <3> DEFINE off == FALSE
    <3>1. v = Marked(w, x, off, off) /\ off \in BOOLEAN
      BY <2>1
    <3> HIDE DEF off
    <3> QED
      BY <2>2, <2>3, <3>1, MarkedOk
  <2>5. \A y : (At(w, y) => At(v, y)) /\ (None(w, y) => None(v, y))
    BY <2>3 DEF At, None
  <2> QED
    BY <2>2, <2>3, <2>4, <2>5 DEF LeftAlone, v
<1> QED
  BY <1>2, <1>3

\* ngx_close_connection(): both events, and what the kernel had of the descriptor.
CloseEvents(u, f) == ForClose(ForClose(u, <<f, "read">>), <<f, "write">>)
ClosedKqueue(u, f) ==
  [CloseEvents(u, f) EXCEPT !.kernel = [x \in Events |-> IF x[1] = f THEN Off ELSE @[x]]]
IsClosed(u, f, v, c) ==
  /\ v \in Tables(KqueueChanges) /\ KqueueInv(v, c)
  /\ \A x \in Events : v.active[x] = IF x[1] = f THEN FALSE ELSE u.active[x]
  /\ \A x \in Events : v.disabled[x] = IF x[1] = f THEN FALSE ELSE u.disabled[x]
LEMMA KqueueCloseKeeps ==
  ASSUME MaxChanges \in Nat, conn \in Conns,
         NEW u \in Tables(KqueueChanges), KqueueInv(u, conn), NEW f \in Fds
  PROVE  IsClosed(u, f, ClosedKqueue(u, f), [conn EXCEPT ![f].open = FALSE])
<1> DEFINE r == <<f, "read">>
           s == <<f, "write">>
           u1 == ForClose(u, r)
           w == ForClose(u1, s)
           kernel == [x \in Events |-> IF x[1] = f THEN Off ELSE w.kernel[x]]
           v == [w EXCEPT !.kernel = kernel]
           c == [conn EXCEPT ![f].open = FALSE]
<1>1. r \in Events /\ s \in Events /\ r # s /\ \A x \in Events : x[1] = f <=> x = r \/ x = s
  BY DEF Events, Sides
<1>2. LeftAlone(u, r, u1)
  <2>1. \A y \in Events \ u.mislaid : At(u, y)
    BY OkMeansAt DEF KqueueInv
  <2>2. r \notin u.mislaid => KqueueOk(u, conn, r)
    BY <1>1 DEF KqueueInv
  <2> HIDE DEF r, s
  <2> QED
    BY <1>1, <2>1, <2>2, KqueueClosed
<1>3. LeftAlone(u1, s, w)
  <2> HIDE DEF u1, r, s
  <2>1. u1 \in Tables(KqueueChanges) /\ \A y \in Events \ u1.mislaid : At(u1, y)
    BY <1>2 DEF LeftAlone
  <2>2. s \notin u1.mislaid => KqueueOk(u1, conn, s)
    BY <1>1, <1>2 DEF LeftAlone, KqueueInv
  <2> QED
    BY <1>1, <2>1, <2>2, KqueueClosed
<1> HIDE DEF u1, r, s, w
<1>4. /\ v \in Tables(KqueueChanges) /\ v.list = w.list /\ v.kernel = kernel
      /\ v.index = w.index /\ v.mislaid = w.mislaid
      /\ v.active = w.active /\ v.disabled = w.disabled
  <2>1. w \in Tables(KqueueChanges)
    BY <1>3 DEF LeftAlone
  <2>2. kernel \in [Events -> {Off, 0, 1}]
    BY <2>1 DEF Tables
  <2> HIDE DEF kernel
  <2> QED
    BY <2>1, <2>2 DEF Tables
<1> HIDE DEF v
<1>5. \A x \in Events : /\ v.active[x] = IF x[1] = f THEN FALSE ELSE u.active[x]
                        /\ v.disabled[x] = IF x[1] = f THEN FALSE ELSE u.disabled[x]
  <2>1. /\ u.active \in [Events -> BOOLEAN] /\ u.disabled \in [Events -> BOOLEAN]
        /\ v.active = [[u.active EXCEPT ![r] = FALSE] EXCEPT ![s] = FALSE]
        /\ v.disabled = [[u.disabled EXCEPT ![r] = FALSE] EXCEPT ![s] = FALSE]
    BY <1>2, <1>3, <1>4 DEF LeftAlone, Tables
  <2> QED
    BY <1>1, <2>1
<1>6. Len(v.list) <= MaxChanges
  <2>1. Len(u.list) \in Nat /\ Len(u1.list) \in Nat /\ Len(w.list) \in Nat
    BY <1>2, <1>3, LenProperties DEF LeftAlone, Tables
  <2> QED
    BY <1>2, <1>3, <1>4, <2>1 DEF LeftAlone, KqueueInv
<1>7. c \in Conns /\ c[f].open = FALSE /\ \A g \in Fds : g # f => c[g] = conn[g]
  BY DEF Conns
<1> HIDE DEF c
<1>8. ASSUME NEW x \in Events, c[x[1]].open = FALSE PROVE v.kernel[x] = Off
  <2>1. x[1] \in Fds
    BY EventIs
  <2>2. w.kernel = u.kernel
    BY <1>2, <1>3 DEF LeftAlone
  <2> QED
    BY <1>4, <1>7, <1>8, <2>1, <2>2 DEF KqueueInv
<1>9. ASSUME NEW x \in Events \ v.mislaid PROVE KqueueOk(v, c, x)
  <2>0. x \notin w.mislaid /\ x \notin u1.mislaid /\ x \notin u.mislaid
    BY <1>2, <1>3, <1>4 DEF LeftAlone
  <2>1. CASE x[1] = f
    <3>1. None(w, x)
      BY <1>1, <1>2, <1>3, <2>0, <2>1 DEF LeftAlone
    <3>2. v.active[x] = FALSE /\ v.kernel[x] = Off
      BY <1>4, <1>5, <2>1
    <3> QED
      BY <1>4, <3>1, <3>2 DEF None, KqueueOk
  <2>2. CASE x[1] # f
    <3>1. KqueueOk(w, conn, x)
      BY <1>1, <1>2, <1>3, <2>0, <2>2 DEF LeftAlone, KqueueInv
    <3>2. v.kernel[x] = w.kernel[x]
      BY <1>4, <2>2
    <3>3. c[x[1]] = conn[x[1]]
      BY <1>7, <2>2, EventIs
    <3> QED
      BY <1>4, <3>1, <3>2, <3>3 DEF KqueueOk
  <2> QED
    BY <2>1, <2>2
<1>10. KqueueInv(v, c)
  BY <1>6, <1>8, <1>9 DEF KqueueInv
<1>11. v = ClosedKqueue(u, f) /\ c = [conn EXCEPT ![f].open = FALSE]
  BY <1>3 DEF v, c, w, u1, r, s, ClosedKqueue, CloseEvents, LeftAlone, Tables
<1>12. IsClosed(u, f, v, c)
  BY <1>4, <1>5, <1>10 DEF IsClosed
<1> QED
  BY <1>11, <1>12

LEMMA KqueueWatches ==
  ASSUME t \in Tables(KqueueChanges), KqueueInv(t, conn), OnlyOpen(t, conn), m = "kqueue",
         conn \in Conns, MaxChanges \in Nat
  PROVE  /\ Entered \in Tables(KqueueChanges) /\ KqueueInv(Entered, conn)
         /\ OnlyOpen(Entered, conn) /\ WatchedAreActive
         /\ \A x \in Watched(Entered) : conn[x[1]].open = TRUE
         /\ \A x \in Watched(Entered) \ Entered.mislaid : Entered.kernel[x] = conn[x[1]].instance
<1> DEFINE v == Passed(t)
<1>1. Entered = v
  BY DEF Entered
<1>2. /\ v \in Tables(KqueueChanges) /\ KqueueInv(v, conn)
      /\ v.active = t.active /\ v.disabled = t.disabled /\ v.mislaid \subseteq t.mislaid
      /\ \A x \in Events \ v.mislaid : v.kernel[x] = Told(t, x)
  BY KqueuePassed
<1> HIDE DEF v
<1>3. OnlyOpen(v, conn)
  BY <1>2 DEF OnlyOpen
<1>4. Watched(v) = {x \in Events : v.kernel[x] # Off}
  BY DEF Watched
<1>5. ASSUME NEW x \in Watched(v) PROVE conn[x[1]].open = TRUE
  <2>1. x \in Events /\ v.kernel[x] # Off
    BY <1>4
  <2>2. conn[x[1]].open \in BOOLEAN
    BY <2>1, EventIs DEF Conns
  <2> QED
    BY <1>2, <2>1, <2>2 DEF KqueueInv
<1>6. ASSUME NEW x \in Events \ t.mislaid
      PROVE  /\ v.kernel[x] # Off <=> x \in Active
             /\ x \in Active => v.kernel[x] = conn[x[1]].instance
  <2>1. conn[x[1]].instance \in {0, 1}
    BY EventIs DEF Conns
  <2>2. v.kernel[x] = Told(t, x)
    BY <1>2
  <2> QED
    BY <2>1, <2>2 DEF Told, Active, Off
<1>7. ASSUME NEW x \in Watched(v) \ v.mislaid PROVE v.kernel[x] = conn[x[1]].instance
  BY <1>2, <1>4, <1>7 DEF Told
<1>8. WatchedAreActive
  BY <1>1, <1>4, <1>6 DEF WatchedAreActive, Active
<1> QED
  BY <1>1, <1>2, <1>3, <1>5, <1>7, <1>8

-----------------------------------------------------------------------------
(* The tables of any method.                                               *)

LEMMA AddKeeps ==
  ASSUME EventMethodsAssumption, conn \in Conns, TableInv(t, conn), OnlyOpen(t, conn),
         NEW x \in Events, conn[x[1]].open = TRUE, t.active[x] = FALSE
  PROVE  TableInv(Added(t, x), conn) /\ OnlyOpen(Added(t, x), conn)
<1> DEFINE v == Added(t, x)
<1>0. /\ MaxChanges \in Nat \ {0} /\ Fds \subseteq Nat
      /\ m \in {"select", "poll", "devpoll", "kqueue", "epoll"}
      /\ m # "kqueue" => t.mislaid = {} /\ \A y \in Events : t.disabled[y] = FALSE
  BY DEF EventMethodsAssumption, TableInv
<1>1. SUFFICES /\ TableInv(v, conn) /\ v.active = [t.active EXCEPT ![x] = TRUE]
               /\ \A y \in Events : v.disabled[y] = TRUE => y = x \/ t.disabled[y] = TRUE
  <2>1. t.active \in [Events -> BOOLEAN]
    BY <1>0 DEF TableInv, Tables
  <2> HIDE DEF v
  <2>2. OnlyOpen(v, conn)
    BY <1>1, <2>1 DEF OnlyOpen
  <2> QED
    BY <1>1, <2>2 DEF v
<1> HIDE DEF v
<1>2. CASE m = "select"
  <2>1. v = SelectAdd(t, x)
    BY <1>2 DEF Added, v
  <2>2. t \in Tables(Events) /\ SelectInv(t)
    BY <1>2 DEF TableInv
  <2>3. /\ v \in Tables(Events) /\ SelectInv(v) /\ v.active = [t.active EXCEPT ![x] = TRUE]
        /\ v.disabled = t.disabled /\ v.mislaid = t.mislaid
    BY <1>0, <2>1, <2>2, SelectAddKeeps
  <2> QED
    BY <1>0, <1>2, <2>3 DEF TableInv
<1>3. CASE m = "poll"
  <2>1. v = PollAdd(t, x)
    BY <1>3 DEF Added, v
  <2>2. t \in Tables(PollEntries) /\ PollInv(t)
    BY <1>3 DEF TableInv
  <2>3. /\ v \in Tables(PollEntries) /\ PollInv(v) /\ v.active = [t.active EXCEPT ![x] = TRUE]
        /\ v.disabled = t.disabled /\ v.mislaid = t.mislaid
    BY <1>0, <2>1, <2>2, PollAddKeeps
  <2> QED
    BY <1>0, <1>3, <2>3 DEF TableInv
<1>4. CASE m = "epoll"
  <2>1. v = EpollAdd(t, x)
    BY <1>4 DEF Added, v
  <2>2. t \in Tables({}) /\ EpollInv(t, conn)
    BY <1>4 DEF TableInv
  <2>3. /\ v \in Tables({}) /\ EpollInv(v, conn) /\ v.active = [t.active EXCEPT ![x] = TRUE]
        /\ v.disabled = t.disabled /\ v.mislaid = t.mislaid
    BY <1>0, <2>1, <2>2, EpollAddKeeps
  <2> QED
    BY <1>0, <1>4, <2>3 DEF TableInv
<1>5. CASE m = "devpoll"
  <2>1. v = DevpollAdd(t, x)
    BY <1>5 DEF Added, v
  <2>2. t \in Tables(DevpollChanges) /\ DevpollInv(t) /\ t.mislaid = {}
    BY <1>0, <1>5 DEF TableInv
  <2>3. /\ v \in Tables(DevpollChanges) /\ DevpollInv(v) /\ v.active = [t.active EXCEPT ![x] = TRUE]
        /\ v.disabled = t.disabled /\ v.mislaid = {}
    BY <1>0, <1>5, <2>1, <2>2, DevpollAddKeeps
  <2> QED
    BY <1>0, <1>5, <2>3 DEF TableInv
<1>6. CASE m = "kqueue"
  <2>1. v = KqueueAdd(t, x)
    BY <1>6 DEF Added, v
  <2>2. t \in Tables(KqueueChanges) /\ KqueueInv(t, conn)
    BY <1>6 DEF TableInv
  <2>3. /\ v \in Tables(KqueueChanges) /\ KqueueInv(v, conn)
        /\ v.active = [t.active EXCEPT ![x] = TRUE]
        /\ v.disabled = [t.disabled EXCEPT ![x] = FALSE]
    BY <1>0, <1>6, <2>1, <2>2, KqueueAddKeeps
  <2>4. t.disabled \in [Events -> BOOLEAN]
    BY <2>2 DEF Tables
  <2>5. TableInv(v, conn)
    BY <1>6, <2>3 DEF TableInv
  <2>6. \A y \in Events : v.disabled[y] = TRUE => y = x \/ t.disabled[y] = TRUE
    BY <2>3, <2>4
  <2> QED
    BY <2>3, <2>5, <2>6
<1> QED
  BY <1>0, <1>2, <1>3, <1>4, <1>5, <1>6

LEMMA DelKeeps ==
  ASSUME EventMethodsAssumption, conn \in Conns, TableInv(t, conn), OnlyOpen(t, conn),
         NEW x \in Events, conn[x[1]].open = TRUE, t.active[x] = TRUE
  PROVE  TableInv(Deleted(t, x, FALSE), conn) /\ OnlyOpen(Deleted(t, x, FALSE), conn)
<1> DEFINE v == Deleted(t, x, FALSE)
<1>0. /\ MaxChanges \in Nat \ {0} /\ Fds \subseteq Nat
      /\ m \in {"select", "poll", "devpoll", "kqueue", "epoll"}
      /\ m # "kqueue" => t.mislaid = {} /\ \A y \in Events : t.disabled[y] = FALSE
  BY DEF EventMethodsAssumption, TableInv
<1>1. SUFFICES /\ TableInv(v, conn) /\ v.active = [t.active EXCEPT ![x] = FALSE]
               /\ \A y \in Events : v.disabled[y] = TRUE => y = x \/ t.disabled[y] = TRUE
  <2>1. t.active \in [Events -> BOOLEAN]
    BY <1>0 DEF TableInv, Tables
  <2>2. OnlyOpen(v, conn)
    BY <1>1, <2>1 DEF OnlyOpen
  <2> QED
    BY <1>1, <2>2 DEF v
<1> HIDE DEF v
<1>2. CASE m = "select"
  <2>1. v = SelectDel(t, x)
    BY <1>2 DEF Deleted, v
  <2>2. t \in Tables(Events) /\ SelectInv(t)
    BY <1>2 DEF TableInv
  <2>3. /\ v \in Tables(Events) /\ SelectInv(v) /\ v.active = [t.active EXCEPT ![x] = FALSE]
        /\ v.disabled = t.disabled /\ v.mislaid = t.mislaid
    BY <1>0, <2>1, <2>2, SelectDelKeeps
  <2> QED
    BY <1>0, <1>2, <2>3 DEF TableInv
<1>3. CASE m = "poll"
  <2>1. v = PollDel(t, x)
    BY <1>3 DEF Deleted, v
  <2>2. t \in Tables(PollEntries) /\ PollInv(t)
    BY <1>3 DEF TableInv
  <2>3. /\ v \in Tables(PollEntries) /\ PollInv(v) /\ v.active = [t.active EXCEPT ![x] = FALSE]
        /\ v.disabled = t.disabled /\ v.mislaid = t.mislaid
    BY <1>0, <2>1, <2>2, PollDelKeeps
  <2> QED
    BY <1>0, <1>3, <2>3 DEF TableInv
<1>4. CASE m = "epoll"
  <2>1. v = EpollDel(t, x, FALSE)
    BY <1>4 DEF Deleted, v
  <2>2. t \in Tables({}) /\ EpollInv(t, conn)
    BY <1>4 DEF TableInv
  <2>3. /\ v \in Tables({}) /\ EpollInv(v, conn) /\ v.active = [t.active EXCEPT ![x] = FALSE]
        /\ v.disabled = t.disabled /\ v.mislaid = t.mislaid
    BY <1>0, <2>1, <2>2, EpollDelKeeps
  <2> QED
    BY <1>0, <1>4, <2>3 DEF TableInv
<1>5. CASE m = "devpoll"
  <2> DEFINE off == FALSE
  <2>1. v = DevpollDel(t, x, off) /\ off = FALSE /\ off \in BOOLEAN
    BY <1>5 DEF Deleted, v
  <2>2. /\ t \in Tables(DevpollChanges) /\ DevpollInv(t) /\ t.mislaid = {}
        /\ Len(t.list) <= MaxChanges
    BY <1>0, <1>5 DEF TableInv, DevpollInv
  <2> HIDE DEF off
  <2>3. /\ v \in Tables(DevpollChanges) /\ Len(v.list) <= MaxChanges
        /\ v.active = [t.active EXCEPT ![x] = FALSE]
        /\ v.disabled = t.disabled /\ v.mislaid = {}
        /\ \A y \in Events : y[1] # x[1] => V(v)[y] = V(t)[y]
        /\ V(v)[Other(x)] # Off
    <3>1. DevpollLeft(t, x, off, v)
      BY <1>0, <1>5, <2>1, <2>2, DevpollDelKeeps
    <3> QED
      BY <2>1, <3>1 DEF DevpollLeft
  <2>4. ASSUME NEW y \in Events, v.active[y] = TRUE PROVE V(v)[y] # Off
    <3>1. t.active \in [Events -> BOOLEAN]
      BY <2>2 DEF Tables
    <3>2. y # x /\ t.active[y] = TRUE
      BY <2>3, <2>4, <3>1
    <3>3. CASE y[1] = x[1]
      <4>1. y = Other(x)
        BY <3>2, <3>3, EventIs
      <4> QED
        BY <2>3, <4>1
    <3>4. CASE y[1] # x[1]
      BY <2>2, <2>3, <3>2, <3>4 DEF DevpollInv, V
    <3> QED
      BY <3>3, <3>4
  <2>5. DevpollInv(v)
    BY <2>3, <2>4 DEF DevpollInv, V
  <2> QED
    BY <1>0, <1>5, <2>3, <2>5 DEF TableInv
<1>6. CASE m = "kqueue"
  <2>1. v = KqueueDel(t, x, FALSE)
    BY <1>6 DEF Deleted, v
  <2>2. t \in Tables(KqueueChanges) /\ KqueueInv(t, conn)
    BY <1>6 DEF TableInv
  <2>3. /\ v \in Tables(KqueueChanges) /\ KqueueInv(v, conn)
        /\ v.active = [t.active EXCEPT ![x] = FALSE]
        /\ \A y \in Events : y # x => v.disabled[y] = t.disabled[y]
    BY <1>0, <1>6, <2>1, <2>2, KqueueDelKeeps
  <2>5. TableInv(v, conn)
    BY <1>6, <2>3 DEF TableInv
  <2> QED
    BY <2>3, <2>5
<1> QED
  BY <1>0, <1>2, <1>3, <1>4, <1>5, <1>6

\* ngx_epoll_add_connection()
LEMMA AddConnectionKeeps ==
  ASSUME EventMethodsAssumption, conn \in Conns, TableInv(t, conn), OnlyOpen(t, conn),
         NEW f \in Fds, AddConnection(f)
  PROVE  TableInv(t, conn)' /\ OnlyOpen(t, conn)'
<1> DEFINE active == [x \in Events |-> x[1] = f \/ t.active[x]]
           kernel == [x \in Events |-> IF x[1] = f THEN conn[f].instance ELSE t.kernel[x]]
<1>1. /\ m = "epoll" /\ conn[f].open = TRUE /\ m' = m /\ conn' = conn
      /\ t \in Tables({}) /\ EpollInv(t, conn) /\ t.mislaid = {}
      /\ \A x \in Events : t.disabled[x] = FALSE
  BY DEF AddConnection, TableInv, Conns
<1>2. t' = [t EXCEPT !.active = active, !.kernel = kernel]
  BY <1>1 DEF AddConnection, Tables
<1>3. /\ active \in [Events -> BOOLEAN] /\ kernel \in [Events -> {Off, 0, 1}]
      /\ \A x \in Events : x[1] = f => active[x] = TRUE /\ kernel[x] = conn[f].instance
      /\ \A x \in Events : x[1] # f => active[x] = t.active[x] /\ kernel[x] = t.kernel[x]
  <2>1. t.active \in [Events -> BOOLEAN] /\ t.kernel \in [Events -> {Off, 0, 1}]
    BY <1>1 DEF Tables
  <2>2. conn[f].instance \in {0, 1}
    BY DEF Conns
  <2>3. ASSUME NEW x \in Events PROVE active[x] = (x[1] = f \/ t.active[x])
    OBVIOUS
  <2>4. active \in [Events -> BOOLEAN]
    <3>1. \A x \in Events : (x[1] = f \/ t.active[x]) \in BOOLEAN
      OBVIOUS
    <3> QED
      BY <3>1, Zenon
  <2>5. ASSUME NEW x \in Events, x[1] = f PROVE active[x] = TRUE
    BY <2>3, <2>5
  <2>6. ASSUME NEW x \in Events, x[1] # f PROVE active[x] = t.active[x]
    BY <2>1, <2>3, <2>6
  <2> QED
    BY <2>1, <2>2, <2>4, <2>5, <2>6
<1> HIDE DEF active, kernel
<1>4. /\ t' \in Tables({}) /\ t'.active = active /\ t'.kernel = kernel /\ t'.mislaid = {}
      /\ t'.disabled = t.disabled
  BY <1>1, <1>2, <1>3 DEF Tables
<1>5. EpollInv(t', conn')
  BY <1>1, <1>3, <1>4 DEF EpollInv
<1>6. OnlyOpen(t', conn')
  BY <1>1, <1>3, <1>4 DEF OnlyOpen
<1> QED
  BY <1>1, <1>4, <1>5, <1>6 DEF TableInv, OnlyOpen

\* Open(f): the events of the new connection are not active and not disabled.
Reset(u, f) ==
  [ u EXCEPT !.active = [x \in Events |-> x[1] # f /\ u.active[x]],
      !.disabled = [x \in Events |-> x[1] # f /\ u.disabled[x]],
      !.index = [x \in Events |-> IF x[1] = f THEN Invalid ELSE u.index[x]] ]
IsReset(u, f, v) ==
  /\ v.list = u.list /\ v.kernel = u.kernel /\ v.max_fd = u.max_fd /\ v.mislaid = u.mislaid
  /\ \A x \in Events : x[1] = f =>
       v.active[x] = FALSE /\ v.disabled[x] = FALSE /\ v.index[x] = Invalid
  /\ \A x \in Events : x[1] # f =>
       v.active[x] = u.active[x] /\ v.disabled[x] = u.disabled[x] /\ v.index[x] = u.index[x]
LEMMA ResetIs ==
  ASSUME NEW entries, NEW u \in Tables(entries), NEW f \in Fds
  PROVE  /\ Reset(u, f) \in Tables(entries)
         /\ IsReset(u, f, Reset(u, f))
<1> DEFINE active == [x \in Events |-> x[1] # f /\ u.active[x]]
           disabled == [x \in Events |-> x[1] # f /\ u.disabled[x]]
           index == [x \in Events |-> IF x[1] = f THEN Invalid ELSE u.index[x]]
           v == Reset(u, f)
<1>1. /\ u.active \in [Events -> BOOLEAN] /\ u.disabled \in [Events -> BOOLEAN]
      /\ u.index \in [Events -> Nat \cup {Invalid}]
  BY DEF Tables
<1>2. v = [u EXCEPT !.active = active, !.disabled = disabled, !.index = index]
  BY DEF Reset
<1>3. index \in [Events -> Nat \cup {Invalid}]
  BY <1>1
<1>4. active \in [Events -> BOOLEAN] /\ disabled \in [Events -> BOOLEAN]
  <2>1. \A x \in Events : (x[1] # f /\ u.active[x]) \in BOOLEAN
    OBVIOUS
  <2>2. \A x \in Events : (x[1] # f /\ u.disabled[x]) \in BOOLEAN
    OBVIOUS
  <2> QED
    BY <2>1, <2>2, Zenon
<1>5. ASSUME NEW x \in Events
      PROVE  /\ active[x] = (x[1] # f /\ u.active[x]) /\ disabled[x] = (x[1] # f /\ u.disabled[x])
             /\ index[x] = IF x[1] = f THEN Invalid ELSE u.index[x]
  OBVIOUS
<1> HIDE DEF v, active, disabled, index
<1>6. /\ v \in Tables(entries) /\ v.list = u.list /\ v.kernel = u.kernel
      /\ v.max_fd = u.max_fd /\ v.mislaid = u.mislaid
      /\ v.active = active /\ v.disabled = disabled /\ v.index = index
  BY <1>2, <1>3, <1>4 DEF Tables
<1>7. ASSUME NEW x \in Events, x[1] = f
      PROVE  v.active[x] = FALSE /\ v.disabled[x] = FALSE /\ v.index[x] = Invalid
  BY <1>5, <1>6, <1>7
<1>8. ASSUME NEW x \in Events, x[1] # f
      PROVE  v.active[x] = u.active[x] /\ v.disabled[x] = u.disabled[x] /\ v.index[x] = u.index[x]
  <2>1. active[x] = u.active[x]
    BY <1>1, <1>5, <1>8
  <2>2. disabled[x] = u.disabled[x]
    BY <1>1, <1>5, <1>8
  <2> QED
    BY <1>5, <1>6, <1>8, <2>1, <2>2
<1> QED
  BY <1>6, <1>7, <1>8 DEF v, IsReset

LEMMA OpenKeeps ==
  ASSUME EventMethodsAssumption, conn \in Conns, TableInv(t, conn), OnlyOpen(t, conn),
         NEW f \in Fds, Open(f)
  PROVE  conn' \in Conns /\ TableInv(t, conn)' /\ OnlyOpen(t, conn)'
<1>1. /\ conn[f].open = FALSE /\ m' = m /\ t' = Reset(t, f)
      /\ conn' = [conn EXCEPT ![f] = [open |-> TRUE, instance |-> 1 - conn[f].instance,
                                      gen |-> conn[f].gen + 1]]
      /\ m \in {"select", "poll", "devpoll", "kqueue", "epoll"}
  <2>1. Open(f) /\ conn[f].open \in BOOLEAN
    BY DEF Conns
  <2>2. conn[f].open = FALSE /\ m' = m
    BY <2>1 DEF Open
  <2>3. conn' = [conn EXCEPT ![f] = [open |-> TRUE, instance |-> 1 - conn[f].instance,
                                     gen |-> conn[f].gen + 1]]
    BY DEF Open, Conns
  <2>4. t' = Reset(t, f)
    BY DEF Open, Reset
  <2> QED
    BY <2>2, <2>3, <2>4 DEF TableInv
<1>2. /\ conn' \in Conns /\ conn'[f].open = TRUE /\ \A g \in Fds : g # f => conn'[g] = conn[g]
  <2>1. conn[f].instance \in {0, 1} /\ conn[f].gen \in Nat
    BY DEF Conns
  <2>2. 1 - conn[f].instance \in {0, 1} /\ conn[f].gen + 1 \in Nat
    BY <2>1
  <2> DEFINE new == [open |-> TRUE, instance |-> 1 - conn[f].instance, gen |-> conn[f].gen + 1]
  <2>3. new \in [open : BOOLEAN, instance : {0, 1}, gen : Nat] /\ new.open = TRUE
    BY <2>2
  <2> HIDE DEF new
  <2>4. conn' = [conn EXCEPT ![f] = new]
    BY <1>1 DEF new
  <2> QED
    BY <2>3, <2>4 DEF Conns
<1>3. \A x \in Events : x[1] \in Fds /\ (x[1] = f => t.active[x] # TRUE /\ t.disabled[x] # TRUE)
  BY <1>1, EventIs DEF OnlyOpen
<1>4. \E entries : t \in Tables(entries)
  BY <1>1 DEF TableInv
<1>5. /\ t'.list = t.list /\ t'.kernel = t.kernel
      /\ t'.max_fd = t.max_fd /\ t'.mislaid = t.mislaid
      /\ \A x \in Events : x[1] = f => /\ t'.active[x] = FALSE /\ t'.disabled[x] = FALSE
                                       /\ t'.index[x] = Invalid
      /\ \A x \in Events : x[1] # f => /\ t'.active[x] = t.active[x]
                                       /\ t'.disabled[x] = t.disabled[x]
                                       /\ t'.index[x] = t.index[x]
  <2>1. PICK entries : t \in Tables(entries)
    BY <1>4
  <2> QED
    <3>1. IsReset(t, f, t')
      BY <1>1, <2>1, ResetIs
    <3> QED
      BY <3>1 DEF IsReset
<1>6. t.active \in [Events -> BOOLEAN] /\ t.disabled \in [Events -> BOOLEAN]
  BY <1>4 DEF Tables
<1>7. \A x \in Events : t'.active[x] = t.active[x] /\ t'.disabled[x] = t.disabled[x]
  BY <1>3, <1>5, <1>6
<1>8. OnlyOpen(t', conn')
  BY <1>2, <1>3, <1>7 DEF OnlyOpen
<1>9. CASE m = "select"
  <2>1. t \in Tables(Events) /\ SelectInv(t) /\ t'\in Tables(Events)
    BY <1>1, <1>9, ResetIs DEF TableInv
  <2>2. ASSUME NEW x \in Events PROVE t'.index[x] = t.index[x]
    <3>1. t.active[x] # TRUE => t.index[x] = Invalid
      BY <2>1 DEF SelectInv
    <3> QED
      BY <1>3, <1>5, <3>1
  <2>3. \A i \in 1 .. Len(t.list) : t.list[i] \in Events
    BY <2>1 DEF Tables
  <2>4. SelectInv(t')
    <3>1. SelectInv(t) /\ t'.list = t.list /\ t'.kernel = t.kernel /\ t'.max_fd = t.max_fd
      BY <1>5, <2>1
    <3>2. ASSUME NEW i \in 1 .. Len(t'.list) PROVE t'.index[t'.list[i]] = i - 1
      BY <2>2, <2>3, <3>1 DEF SelectInv
    <3>3. ASSUME NEW x \in Events
          PROVE  IF t'.active[x] = TRUE
                 THEN /\ t'.index[x] \in 0 .. Len(t'.list) - 1 /\ t'.list[t'.index[x] + 1] = x
                      /\ t'.kernel[x] = 0
                 ELSE t'.index[x] = Invalid /\ t'.kernel[x] = Off
      <4>1. /\ t'.index[x] = t.index[x] /\ t'.active[x] = t.active[x]
            /\ t'.kernel[x] = t.kernel[x]
        BY <1>7, <2>2, <3>1
      <4> QED
        BY <3>1, <4>1 DEF SelectInv
    <3>4. t'.max_fd # -1 => \A x \in Events : t'.active[x] = TRUE => x[1] <= t'.max_fd
      BY <1>7, <3>1 DEF SelectInv
    <3> QED
      BY <3>2, <3>3, <3>4 DEF SelectInv
  <2> QED
    BY <1>1, <1>2, <1>5, <1>7, <1>8, <1>9, <2>1, <2>4 DEF TableInv, OnlyOpen
<1>10. CASE m = "poll"
  <2>1. t \in Tables(PollEntries) /\ PollInv(t) /\ t'\in Tables(PollEntries)
    BY <1>1, <1>10, ResetIs DEF TableInv
  <2>2. ASSUME NEW x \in Events PROVE t'.index[x] = t.index[x]
    <3>1. t.active[x] # TRUE => t.index[x] = Invalid
      BY <2>1 DEF PollInv
    <3> QED
      BY <1>3, <1>5, <3>1
  <2>3. \A i \in 1 .. Len(t.list) : \A s \in t.list[i].events : <<t.list[i].fd, s>> \in Events
    <3>1. \A i \in 1 .. Len(t.list) : t.list[i] \in PollEntries
      BY <2>1 DEF Tables
    <3> QED
      BY <3>1 DEF PollEntries, Events
  <2>4. \A x \in Events : Other(x) \in Events
    BY EventIs
  <2>5. PollInv(t')
    <3>1. PollInv(t) /\ t'.list = t.list
      BY <1>5, <2>1
    <3>2. ASSUME NEW i \in 1 .. Len(t'.list), NEW s \in t'.list[i].events
          PROVE  /\ t'.active[<<t'.list[i].fd, s>>] = TRUE
                 /\ t'.index[<<t'.list[i].fd, s>>] = i - 1
      <4> DEFINE x == <<t.list[i].fd, s>>
      <4>1. x \in Events /\ t.active[x] = TRUE /\ t.index[x] = i - 1
        BY <2>3, <3>1 DEF PollInv
      <4> HIDE DEF x
      <4>2. t'.active[x] = TRUE /\ t'.index[x] = i - 1
        BY <1>7, <2>2, <4>1
      <4> QED
        BY <3>1, <4>2 DEF x
    <3>3. ASSUME NEW x \in Events
          PROVE  IF t'.active[x] = TRUE
                 THEN /\ t'.index[x] \in 0 .. Len(t'.list) - 1
                      /\ t'.list[t'.index[x] + 1].fd = x[1]
                      /\ x[2] \in t'.list[t'.index[x] + 1].events
                 ELSE t'.index[x] = Invalid
      <4>1. t'.index[x] = t.index[x] /\ t'.active[x] = t.active[x]
        BY <1>7, <2>2
      <4> QED
        BY <3>1, <4>1 DEF PollInv
    <3>4. ASSUME NEW x \in Events, t'.active[x] = TRUE, t'.active[Other(x)] = TRUE
          PROVE  t'.index[x] = t'.index[Other(x)]
      BY <1>7, <2>2, <2>4, <3>1, <3>4 DEF PollInv
    <3> QED
      BY <3>2, <3>3, <3>4 DEF PollInv
  <2> QED
    BY <1>1, <1>2, <1>5, <1>7, <1>8, <1>10, <2>1, <2>5 DEF TableInv, OnlyOpen
<1>11. CASE m = "epoll"
  <2>1. t \in Tables({}) /\ EpollInv(t, conn) /\ t'\in Tables({})
    BY <1>1, <1>11, ResetIs DEF TableInv
  <2>2. ASSUME NEW x \in Events
        PROVE  t'.kernel[x] = IF t'.active[x] = TRUE THEN conn'[x[1]].instance ELSE Off
    <3>1. t.kernel[x] = IF t.active[x] = TRUE THEN conn[x[1]].instance ELSE Off
      BY <2>1 DEF EpollInv
    <3>2. t'.kernel[x] = t.kernel[x] /\ t'.active[x] = t.active[x]
      BY <1>5, <1>7
    <3>3. CASE t.active[x] = TRUE
      <4>1. conn'[x[1]] = conn[x[1]]
        BY <1>2, <1>3, <3>3
      <4> QED
        BY <3>1, <3>2, <3>3, <4>1
    <3>4. CASE t.active[x] # TRUE
      BY <3>1, <3>2, <3>4
    <3> QED
      BY <3>3, <3>4
  <2>3. EpollInv(t', conn')
    BY <2>2 DEF EpollInv
  <2> QED
    BY <1>1, <1>2, <1>5, <1>7, <1>8, <1>11, <2>1, <2>3 DEF TableInv, OnlyOpen
<1>12. CASE m = "devpoll"
  <2>1. t \in Tables(DevpollChanges) /\ DevpollInv(t) /\ t'\in Tables(DevpollChanges)
    BY <1>1, <1>12, ResetIs DEF TableInv
  <2>2. DevpollInv(t')
    BY <1>5, <1>7, <2>1 DEF DevpollInv
  <2> QED
    BY <1>1, <1>2, <1>5, <1>7, <1>8, <1>12, <2>1, <2>2 DEF TableInv, OnlyOpen
<1>13. CASE m = "kqueue"
  <2>1. t \in Tables(KqueueChanges) /\ KqueueInv(t, conn) /\ t'\in Tables(KqueueChanges)
    BY <1>1, <1>13, ResetIs DEF TableInv
  <2>2. ASSUME NEW x \in Events \ t.mislaid PROVE KqueueOk(t', conn', x)
    <3>1. KqueueOk(t, conn, x)
      BY <2>1 DEF KqueueInv
    <3>2. CASE x[1] = f
      <4>1. None(t, x)
        BY <1>1, <3>1, <3>2 DEF None, KqueueOk
      <4>2. t'.kernel[x] = Off /\ t'.active[x] = FALSE
        BY <1>1, <1>5, <2>1, <3>2 DEF KqueueInv
      <4> QED
        BY <1>5, <4>1, <4>2 DEF None, KqueueOk
    <3>3. CASE x[1] # f
      <4>1. conn'[x[1]] = conn[x[1]]
        BY <1>2, <1>3, <3>3
      <4>2. t'.index[x] = t.index[x]
        BY <1>5, <3>3
      <4> QED
        BY <1>5, <1>7, <3>1, <4>1, <4>2 DEF KqueueOk
    <3> QED
      BY <3>2, <3>3
  <2>3. ASSUME NEW x \in Events, conn'[x[1]].open = FALSE PROVE t'.kernel[x] = Off
    <3>1. x[1] # f /\ conn[x[1]].open = FALSE
      BY <1>2, <1>3, <2>3
    <3> QED
      BY <1>5, <2>1, <3>1 DEF KqueueInv
  <2>4. KqueueInv(t', conn')
    BY <1>5, <2>1, <2>2, <2>3 DEF KqueueInv
  <2> QED
    BY <1>1, <1>2, <1>8, <1>13, <2>1, <2>4 DEF TableInv, OnlyOpen
<1> QED
  BY <1>1, <1>9, <1>10, <1>11, <1>12, <1>13

\* ngx_close_connection(): an event that is active or disabled is deleted.
Shut(u, x) == IF u.active[x] \/ u.disabled[x] THEN Deleted(u, x, TRUE) ELSE u
Inactive(u, x, v) ==
  v.active = [u.active EXCEPT ![x] = FALSE] /\ v.disabled = u.disabled /\ v.mislaid = u.mislaid
LEMMA ShutIs ==
  ASSUME NEW entries, NEW u \in Tables(entries), NEW x \in Events
  PROVE  /\ u.active[x] = TRUE => Shut(u, x) = Deleted(u, x, TRUE)
         /\ u.active[x] = FALSE /\ u.disabled[x] = FALSE =>
              Shut(u, x) = u /\ Inactive(u, x, Shut(u, x))
         /\ u.active[x] \in BOOLEAN /\ u.active \in [Events -> BOOLEAN]
<1>1. u.active \in [Events -> BOOLEAN] /\ u.active[x] \in BOOLEAN
  BY DEF Tables
<1>2. ASSUME u.active[x] = TRUE PROVE Shut(u, x) = Deleted(u, x, TRUE)
  BY <1>2 DEF Shut
<1>3. ASSUME u.active[x] = FALSE, u.disabled[x] = FALSE
      PROVE  Shut(u, x) = u /\ Inactive(u, x, Shut(u, x))
  <2>1. Shut(u, x) = u
    BY <1>3 DEF Shut
  <2>2. u.active = [u.active EXCEPT ![x] = FALSE]
    BY <1>1, <1>3
  <2> QED
    BY <2>1, <2>2 DEF Inactive
<1> QED
  BY <1>1, <1>2, <1>3

LEMMA ArraysShut ==
  ASSUME Fds \subseteq Nat, m \in {"select", "poll"}, NEW u, TableInv(u, conn),
         OnlyOpen(u, conn), NEW x \in Events
  PROVE  TableInv(Shut(u, x), conn) /\ OnlyOpen(Shut(u, x), conn) /\ Inactive(u, x, Shut(u, x))
<1> DEFINE v == Shut(u, x)
<1>0. u.disabled[x] = FALSE /\ \E entries : u \in Tables(entries)
  BY DEF TableInv
<1>1. PICK entries : u \in Tables(entries)
  BY <1>0
<1>2. /\ u.active[x] = TRUE => v = Deleted(u, x, TRUE)
      /\ u.active[x] = FALSE => v = u /\ Inactive(u, x, v)
      /\ u.active[x] \in BOOLEAN /\ u.active \in [Events -> BOOLEAN]
  BY <1>0, <1>1, ShutIs
<1> HIDE DEF v
<1>3. SUFFICES TableInv(v, conn) /\ Inactive(u, x, v)
  <2>1. OnlyOpen(v, conn)
    BY <1>2, <1>3 DEF OnlyOpen, Inactive
  <2> QED
    BY <1>3, <2>1 DEF v
<1>4. CASE u.active[x] = FALSE
  BY <1>2, <1>4
<1>5. CASE u.active[x] = TRUE /\ m = "select"
  <2>1. v = SelectDel(u, x)
    BY <1>2, <1>5 DEF Deleted
  <2>2. u \in Tables(Events) /\ SelectInv(u)
    BY <1>5 DEF TableInv
  <2>3. /\ v \in Tables(Events) /\ SelectInv(v) /\ v.active = [u.active EXCEPT ![x] = FALSE]
        /\ v.disabled = u.disabled /\ v.mislaid = u.mislaid
    BY <1>5, <2>1, <2>2, SelectDelKeeps
  <2> QED
    BY <1>5, <2>3 DEF TableInv, Inactive
<1>6. CASE u.active[x] = TRUE /\ m = "poll"
  <2>1. v = PollDel(u, x)
    BY <1>2, <1>6 DEF Deleted
  <2>2. u \in Tables(PollEntries) /\ PollInv(u)
    BY <1>6 DEF TableInv
  <2>3. /\ v \in Tables(PollEntries) /\ PollInv(v) /\ v.active = [u.active EXCEPT ![x] = FALSE]
        /\ v.disabled = u.disabled /\ v.mislaid = u.mislaid
    BY <1>6, <2>1, <2>2, PollDelKeeps
  <2> QED
    BY <1>6, <2>3 DEF TableInv, Inactive
<1> QED
  BY <1>2, <1>4, <1>5, <1>6

LEMMA EpollShut ==
  ASSUME m = "epoll", NEW u \in Tables({}), NEW x \in Events, u.disabled[x] = FALSE
  PROVE  /\ Shut(u, x) \in Tables({}) /\ Shut(u, x).kernel = u.kernel
         /\ Inactive(u, x, Shut(u, x))
<1> DEFINE v == Shut(u, x)
<1>1. /\ u.active[x] = TRUE => v = Deleted(u, x, TRUE)
      /\ u.active[x] = FALSE => v = u /\ Inactive(u, x, v)
      /\ u.active[x] \in BOOLEAN
  BY ShutIs
<1>2. CASE u.active[x] = TRUE
  <2>1. Deleted(u, x, TRUE) = EpollDel(u, x, TRUE)
    BY DEF Deleted
  <2>2. v = EpollDel(u, x, TRUE)
    BY <1>1, <1>2, <2>1
  <2> QED
    BY <2>2, EpollClosed DEF Inactive
<1>3. CASE u.active[x] = FALSE
  BY <1>1, <1>3
<1> QED
  BY <1>1, <1>2, <1>3

LEMMA DevpollShut ==
  ASSUME m = "devpoll", MaxChanges \in Nat \ {0}, NEW u \in Tables(DevpollChanges),
         u.mislaid = {}, Len(u.list) <= MaxChanges, NEW x \in Events, u.disabled[x] = FALSE
  PROVE  /\ Shut(u, x) \in Tables(DevpollChanges) /\ Len(Shut(u, x).list) <= MaxChanges
         /\ Inactive(u, x, Shut(u, x))
         /\ \A y \in Events : y[1] # x[1] => V(Shut(u, x))[y] = V(u)[y]
<1> DEFINE v == Shut(u, x)
<1>1. /\ u.active[x] = TRUE => v = Deleted(u, x, TRUE)
      /\ u.active[x] = FALSE => v = u /\ Inactive(u, x, v)
      /\ u.active[x] \in BOOLEAN
  BY ShutIs
<1> HIDE DEF v
<1>2. CASE u.active[x] = TRUE
  <2> DEFINE on == TRUE
  <2>1. v = DevpollDel(u, x, on) /\ on \in BOOLEAN
    <3>1. Deleted(u, x, TRUE) = DevpollDel(u, x, TRUE)
      BY DEF Deleted
    <3> QED
      BY <1>1, <1>2, <3>1
  <2> HIDE DEF on
  <2>2. DevpollLeft(u, x, on, v)
    BY <2>1, DevpollDelKeeps
  <2> QED
    BY <2>2 DEF DevpollLeft, Inactive, v
<1>3. CASE u.active[x] = FALSE
  BY <1>1, <1>3 DEF v
<1> QED
  BY <1>1, <1>2, <1>3 DEF v

LEMMA CloseKeeps ==
  ASSUME EventMethodsAssumption, conn \in Conns, TableInv(t, conn), OnlyOpen(t, conn),
         NEW f \in Fds, Close(f)
  PROVE  conn' \in Conns /\ TableInv(t, conn)' /\ OnlyOpen(t, conn)'
<1> DEFINE r == <<f, "read">>
           s == <<f, "write">>
           u == Shut(t, r)
           w == Shut(u, s)
           z == [w EXCEPT !.kernel = [x \in Events |-> IF x[1] = f THEN Off ELSE @[x]]]
<1>1. /\ m' = m /\ conn' = [conn EXCEPT ![f].open = FALSE]
      /\ t' = IF m \in {"kqueue", "epoll"} THEN z ELSE w
  BY DEF Close, Shut
<1>2. /\ m \in {"select", "poll", "devpoll", "kqueue", "epoll"}
      /\ MaxChanges \in Nat \ {0} /\ Fds \subseteq Nat
      /\ m # "kqueue" => t.mislaid = {} /\ \A x \in Events : t.disabled[x] = FALSE
  BY DEF TableInv, EventMethodsAssumption
<1>3. r \in Events /\ s \in Events /\ r # s /\ \A x \in Events : x[1] = f <=> x = r \/ x = s
  BY DEF Events, Sides
<1>4. /\ conn' \in Conns /\ conn'[f].open = FALSE
      /\ \A g \in Fds : g # f => conn'[g] = conn[g]
  BY <1>1 DEF Conns
<1>5. \A x \in Events : x[1] \in Fds
  BY EventIs
<1> SUFFICES /\ TableInv(t', conn')
             /\ \A x \in Events : t'.active[x] = IF x[1] = f THEN FALSE ELSE t.active[x]
             /\ m = "kqueue" =>
                  \A x \in Events : t'.disabled[x] = IF x[1] = f THEN FALSE ELSE t.disabled[x]
  <2>1. TableInv(t', conn')
    OBVIOUS
  <2>2. \A x \in Events : t'.active[x] = IF x[1] = f THEN FALSE ELSE t.active[x]
    OBVIOUS
  <2>3. \A x \in Events : t'.disabled[x] = TRUE => x[1] # f /\ t.disabled[x] = TRUE
    BY <1>1, <1>2, <2>1 DEF TableInv
  <2>4. OnlyOpen(t', conn')
    BY <1>4, <1>5, <2>2, <2>3 DEF OnlyOpen
  <2> QED
    BY <1>1, <1>4, <2>1, <2>4 DEF TableInv, OnlyOpen
<1> HIDE DEF r, s, u, w, z
<1>6. ASSUME t.active \in [Events -> BOOLEAN], Inactive(t, r, u), Inactive(u, s, w)
      PROVE  /\ \A x \in Events : w.active[x] = IF x[1] = f THEN FALSE ELSE t.active[x]
             /\ w.disabled = t.disabled /\ w.mislaid = t.mislaid /\ u.disabled = t.disabled
             /\ u.mislaid = t.mislaid
  <2>1. w.active = [[t.active EXCEPT ![r] = FALSE] EXCEPT ![s] = FALSE]
    BY <1>6 DEF Inactive
  <2>2. \A x \in Events : w.active[x] = IF x[1] = f THEN FALSE ELSE t.active[x]
    BY <1>3, <1>6, <2>1
  <2> QED
    BY <1>6, <2>2 DEF Inactive
<1>7. CASE m \in {"select", "poll"}
  <2>1. TableInv(u, conn) /\ OnlyOpen(u, conn) /\ Inactive(t, r, u)
    BY <1>2, <1>3, <1>7, ArraysShut DEF u
  <2>2. TableInv(w, conn) /\ Inactive(u, s, w)
    BY <1>2, <1>3, <1>7, <2>1, ArraysShut DEF w
  <2>3. t.active \in [Events -> BOOLEAN]
    BY <1>7 DEF TableInv, Tables
  <2>4. TableInv(w, conn')
    BY <1>7, <2>2 DEF TableInv
  <2> QED
    BY <1>1, <1>6, <1>7, <2>1, <2>2, <2>3, <2>4
<1>8. CASE m = "epoll"
  <2>1. t \in Tables({}) /\ EpollInv(t, conn) /\ t.disabled[r] = FALSE /\ t.disabled[s] = FALSE
    BY <1>2, <1>3, <1>8 DEF TableInv
  <2>2. u \in Tables({}) /\ u.kernel = t.kernel /\ Inactive(t, r, u)
    BY <1>3, <1>8, <2>1, EpollShut DEF u
  <2>3. u.disabled[s] = FALSE
    BY <2>1, <2>2 DEF Inactive
  <2>4. w \in Tables({}) /\ w.kernel = t.kernel /\ Inactive(u, s, w)
    BY <1>3, <1>8, <2>2, <2>3, EpollShut DEF w
  <2>5. t.active \in [Events -> BOOLEAN]
    BY <2>1 DEF Tables
  <2>6. /\ z \in Tables({}) /\ z.active = w.active /\ z.disabled = w.disabled
        /\ z.mislaid = w.mislaid
        /\ \A x \in Events : z.kernel[x] = IF x[1] = f THEN Off ELSE w.kernel[x]
    <3> DEFINE kernel == [x \in Events |-> IF x[1] = f THEN Off ELSE w.kernel[x]]
    <3>1. z = [w EXCEPT !.kernel = kernel]
      BY <2>4 DEF z, Tables
    <3>2. kernel \in [Events -> {Off, 0, 1}]
      BY <2>4 DEF Tables
    <3>3. \A x \in Events : kernel[x] = IF x[1] = f THEN Off ELSE w.kernel[x]
      OBVIOUS
    <3> HIDE DEF kernel
    <3> QED
      BY <2>4, <3>1, <3>2, <3>3 DEF Tables
  <2>7. \A x \in Events : z.active[x] = IF x[1] = f THEN FALSE ELSE t.active[x]
    BY <1>6, <2>2, <2>4, <2>5, <2>6
  <2>8. EpollInv(z, conn')
    <3> SUFFICES ASSUME NEW x \in Events
                 PROVE  z.kernel[x] = IF z.active[x] = TRUE THEN conn'[x[1]].instance ELSE Off
      BY DEF EpollInv
    <3>1. x[1] # f => conn'[x[1]] = conn[x[1]]
      BY <1>4, <1>5
    <3> QED
      BY <2>1, <2>4, <2>6, <2>7, <3>1 DEF EpollInv
  <2>9. z.mislaid = {} /\ z.disabled = t.disabled
    BY <1>2, <1>6, <1>8, <2>2, <2>4, <2>5, <2>6
  <2>10. TableInv(z, conn')
    BY <1>2, <1>8, <2>6, <2>8, <2>9 DEF TableInv
  <2> QED
    BY <1>1, <1>8, <2>7, <2>10
<1>9. CASE m = "devpoll"
  <2>1. /\ t \in Tables(DevpollChanges) /\ DevpollInv(t) /\ Len(t.list) <= MaxChanges
        /\ t.mislaid = {} /\ t.disabled[r] = FALSE /\ t.disabled[s] = FALSE
    BY <1>2, <1>3, <1>9 DEF TableInv, DevpollInv
  <2>2. /\ u \in Tables(DevpollChanges) /\ Len(u.list) <= MaxChanges /\ Inactive(t, r, u)
        /\ \A y \in Events : y[1] # r[1] => V(u)[y] = V(t)[y]
    BY <1>2, <1>3, <1>9, <2>1, DevpollShut DEF u
  <2>3. u.disabled[s] = FALSE /\ u.mislaid = {}
    BY <2>1, <2>2 DEF Inactive
  <2>4. /\ w \in Tables(DevpollChanges) /\ Len(w.list) <= MaxChanges /\ Inactive(u, s, w)
        /\ \A y \in Events : y[1] # s[1] => V(w)[y] = V(u)[y]
    BY <1>2, <1>3, <1>9, <2>2, <2>3, DevpollShut DEF w
  <2>5. t.active \in [Events -> BOOLEAN]
    BY <2>1 DEF Tables
  <2>6. \A x \in Events : w.active[x] = IF x[1] = f THEN FALSE ELSE t.active[x]
    BY <1>6, <2>2, <2>4, <2>5
  <2>7. DevpollInv(w)
    <3> SUFFICES ASSUME NEW x \in Events, w.active[x] = TRUE PROVE V(w)[x] # Off
      BY <2>4 DEF DevpollInv, V
    <3>1. x[1] # f /\ t.active[x] = TRUE
      BY <2>6
    <3>2. r[1] = f /\ s[1] = f
      BY DEF r, s
    <3>3. V(w)[x] = V(t)[x]
      BY <2>2, <2>4, <3>1, <3>2
    <3> QED
      BY <2>1, <3>1, <3>3 DEF DevpollInv, V
  <2>8. w.mislaid = {} /\ w.disabled = t.disabled
    BY <1>6, <2>1, <2>2, <2>4, <2>5
  <2>9. TableInv(w, conn')
    BY <1>2, <1>9, <2>4, <2>7, <2>8 DEF TableInv
  <2> QED
    BY <1>1, <1>9, <2>6, <2>9
<1>10. CASE m = "kqueue"
  <2>1. t \in Tables(KqueueChanges) /\ KqueueInv(t, conn)
    BY <1>10 DEF TableInv
  <2>2. \A p, x : Shut(p, x) = ForClose(p, x)
    <3>1. \A p, x : Deleted(p, x, TRUE) = KqueueDel(p, x, TRUE)
      BY <1>10 DEF Deleted
    <3> QED
      BY <3>1 DEF Shut, ForClose
  <2>3. w = CloseEvents(t, f)
    BY <2>2 DEF w, u, r, s, CloseEvents
  <2>4. /\ z \in Tables(KqueueChanges) /\ KqueueInv(z, conn')
        /\ \A x \in Events : z.active[x] = IF x[1] = f THEN FALSE ELSE t.active[x]
        /\ \A x \in Events : z.disabled[x] = IF x[1] = f THEN FALSE ELSE t.disabled[x]
    <3>1. z = ClosedKqueue(t, f)
      BY <2>3 DEF z, ClosedKqueue
    <3>2. MaxChanges \in Nat
      BY <1>2
    <3>3. IsClosed(t, f, z, conn')
      BY <1>1, <2>1, <3>1, <3>2, KqueueCloseKeeps
    <3> QED
      BY <3>3 DEF IsClosed
  <2>5. TableInv(z, conn')
    BY <1>10, <2>4 DEF TableInv
  <2> QED
    BY <1>1, <1>10, <2>4, <2>5
<1> QED
  BY <1>2, <1>7, <1>8, <1>9, <1>10

\* Passing the changes and looking at what is watched.
LEMMA EnteredKeeps ==
  ASSUME EventMethodsAssumption, conn \in Conns, TableInv(t, conn), OnlyOpen(t, conn)
  PROVE  /\ TableInv(Entered, conn) /\ OnlyOpen(Entered, conn) /\ WatchedAreActive
         /\ m # "devpoll" => \A x \in Watched(Entered) : conn[x[1]].open = TRUE
         /\ m \in {"kqueue", "epoll"} => \A x \in Watched(Entered) \ Entered.mislaid :
              Entered.kernel[x] = conn[x[1]].instance
<1>0. /\ m \in {"select", "poll", "devpoll", "kqueue", "epoll"}
      /\ MaxChanges \in Nat \ {0} /\ MaxChanges \in Nat /\ Fds \subseteq Nat
      /\ m # "kqueue" => t.mislaid = {} /\ \A x \in Events : t.disabled[x] = FALSE
  BY DEF TableInv, EventMethodsAssumption
<1>1. ASSUME Watched(Entered) \subseteq Active
      PROVE  \A x \in Watched(Entered) : conn[x[1]].open = TRUE
  <2>1. \A x \in Active : x \in Events /\ conn[x[1]].open = TRUE
    <3>1. \A x \in Active : x \in Events /\ x[1] \in Fds /\ conn[x[1]].open
      BY EventIs DEF Active
    <3> QED
      BY <3>1 DEF Conns
  <2> QED
    BY <1>1, <2>1
<1>2. CASE m = "select"
  <2>1. t \in Tables(Events) /\ SelectInv(t)
    BY <1>2 DEF TableInv
  <2>2. /\ Entered \in Tables(Events) /\ SelectInv(Entered) /\ OnlyOpen(Entered, conn)
        /\ Entered.mislaid = {} /\ Watched(Entered) \subseteq Active /\ WatchedAreActive
    BY <1>0, <1>2, <2>1, SelectWatches
  <2>3. Entered.disabled = t.disabled
    BY <1>2, <2>1 DEF Entered, Tables
  <2> QED
    BY <1>0, <1>1, <1>2, <2>2, <2>3 DEF TableInv
<1>3. CASE m = "poll"
  <2>1. t \in Tables(PollEntries) /\ PollInv(t) /\ Entered = t
    BY <1>3 DEF TableInv, Entered
  <2>2. Watched(Entered) \subseteq Active /\ WatchedAreActive
    BY <1>0, <1>3, <2>1, PollWatches
  <2> QED
    BY <1>1, <1>3, <2>1, <2>2
<1>4. CASE m = "epoll"
  <2>1. t \in Tables({}) /\ EpollInv(t, conn) /\ Entered = t
    BY <1>4 DEF TableInv, Entered
  <2>2. /\ Watched(Entered) \subseteq Active /\ WatchedAreActive
        /\ \A x \in Watched(Entered) : Entered.kernel[x] = conn[x[1]].instance
    BY <1>0, <1>4, <2>1, EpollWatches
  <2> QED
    BY <1>1, <1>4, <2>1, <2>2
<1>5. CASE m = "devpoll"
  <2>1. t \in Tables(DevpollChanges) /\ DevpollInv(t)
    BY <1>5 DEF TableInv
  <2>2. /\ Entered \in Tables(DevpollChanges) /\ DevpollInv(Entered) /\ OnlyOpen(Entered, conn)
        /\ Beside(Entered) = Beside(t) /\ WatchedAreActive
    BY <1>0, <1>5, <2>1, DevpollWatches
  <2>3. Entered.disabled = t.disabled /\ Entered.mislaid = t.mislaid
    BY <2>2 DEF Beside
  <2> QED
    BY <1>0, <1>5, <2>2, <2>3 DEF TableInv
<1>6. CASE m = "kqueue"
  <2>1. t \in Tables(KqueueChanges) /\ KqueueInv(t, conn)
    BY <1>6 DEF TableInv
  <2>2. /\ Entered \in Tables(KqueueChanges) /\ KqueueInv(Entered, conn)
        /\ OnlyOpen(Entered, conn) /\ WatchedAreActive
        /\ \A x \in Watched(Entered) : conn[x[1]].open = TRUE
        /\ \A x \in Watched(Entered) \ Entered.mislaid :
             Entered.kernel[x] = conn[x[1]].instance
    BY <1>0, <1>6, <2>1, KqueueWatches
  <2> QED
    BY <1>6, <2>2 DEF TableInv
<1> QED
  BY <1>0, <1>2, <1>3, <1>4, <1>5, <1>6

-----------------------------------------------------------------------------
(* The tables hold in every reachable state.                               *)

TablesHold ==
  /\ m \in Methods /\ held \in BOOLEAN /\ ops \in 0 .. MaxOps
  /\ at \in {"waited", "batch", "posted", "exited"}
  /\ conn \in Conns /\ \A f \in Fds : conn[f].gen <= MaxGens
  /\ TableInv(t, conn) /\ OnlyOpen(t, conn)

LEMMA TablesInit ==
  ASSUME EventMethodsAssumption, Init
  PROVE  TablesHold
<1>1. /\ m \in {"select", "poll", "devpoll", "kqueue", "epoll"} /\ MaxChanges \in Nat
      /\ MaxOps \in Nat /\ MaxGens \in Nat
  BY DEF Init, EventMethodsAssumption
<1>2. conn \in Conns /\ \A f \in Fds : conn[f].gen <= MaxGens
  BY <1>1 DEF Init, Conns
<1>3. /\ \A entries : t \in Tables(entries)
      /\ t.list = <<>> /\ Len(t.list) = 0 /\ t.mislaid = {} /\ t.max_fd = -1
      /\ \A x \in Events : /\ t.active[x] = FALSE /\ t.disabled[x] = FALSE
                           /\ t.index[x] = Invalid /\ t.kernel[x] = Off
  <2>1. \A entries : <<>> \in Seq(entries)
    OBVIOUS
  <2>2. t = [ active |-> [x \in Events |-> FALSE], disabled |-> [x \in Events |-> FALSE],
              index |-> [x \in Events |-> Invalid], list |-> <<>>,
              kernel |-> [x \in Events |-> Off], max_fd |-> -1, mislaid |-> {} ]
    BY DEF Init
  <2>3. ASSUME NEW entries PROVE t \in Tables(entries)
    BY <2>1, <2>2 DEF Tables
  <2>4. Len(t.list) = 0
    BY <2>2
  <2> QED
    BY <2>2, <2>3, <2>4
<1>4. OnlyOpen(t, conn)
  BY <1>3 DEF OnlyOpen
<1>5. \A x \in Events : Other(x) \in Events
  BY EventIs
<1>6. SelectInv(t) /\ PollInv(t)
  BY <1>3, <1>5 DEF SelectInv, PollInv
<1>7. EpollInv(t, conn) /\ DevpollInv(t)
  BY <1>1, <1>3 DEF EpollInv, DevpollInv
<1>8. KqueueInv(t, conn)
  BY <1>1, <1>3 DEF KqueueInv, KqueueOk
<1>9. TableInv(t, conn)
  BY <1>1, <1>3, <1>6, <1>7, <1>8 DEF TableInv
<1>10. m \in Methods /\ held \in BOOLEAN /\ ops \in 0 .. MaxOps /\ at = "posted"
  <2>1. m \in Methods /\ at = "posted" /\ ops = 0 /\ held = FALSE
    BY DEF Init
  <2>2. ops \in 0 .. MaxOps
    BY <1>1, <2>1
  <2> QED
    BY <2>1, <2>2
<1> QED
  BY <1>2, <1>4, <1>9, <1>10 DEF TablesHold

LEMMA TablesStep ==
  ASSUME EventMethodsAssumption, TablesHold, [Next]_vars
  PROVE  TablesHold'
<1> USE DEF TablesHold
<1>1. MaxOps \in Nat /\ MaxGens \in Nat
  BY DEF EventMethodsAssumption
<1>2. ASSUME Calls PROVE ops' \in 0 .. MaxOps
  BY <1>1, <1>2 DEF Calls
<1>3. ASSUME NEW x \in Events, AddEvent(x) PROVE TablesHold'
  <2>1. t.active[x] = FALSE /\ conn[x[1]].open = TRUE
    <3>1. t.active[x] \in BOOLEAN /\ conn[x[1]].open \in BOOLEAN
      BY EventIs DEF TableInv, Tables, Conns
    <3> QED
      BY <1>3, <3>1 DEF AddEvent
  <2>2. TableInv(Added(t, x), conn) /\ OnlyOpen(Added(t, x), conn)
    BY <2>1, AddKeeps
  <2>3. t' = Added(t, x) /\ UNCHANGED <<m, conn, at, held>> /\ Calls
    BY <1>3 DEF AddEvent
  <2>4. TableInv(t', conn') /\ OnlyOpen(t', conn')
    BY <2>2, <2>3
  <2>5. TableInv(t, conn)' /\ OnlyOpen(t, conn)'
    BY <2>3, <2>4 DEF TableInv, OnlyOpen
  <2> QED
    BY <1>2, <2>3, <2>5
<1>4. ASSUME NEW x \in Events, DelEvent(x) PROVE TablesHold'
  <2>1. t.active[x] = TRUE /\ conn[x[1]].open = TRUE
    <3>1. t.active[x] \in BOOLEAN /\ conn[x[1]].open \in BOOLEAN
      BY EventIs DEF TableInv, Tables, Conns
    <3> QED
      BY <1>4, <3>1 DEF DelEvent
  <2>2. TableInv(Deleted(t, x, FALSE), conn) /\ OnlyOpen(Deleted(t, x, FALSE), conn)
    BY <2>1, DelKeeps
  <2>3. t' = Deleted(t, x, FALSE) /\ UNCHANGED <<m, conn, at, held>> /\ Calls
    BY <1>4 DEF DelEvent
  <2>4. TableInv(t', conn') /\ OnlyOpen(t', conn')
    BY <2>2, <2>3
  <2>5. TableInv(t, conn)' /\ OnlyOpen(t, conn)'
    BY <2>3, <2>4 DEF TableInv, OnlyOpen
  <2> QED
    BY <1>2, <2>3, <2>5
<1>5. ASSUME NEW f \in Fds, AddConnection(f) PROVE TablesHold'
  <2>1. TableInv(t, conn)' /\ OnlyOpen(t, conn)'
    BY <1>5, AddConnectionKeeps
  <2>2. UNCHANGED <<m, conn, at, held>> /\ Calls
    BY <1>5 DEF AddConnection
  <2> QED
    BY <1>2, <2>1, <2>2
<1>6. ASSUME NEW f \in Fds, Open(f) PROVE TablesHold'
  <2>1. conn' \in Conns /\ TableInv(t, conn)' /\ OnlyOpen(t, conn)'
    BY <1>6, OpenKeeps
  <2>2. UNCHANGED <<m, at, held>> /\ Calls
    BY <1>6 DEF Open
  <2>3. \A g \in Fds : conn'[g].gen <= MaxGens
    <3>1. conn[f].gen + 1 <= MaxGens
      BY <1>1, <1>6 DEF Open, Conns
    <3>2. conn'[f].gen = conn[f].gen + 1 /\ \A g \in Fds : g # f => conn'[g] = conn[g]
      BY <1>6 DEF Open, Conns
    <3> QED
      BY <3>1, <3>2
  <2> QED
    BY <1>2, <2>1, <2>2, <2>3
<1>7. ASSUME NEW f \in Fds, Close(f) PROVE TablesHold'
  <2>1. conn' \in Conns /\ TableInv(t, conn)' /\ OnlyOpen(t, conn)'
    BY <1>7, CloseKeeps
  <2>2. UNCHANGED <<m, at, held>> /\ Calls
    BY <1>7 DEF Close
  <2>3. \A g \in Fds : conn'[g].gen = conn[g].gen
    BY <1>7 DEF Close, Conns
  <2> QED
    BY <1>2, <2>1, <2>2, <2>3
<1>8. ASSUME Wait PROVE TablesHold'
  <2>1. TableInv(Entered, conn) /\ OnlyOpen(Entered, conn)
    BY EnteredKeeps
  <2>2. t' = Entered /\ UNCHANGED <<m, conn>> /\ ops' = 0
    BY <1>8 DEF Wait
  <2>3. TableInv(t', conn') /\ OnlyOpen(t', conn')
    BY <2>1, <2>2
  <2>4. TableInv(t, conn)' /\ OnlyOpen(t, conn)'
    BY <2>2, <2>3 DEF TableInv, OnlyOpen
  <2>5. held' \in BOOLEAN /\ at' \in {"waited", "batch", "posted", "exited"}
    BY <1>8 DEF Wait
  <2>6. ops' \in 0 .. MaxOps
    BY <1>1, <2>2
  <2> QED
    BY <2>2, <2>4, <2>5, <2>6
<1>9. ASSUME \/ DevpollExits \/ StaleEvent \/ SkipEvent \/ CallHandler \/ PostEvent \/ BatchDone
             \/ ProcessPosted \/ UNCHANGED vars
      PROVE  TablesHold'
  <2>1. UNCHANGED <<m, conn, t, ops>>
    BY <1>9 DEF DevpollExits, StaleEvent, SkipEvent, CallHandler, PostEvent, BatchDone,
                ProcessPosted, vars
  <2>2. held' \in BOOLEAN /\ at' \in {"waited", "batch", "posted", "exited"}
    BY <1>9 DEF DevpollExits, StaleEvent, SkipEvent, CallHandler, PostEvent, BatchDone,
                ProcessPosted, vars
  <2>3. TableInv(t, conn)' /\ OnlyOpen(t, conn)'
    BY <2>1 DEF TableInv, OnlyOpen
  <2> QED
    BY <2>1, <2>2, <2>3
<1> QED
  BY <1>3, <1>4, <1>5, <1>6, <1>7, <1>8, <1>9 DEF Next, HandlerCalls

\* The bits of the events, their indices in the arrays, the lists of changes and what the
\* kernel has keep their types; a list is never longer than devpoll_changes or
\* kqueue_changes (ngx_devpoll_set_event, ngx_kqueue_set_event).
THEOREM TypeCorrect ==
  ASSUME EventMethodsAssumption
  PROVE  Spec => []TypeOK
<1>1. TablesHold => TypeOK
  <2> SUFFICES ASSUME TablesHold PROVE TypeOK
    OBVIOUS
  <2>1. conn \in [Fds -> [open : BOOLEAN, instance : {0, 1}, gen : 0 .. MaxGens]]
    <3>1. MaxGens \in Nat
      BY DEF EventMethodsAssumption
    <3>2. \A f \in Fds : conn[f] \in [open : BOOLEAN, instance : {0, 1}, gen : 0 .. MaxGens]
      <4>1. ASSUME NEW f \in Fds
            PROVE  conn[f] \in [open : BOOLEAN, instance : {0, 1}, gen : 0 .. MaxGens]
        <5>1. /\ conn[f] \in [open : BOOLEAN, instance : {0, 1}, gen : Nat]
              /\ conn[f].gen <= MaxGens
          BY DEF TablesHold, Conns
        <5>2. conn[f].gen \in 0 .. MaxGens
          BY <3>1, <5>1
        <5> QED
          BY <5>1, <5>2
      <4> QED
        BY <4>1
    <3> QED
      BY <3>2 DEF TablesHold, Conns
  <2>2. /\ t.active \in [Events -> BOOLEAN] /\ t.index \in [Events -> Nat \cup {Invalid}]
        /\ t.kernel \in [Events -> {Off, 0, 1}]
    BY DEF TablesHold, TableInv, Tables
  <2>3. m \in {"devpoll", "kqueue"} => Len(t.list) <= MaxChanges
    BY DEF TablesHold, TableInv, DevpollInv, KqueueInv
  <2> QED
    BY <2>1, <2>2, <2>3 DEF TypeOK, TablesHold
<1> QED
  BY <1>1, TablesInit, TablesStep, PTL DEF Spec

\* Of select, poll, /dev/poll, kqueue and epoll alike, and whatever the handlers added,
\* deleted, opened and closed: the next wait watches the active events and returns the
\* instance of their connections; with select and poll no entry of the arrays is lost.
THEOREM ActiveAreWatched ==
  ASSUME EventMethodsAssumption
  PROVE  Spec => []WatchedAreActive
<1>1. TablesHold => WatchedAreActive
  BY EnteredKeeps DEF TablesHold
<1> QED
  BY <1>1, TablesInit, TablesStep, PTL DEF Spec

-----------------------------------------------------------------------------
(* One round: the events of the batch and the connections they are for.    *)

\* An event that is not half handled and was not mislaid has the instance bit of the
\* connection it was reported for; what was posted is of an open connection; opening and
\* closing a descriptor again takes two calls for each connection.
ReportsOf == [fd : Fds, sides : SUBSET Sides, gen : Nat, half : BOOLEAN, mislaid : BOOLEAN,
              instance : {Off, 0, 1}]
Used(f, gen) == 2 * (conn[f].gen - gen) + (IF conn[f].open = TRUE THEN 0 ELSE 1)
ReportOk(e) ==
  /\ e \in ReportsOf /\ e.gen <= conn[e.fd].gen
  /\ e.half = FALSE /\ e.mislaid = FALSE => e.instance = e.gen % 2
  /\ at = "waited" => conn[e.fd].open = TRUE /\ conn[e.fd].gen = e.gen
  /\ Used(e.fd, e.gen) <= ops
PostedOk(e) ==
  /\ e.event[1] \in Fds
  /\ conn[e.event[1]].open = TRUE /\ conn[e.event[1]].gen = e.gen
RoundHolds ==
  /\ \A f \in Fds : conn[f].instance = conn[f].gen % 2
  /\ m # "devpoll" =>
       /\ held = TRUE => at \in {"waited", "exited"}
       /\ at = "posted" => batch = {}
       /\ \A e \in batch : ReportOk(e)
       /\ \A e \in posted : PostedOk(e)

LEMMA Parity ==
  ASSUME NEW a \in Nat
  PROVE  a % 2 \in {0, 1} /\ (a + 1) % 2 = 1 - (a % 2) /\ a % 2 # (a + 1) % 2
OBVIOUS

LEMMA RestOk ==
  ASSUME NEW e, ReportOk(e), NEW d \in Rest(e)
  PROVE  ReportOk(d) /\ d.half = TRUE /\ d.fd = e.fd
<1>1. d = [e EXCEPT !.sides = {"read"}, !.half = TRUE] /\ e \in ReportsOf
  BY DEF Rest, ReportOk
<1>2. /\ d \in ReportsOf /\ d.fd = e.fd /\ d.gen = e.gen /\ d.half = TRUE
      /\ d.mislaid = e.mislaid
  BY <1>1 DEF ReportsOf, Sides
<1> QED
  BY <1>2 DEF ReportOk

\* A handler's call that opens and closes nothing.
LEMMA RoundCalls ==
  ASSUME TablesHold, RoundHolds, Calls, UNCHANGED <<m, conn, batch, posted, at, held>>,
         MaxOps \in Nat
  PROVE  RoundHolds'
<1>1. ASSUME NEW e, e.fd \in Fds, Used(e.fd, e.gen) <= ops, e.gen \in Nat
      PROVE  Used(e.fd, e.gen)' <= ops'
  <2>1. conn[e.fd].gen \in Nat /\ ops \in Nat /\ ops' = ops + 1
    BY <1>1 DEF TablesHold, Conns, Calls
  <2> QED
    BY <1>1, <2>1 DEF Used
<1>2. ASSUME NEW e, ReportOk(e) PROVE ReportOk(e)'
  <2>1. e.fd \in Fds /\ e.gen \in Nat
    BY <1>2 DEF ReportOk, ReportsOf
  <2>2. Used(e.fd, e.gen)' <= ops'
    BY <1>1, <1>2, <2>1 DEF ReportOk
  <2> QED
    BY <1>2, <2>2 DEF ReportOk
<1> QED
  BY <1>2 DEF RoundHolds, PostedOk

LEMMA RoundOpen ==
  ASSUME TablesHold, RoundHolds, NEW f \in Fds, Open(f), MaxOps \in Nat
  PROVE  RoundHolds'
<1>1. /\ conn[f].open = FALSE /\ conn'[f].open = TRUE
      /\ conn'[f].gen = conn[f].gen + 1 /\ conn'[f].instance = 1 - conn[f].instance
      /\ \A g \in Fds : g # f => conn'[g] = conn[g]
      /\ conn \in Conns /\ at \in {"batch", "posted"} /\ ops' = ops + 1 /\ ops \in Nat
      /\ UNCHANGED <<m, batch, posted, at, held>>
  BY DEF Open, Calls, TablesHold, Conns
<1>2. \A g \in Fds : conn'[g].instance = conn'[g].gen % 2
  <2>1. conn[f].gen \in Nat /\ conn[f].instance = conn[f].gen % 2
    BY <1>1 DEF Conns, RoundHolds
  <2>2. conn'[f].instance = conn'[f].gen % 2
    BY <1>1, <2>1, Parity
  <2> QED
    BY <1>1, <2>2 DEF RoundHolds
<1>3. ASSUME NEW e, ReportOk(e) PROVE ReportOk(e)'
  <2>1. e.fd \in Fds /\ e.gen \in Nat /\ e.gen <= conn[e.fd].gen /\ conn[e.fd].gen \in Nat
    BY <1>1, <1>3 DEF ReportOk, ReportsOf, Conns
  <2>2. e.gen <= conn'[e.fd].gen
    BY <1>1, <2>1
  <2>3. Used(e.fd, e.gen)' <= ops'
    <3>1. Used(e.fd, e.gen) <= ops
      BY <1>3 DEF ReportOk
    <3>2. CASE e.fd = f
      <4>1. Used(e.fd, e.gen) = 2 * (conn[f].gen - e.gen) + 1
        BY <1>1, <3>2 DEF Used
      <4>2. Used(e.fd, e.gen)' = 2 * (conn[f].gen + 1 - e.gen) + 0
        <5>1. /\ conn'[e.fd].gen = conn[f].gen + 1 /\ conn'[e.fd].open = TRUE
              /\ conn[f].gen \in Nat
          BY <1>1, <2>1, <3>2
        <5>2. Used(e.fd, e.gen)' = 2 * (conn'[e.fd].gen - e.gen) + 0
          BY <5>1 DEF Used
        <5> QED
          BY <2>1, <5>1, <5>2
      <4> QED
        BY <1>1, <2>1, <3>1, <3>2, <4>1, <4>2
    <3>3. CASE e.fd # f
      <4>1. Used(e.fd, e.gen)' = Used(e.fd, e.gen) /\ Used(e.fd, e.gen) \in Int
        BY <1>1, <2>1, <3>3 DEF Used
      <4> QED
        BY <1>1, <3>1, <4>1
    <3> QED
      BY <3>2, <3>3
  <2> QED
    BY <1>1, <1>3, <2>2, <2>3 DEF ReportOk
<1>4. ASSUME m # "devpoll", NEW e \in posted PROVE PostedOk(e)'
  BY <1>1, <1>4 DEF RoundHolds, PostedOk
<1> QED
  BY <1>1, <1>2, <1>3, <1>4 DEF RoundHolds

LEMMA RoundClose ==
  ASSUME TablesHold, RoundHolds, NEW f \in Fds, Close(f), MaxOps \in Nat
  PROVE  RoundHolds'
<1>1. /\ conn[f].open = TRUE /\ conn'[f].open = FALSE
      /\ conn'[f].gen = conn[f].gen /\ conn'[f].instance = conn[f].instance
      /\ \A g \in Fds : g # f => conn'[g] = conn[g]
      /\ conn \in Conns /\ at \in {"batch", "posted"} /\ ops' = ops + 1 /\ ops \in Nat
      /\ UNCHANGED <<m, batch, at, held>> /\ posted' = {e \in posted : e.event[1] # f}
  BY DEF Close, Calls, TablesHold, Conns
<1>2. \A g \in Fds : conn'[g].instance = conn'[g].gen % 2
  BY <1>1 DEF RoundHolds
<1>3. ASSUME NEW e, ReportOk(e) PROVE ReportOk(e)'
  <2>1. e.fd \in Fds /\ e.gen \in Nat /\ e.gen <= conn[e.fd].gen /\ conn[e.fd].gen \in Nat
    BY <1>1, <1>3 DEF ReportOk, ReportsOf, Conns
  <2>2. e.gen <= conn'[e.fd].gen
    BY <1>1, <2>1
  <2>3. Used(e.fd, e.gen)' <= ops'
    <3>1. Used(e.fd, e.gen) <= ops
      BY <1>3 DEF ReportOk
    <3>2. CASE e.fd = f
      <4>1. Used(e.fd, e.gen) = 2 * (conn[f].gen - e.gen) + 0
        BY <1>1, <3>2 DEF Used
      <4>2. Used(e.fd, e.gen)' = 2 * (conn[f].gen - e.gen) + 1
        BY <1>1, <3>2 DEF Used
      <4> QED
        BY <1>1, <2>1, <3>1, <3>2, <4>1, <4>2
    <3>3. CASE e.fd # f
      <4>1. Used(e.fd, e.gen)' = Used(e.fd, e.gen) /\ Used(e.fd, e.gen) \in Int
        BY <1>1, <2>1, <3>3 DEF Used
      <4> QED
        BY <1>1, <3>1, <4>1
    <3> QED
      BY <3>2, <3>3
  <2> QED
    BY <1>1, <1>3, <2>2, <2>3 DEF ReportOk
<1>4. ASSUME m # "devpoll", NEW e \in posted' PROVE PostedOk(e)'
  BY <1>1, <1>4 DEF RoundHolds, PostedOk
<1> QED
  BY <1>1, <1>2, <1>3, <1>4 DEF RoundHolds

ReportFor(e, f) ==
  /\ e \in ReportsOf /\ e.fd = f /\ e.gen = conn[f].gen /\ e.half = FALSE
  /\ e.mislaid = FALSE => e.instance = conn[f].instance
BitsOf(u, f, sides) ==
  /\ u.kernel \in [Events -> {Off, 0, 1}] /\ sides \subseteq Sides /\ sides # {}
  /\ \A s \in sides : <<f, s>> \notin u.mislaid => u.kernel[<<f, s>>] = conn[f].instance
LEMMA ReportIs ==
  ASSUME TablesHold, NEW u, NEW f \in Fds, NEW sides, BitsOf(u, f, sides)
  PROVE  ReportFor(Report(u, f, sides), f)
<1> DEFINE e == Report(u, f, sides)
           mis == \E s \in sides : <<f, s>> \in u.mislaid
           side == IF "read" \in sides THEN "read" ELSE "write"
<1>1. side \in sides /\ side \in Sides /\ <<f, side>> \in Events
  BY DEF Sides, Events, BitsOf
<1>2. mis \in BOOLEAN
  OBVIOUS
<1>3. e = [fd |-> f, sides |-> sides, gen |-> conn[f].gen, half |-> FALSE, mislaid |-> mis,
           instance |-> u.kernel[<<f, side>>]]
  BY DEF Report
<1>4. u.kernel[<<f, side>>] \in {Off, 0, 1} /\ conn[f].gen \in Nat
  BY <1>1 DEF TablesHold, Conns, BitsOf
<1>5. mis = FALSE => u.kernel[<<f, side>>] = conn[f].instance
  BY <1>1 DEF BitsOf
<1> HIDE DEF mis, side, e
<1>6. e \in ReportsOf
  BY <1>2, <1>3, <1>4 DEF ReportsOf, BitsOf
<1>7. e.mislaid = FALSE => e.instance = conn[f].instance
  BY <1>3, <1>5
<1> QED
  BY <1>3, <1>6, <1>7 DEF e, ReportFor

LEMMA RoundWait ==
  ASSUME EventMethodsAssumption, TablesHold, RoundHolds, Wait
  PROVE  RoundHolds'
<1>1. /\ at = "posted" /\ posted = {} /\ t' = Entered /\ ops' = 0 /\ UNCHANGED <<m, conn>>
      /\ m \in {"select", "poll", "devpoll", "kqueue", "epoll"}
  BY DEF Wait, TablesHold, TableInv
<1>2. PICK ready \in SUBSET Watched(t') :
        IF m \in {"select", "poll"}
        THEN /\ posted' = {Posted(t', x) : x \in ready}
             /\ at' = "posted" /\ UNCHANGED <<batch, held>>
        ELSE /\ batch' = Reports(t', ready) /\ held' \in BOOLEAN
             /\ at' = "waited" /\ UNCHANGED posted
  BY DEF Wait
<1>3. /\ TableInv(Entered, conn)
      /\ m # "devpoll" => \A x \in Watched(Entered) : conn[x[1]].open = TRUE
      /\ m \in {"kqueue", "epoll"} => \A x \in Watched(Entered) \ Entered.mislaid :
           Entered.kernel[x] = conn[x[1]].instance
  BY EnteredKeeps DEF TablesHold
<1>4. CASE m = "devpoll"
  BY <1>1, <1>4 DEF RoundHolds
<1>5. CASE m \in {"select", "poll"}
  <2>1. batch' = {} /\ held' = held /\ at' = "posted"
    BY <1>1, <1>2, <1>5 DEF RoundHolds
  <2>2. ASSUME NEW e \in posted' PROVE PostedOk(e)'
    <3>1. PICK x \in ready : e = Posted(Entered, x)
      BY <1>1, <1>2, <1>5
    <3>2. e.event = x /\ e.gen = conn[x[1]].gen
      BY <3>1 DEF Posted
    <3>3. x \in Events
      <4>1. CASE m = "select"
        BY <1>1, <1>2, <4>1 DEF Watched
      <4>2. CASE m = "poll"
        <5>1. /\ Entered \in Tables(PollEntries)
              /\ Watched(Entered) = UNION {{d.fd} \X d.events : d \in ToSet(Entered.list)}
          BY <1>3, <4>2 DEF TableInv, Watched
        <5>2. \A d \in ToSet(Entered.list) : d \in PollEntries
          BY <5>1 DEF Tables, ToSet
        <5>3. x \in Watched(Entered)
          BY <1>1, <1>2
        <5>4. PICK d \in ToSet(Entered.list) : x \in {d.fd} \X d.events
          BY <5>1, <5>3
        <5> QED
          BY <5>2, <5>4 DEF PollEntries, Events
      <4> QED
        BY <1>5, <4>1, <4>2
    <3>4. x[1] \in Fds /\ conn[x[1]].open = TRUE
      <4>1. x \in Watched(Entered) /\ m # "devpoll"
        BY <1>1, <1>2, <1>5
      <4> QED
        BY <1>3, <3>3, <4>1, EventIs
    <3> QED
      BY <1>1, <3>2, <3>4 DEF PostedOk
  <2> QED
    BY <1>1, <2>1, <2>2 DEF RoundHolds
<1>6. CASE m \in {"kqueue", "epoll"}
  <2>1. batch' = Reports(Entered, ready) /\ at' = "waited" /\ posted' = {}
    BY <1>1, <1>2, <1>6
  <2>2. Watched(Entered) = {x \in Events : Entered.kernel[x] # Off}
    BY <1>6 DEF Watched
  <2>3. ready \subseteq Watched(Entered) /\ ready \subseteq Events
    BY <1>1, <1>2, <2>2
  <2>4. Entered.kernel \in [Events -> {Off, 0, 1}]
    BY <1>3, <1>6 DEF TableInv, Tables
  <2>5. ops \in Nat
    BY DEF TablesHold
  <2>6. \A e \in batch' : \E f \in Fds, sides \in SUBSET Sides :
          e = Report(Entered, f, sides) /\ sides # {} /\ \A s \in sides : <<f, s>> \in ready
    <3>1. CASE m = "epoll"
      <4>1. batch' = {Report(Entered, f, {x[2] : x \in {y \in ready : y[1] = f}}) :
                      f \in {x[1] : x \in ready}}
        BY <2>1, <3>1 DEF Reports, Both
      <4>2. ASSUME NEW e \in batch'
            PROVE  \E f \in Fds, sides \in SUBSET Sides :
              e = Report(Entered, f, sides) /\ sides # {} /\ \A s \in sides : <<f, s>> \in ready
        <5>1. PICK x \in ready : e = Report(Entered, x[1], {z[2] : z \in {y \in ready : y[1] = x[1]}})
          BY <4>1
        <5> DEFINE sides == {z[2] : z \in {y \in ready : y[1] = x[1]}}
        <5>2. x[1] \in Fds /\ sides \in SUBSET Sides /\ x[2] \in sides
          BY <2>3, EventIs
        <5>3. \A s \in sides : <<x[1], s>> \in ready
          <6> SUFFICES ASSUME NEW z \in ready, z[1] = x[1] PROVE <<x[1], z[2]>> \in ready
            OBVIOUS
          <6>1. z = <<z[1], z[2]>>
            BY <2>3, EventIs
          <6> QED
            BY <6>1
        <5> HIDE DEF sides
        <5>4. e = Report(Entered, x[1], sides)
          BY <5>1 DEF sides
        <5> QED
          BY <5>2, <5>3, <5>4
      <4> QED
        BY <4>2
    <3>2. CASE m = "kqueue"
      <4>1. batch' = {Report(Entered, x[1], {x[2]}) : x \in ready}
        BY <2>1, <3>2 DEF Reports, Both
      <4>2. ASSUME NEW e \in batch'
            PROVE  \E f \in Fds, sides \in SUBSET Sides :
              e = Report(Entered, f, sides) /\ sides # {} /\ \A s \in sides : <<f, s>> \in ready
        <5>1. PICK x \in ready : e = Report(Entered, x[1], {x[2]})
          BY <4>1
        <5>2. x[1] \in Fds /\ {x[2]} \in SUBSET Sides /\ x = <<x[1], x[2]>>
          BY <2>3, EventIs
        <5> DEFINE sides == {x[2]}
        <5>3. sides \in SUBSET Sides /\ sides # {} /\ \A s \in sides : <<x[1], s>> \in ready
          BY <5>2
        <5> HIDE DEF sides
        <5>4. e = Report(Entered, x[1], sides)
          BY <5>1 DEF sides
        <5> QED
          BY <5>2, <5>3, <5>4
      <4> QED
        BY <4>2
    <3> QED
      BY <1>6, <3>1, <3>2
  <2>7. ASSUME NEW e \in batch' PROVE ReportOk(e)'
    <3>1. PICK f \in Fds, sides \in SUBSET Sides :
            e = Report(Entered, f, sides) /\ sides # {} /\ \A s \in sides : <<f, s>> \in ready
      BY <2>6
    <3>2. conn[f].open = TRUE
      <4>1. PICK s \in sides : <<f, s>> \in Watched(Entered)
        BY <2>3, <3>1
      <4>2. m # "devpoll" /\ <<f, s>>[1] = f
        BY <1>6
      <4> QED
        BY <1>3, <4>1, <4>2
    <3>3. ASSUME NEW s \in sides, <<f, s>> \notin Entered.mislaid
          PROVE  Entered.kernel[<<f, s>>] = conn[f].instance
      <4>1. <<f, s>> \in Watched(Entered) \ Entered.mislaid /\ <<f, s>>[1] = f
        BY <2>3, <3>1, <3>3
      <4> QED
        BY <1>3, <1>6, <4>1
    <3>4. /\ e \in ReportsOf /\ e.fd = f /\ e.gen = conn[f].gen /\ e.half = FALSE
          /\ e.mislaid = FALSE => e.instance = conn[f].instance
      <4>1. BitsOf(Entered, f, sides)
        BY <2>4, <3>1, <3>3 DEF BitsOf
      <4>2. ReportFor(e, f)
        BY <3>1, <4>1, ReportIs
      <4> QED
        BY <4>2 DEF ReportFor
    <3>5. conn[f].instance = conn[f].gen % 2 /\ conn[f].gen \in Nat
      BY DEF RoundHolds, TablesHold, Conns
    <3>6. Used(e.fd, e.gen)' = 0
      BY <1>1, <3>2, <3>4, <3>5 DEF Used
    <3> QED
      BY <1>1, <3>2, <3>4, <3>5, <3>6 DEF ReportOk
  <2>8. (at = "posted" => batch = {})' /\ (held = TRUE => at \in {"waited", "exited"})'
    BY <2>1
  <2> QED
    BY <1>1, <2>1, <2>7, <2>8 DEF RoundHolds
<1> QED
  BY <1>1, <1>4, <1>5, <1>6

LEMMA RoundStep ==
  ASSUME EventMethodsAssumption, TablesHold, RoundHolds, [Next]_vars
  PROVE  RoundHolds'
<1>0. MaxOps \in Nat /\ held \in BOOLEAN
  BY DEF EventMethodsAssumption, TablesHold
<1>1. ASSUME HandlerCalls PROVE RoundHolds'
  <2>1. ASSUME NEW x \in Events, AddEvent(x) \/ DelEvent(x) PROVE RoundHolds'
    <3>1. Calls /\ UNCHANGED <<m, conn, batch, posted, at, held>>
      BY <2>1 DEF AddEvent, DelEvent
    <3> QED
      BY <1>0, <3>1, RoundCalls
  <2>2. ASSUME NEW f \in Fds, AddConnection(f) PROVE RoundHolds'
    <3>1. Calls /\ UNCHANGED <<m, conn, batch, posted, at, held>>
      BY <2>2 DEF AddConnection
    <3> QED
      BY <1>0, <3>1, RoundCalls
  <2>3. ASSUME NEW f \in Fds, Open(f) PROVE RoundHolds'
    BY <1>0, <2>3, RoundOpen
  <2>4. ASSUME NEW f \in Fds, Close(f) PROVE RoundHolds'
    BY <1>0, <2>4, RoundClose
  <2> QED
    BY <1>1, <2>1, <2>2, <2>3, <2>4 DEF HandlerCalls
<1>2. ASSUME Wait PROVE RoundHolds'
  BY <1>2, RoundWait
<1>3. ASSUME DevpollExits \/ UNCHANGED vars PROVE RoundHolds'
  <2>1. CASE DevpollExits
    BY <2>1 DEF DevpollExits, RoundHolds
  <2>2. CASE UNCHANGED vars
    BY <2>2 DEF vars, RoundHolds, ReportOk, PostedOk, Used
  <2> QED
    BY <1>3, <2>1, <2>2
<1>4. ASSUME StaleEvent PROVE RoundHolds'
  <2>1. UNCHANGED <<m, conn, posted, at, held, ops>> /\ batch' \subseteq batch
    BY <1>4 DEF StaleEvent
  <2> QED
    BY <2>1 DEF RoundHolds, ReportOk, PostedOk, Used
<1>5. ASSUME SkipEvent PROVE RoundHolds'
  <2>1. PICK e \in batch : Entry(e) /\ batch' = (batch \ {e}) \cup Rest(e)
    BY <1>5 DEF SkipEvent
  <2>2. UNCHANGED <<m, conn, posted, at, held, ops>>
    BY <1>5 DEF SkipEvent
  <2>3. m # "devpoll" => \A d \in batch' : ReportOk(d)
    BY <2>1, RestOk DEF RoundHolds
  <2>4. at # "posted"
    BY <2>1 DEF Entry
  <2> QED
    BY <2>2, <2>3, <2>4 DEF RoundHolds, ReportOk, PostedOk, Used
<1>6. ASSUME CallHandler PROVE RoundHolds'
  <2>1. PICK e \in batch : batch' = (batch \ {e}) \cup Rest(e)
    BY <1>6 DEF CallHandler
  <2>2. UNCHANGED <<m, conn, posted, held, ops>> /\ at' = "batch" /\ held = FALSE
    BY <1>0, <1>6 DEF CallHandler
  <2>3. m # "devpoll" => \A d \in batch' : ReportOk(d)
    BY <2>1, RestOk DEF RoundHolds
  <2>4. ASSUME NEW d, ReportOk(d) PROVE ReportOk(d)'
    BY <2>2, <2>4 DEF ReportOk, Used
  <2>5. (at = "posted" => batch = {})' /\ (held = TRUE => at \in {"waited", "exited"})'
    BY <2>2
  <2> QED
    BY <2>2, <2>3, <2>4, <2>5 DEF RoundHolds, PostedOk
<1>7. ASSUME PostEvent PROVE RoundHolds'
  <2>1. PICK e \in batch :
          /\ Entry(e) /\ batch' = (batch \ {e}) \cup Rest(e)
          /\ posted' = posted \cup
               {[event |-> Handled(e), gen |-> e.gen, place |-> Cardinality(posted)]}
    BY <1>7 DEF PostEvent
  <2>2. UNCHANGED <<m, conn, at, held, ops>> /\ held = TRUE
    BY <1>0, <1>7 DEF PostEvent
  <2>3. at # "posted" /\ at # "exited"
    BY <2>1 DEF Entry
  <2>4. ASSUME m # "devpoll", NEW d \in batch' PROVE ReportOk(d)
    BY <2>1, <2>4, RestOk DEF RoundHolds
  <2>5. ASSUME m # "devpoll", NEW d \in posted' PROVE PostedOk(d)
    <3>1. CASE d \in posted
      BY <2>5, <3>1 DEF RoundHolds
    <3>2. CASE d \notin posted
      <4>1. d.event = Handled(e) /\ d.gen = e.gen
        BY <2>1, <2>5, <3>2
      <4>2. ReportOk(e) /\ at = "waited"
        BY <2>2, <2>3, <2>5 DEF RoundHolds
      <4>3. d.event[1] = e.fd
        BY <4>1 DEF Handled
      <4> QED
        BY <4>1, <4>2, <4>3 DEF ReportOk, ReportsOf, PostedOk
    <3> QED
      BY <3>1, <3>2
  <2> QED
    BY <2>2, <2>3, <2>4, <2>5 DEF RoundHolds, ReportOk, PostedOk, Used
<1>8. ASSUME BatchDone PROVE RoundHolds'
  <2>1. UNCHANGED <<m, conn, batch, posted, ops>> /\ batch = {} /\ held' = FALSE
    BY <1>8 DEF BatchDone
  <2> QED
    BY <2>1 DEF RoundHolds, PostedOk
<1>9. ASSUME ProcessPosted PROVE RoundHolds'
  <2>1. UNCHANGED <<m, conn, batch, at, held, ops>> /\ posted' \subseteq posted
    BY <1>9 DEF ProcessPosted
  <2> QED
    BY <2>1 DEF RoundHolds, ReportOk, PostedOk, Used
<1> QED
  BY <1>1, <1>2, <1>3, <1>4, <1>5, <1>6, <1>7, <1>8, <1>9 DEF Next

LEMMA RoundInit ==
  ASSUME EventMethodsAssumption, Init
  PROVE  RoundHolds /\ DeliveredToOwner
<1>1. /\ \A f \in Fds : conn[f].instance = 0 /\ conn[f].gen = 0
      /\ held = FALSE /\ batch = {} /\ posted = {} /\ ran = "none"
  BY DEF Init
<1>2. 0 % 2 = 0
  OBVIOUS
<1>3. \A f \in Fds : conn[f].instance = conn[f].gen % 2
  BY <1>1, <1>2
<1> QED
  BY <1>1, <1>3 DEF RoundHolds, DeliveredToOwner

\* While an event waits in the batch, at most one new connection is opened with its
\* descriptor: the one bit of the instance tells it from the one the event is for.
OneNew == \A e \in batch : conn[e.fd].gen <= e.gen + 1

LEMMA Delivers ==
  ASSUME EventMethodsAssumption, TablesHold, RoundHolds, DeliveredToOwner, OneNew, [Next]_vars
  PROVE  DeliveredToOwner'
<1> SUFFICES ASSUME m # "devpoll" PROVE ran' # "other"
  <2>1. m' = m
    BY DEF Next, HandlerCalls, AddEvent, DelEvent, AddConnection, Open, Close, Wait, DevpollExits,
           StaleEvent, SkipEvent, CallHandler, PostEvent, BatchDone, ProcessPosted, vars
  <2> QED
    BY <2>1 DEF DeliveredToOwner
<1>1. CASE CallHandler
  <2>1. PICK e \in batch :
          /\ Own(e)
          /\ ran' = IF e.half THEN "half" ELSE IF e.mislaid THEN "mislaid" ELSE For(e.gen, e.fd)
    BY <1>1 DEF CallHandler
  <2>2. ReportOk(e) /\ conn[e.fd].gen <= e.gen + 1
    BY DEF RoundHolds, OneNew
  <2>3. e.half \in BOOLEAN /\ e.mislaid \in BOOLEAN /\ e.fd \in Fds /\ e.gen \in Nat
    BY <2>2 DEF ReportOk, ReportsOf
  <2>4. CASE e.half = TRUE
    BY <2>1, <2>4
  <2>5. CASE e.mislaid = TRUE
    BY <2>1, <2>5
  <2>6. CASE e.half = FALSE /\ e.mislaid = FALSE
    <3>1. conn[e.fd].instance = e.instance
      BY <2>1, <2>6 DEF Own, Stale
    <3>2. conn[e.fd].gen % 2 = e.gen % 2
      BY <2>2, <2>3, <2>6, <3>1 DEF ReportOk, RoundHolds
    <3>3. conn[e.fd].gen \in Nat /\ e.gen <= conn[e.fd].gen
      BY <2>2, <2>3 DEF TablesHold, Conns, ReportOk
    <3>4. conn[e.fd].gen = e.gen \/ conn[e.fd].gen = e.gen + 1
      BY <2>2, <2>3, <3>3
    <3>5. conn[e.fd].gen = e.gen
      BY <2>3, <3>2, <3>4, Parity
    <3> QED
      BY <2>1, <2>6, <3>5 DEF For
  <2> QED
    BY <2>3, <2>4, <2>5, <2>6
<1>2. CASE ProcessPosted
  <2>1. PICK e \in posted : ran' = For(e.gen, e.event[1])
    BY <1>2 DEF ProcessPosted
  <2>2. conn[e.event[1]].gen = e.gen
    BY DEF RoundHolds, PostedOk
  <2> QED
    BY <2>1, <2>2 DEF For
<1>3. CASE Wait
  BY <1>3 DEF Wait
<1>4. CASE \/ HandlerCalls \/ DevpollExits \/ StaleEvent \/ SkipEvent \/ PostEvent \/ BatchDone
           \/ UNCHANGED vars
  <2>1. ran' = ran
    BY <1>4 DEF HandlerCalls, AddEvent, DelEvent, AddConnection, Open, Close, DevpollExits,
                StaleEvent, SkipEvent, PostEvent, BatchDone, vars
  <2> QED
    BY <2>1 DEF DeliveredToOwner
<1> QED
  BY <1>1, <1>2, <1>3, <1>4 DEF Next

\* A reported or posted event is handled by the connection it was reported for, although
\* earlier handlers of the round may have closed it and opened another one with its
\* descriptor, as long as they open no more than one.
THEOREM Delivered ==
  ASSUME EventMethodsAssumption
  PROVE  Spec /\ []OneNew => []DeliveredToOwner
<1>1. Init => TablesHold /\ RoundHolds /\ DeliveredToOwner
  BY TablesInit, RoundInit
<1>2. TablesHold /\ RoundHolds /\ DeliveredToOwner /\ OneNew /\ [Next]_vars
        => (TablesHold /\ RoundHolds /\ DeliveredToOwner)'
  BY TablesStep, RoundStep, Delivers
<1> QED
  BY <1>1, <1>2, PTL DEF Spec

\* Opening a second one takes four calls: it cannot be the case in shorter rounds.
THEOREM DeliveredInShortRounds ==
  ASSUME EventMethodsAssumption, MaxOps <= 3
  PROVE  Spec => []DeliveredToOwner
<1>1. ASSUME TablesHold, RoundHolds, m # "devpoll" PROVE OneNew
  <2> SUFFICES ASSUME NEW e \in batch PROVE conn[e.fd].gen <= e.gen + 1
    BY DEF OneNew
  <2>1. ReportOk(e)
    BY <1>1 DEF RoundHolds
  <2>2. e.fd \in Fds /\ e.gen \in Nat /\ Used(e.fd, e.gen) <= ops
    BY <2>1 DEF ReportOk, ReportsOf
  <2>3. conn[e.fd].gen \in Nat /\ ops \in Nat /\ ops <= 3
    <3>1. MaxOps \in Nat
      BY DEF EventMethodsAssumption
    <3> QED
      BY <1>1, <2>2, <3>1 DEF TablesHold, Conns
  <2>4. 2 * (conn[e.fd].gen - e.gen) <= 3
    <3>1. CASE conn[e.fd].open = TRUE
      BY <2>2, <2>3, <3>1 DEF Used
    <3>2. CASE ~(conn[e.fd].open = TRUE)
      BY <2>2, <2>3, <3>2 DEF Used
    <3> QED
      BY <3>1, <3>2
  <2> QED
    BY <2>2, <2>3, <2>4
<1>2. Init => TablesHold /\ RoundHolds /\ DeliveredToOwner
  BY TablesInit, RoundInit
<1>3. ASSUME TablesHold, RoundHolds, DeliveredToOwner, [Next]_vars PROVE DeliveredToOwner'
  <2>1. CASE m # "devpoll"
    BY <1>1, <1>3, <2>1, Delivers
  <2>2. CASE m = "devpoll"
    <3>1. m' = m
      BY <1>3 DEF Next, HandlerCalls, AddEvent, DelEvent, AddConnection, Open, Close, Wait,
                  DevpollExits, StaleEvent, SkipEvent, CallHandler, PostEvent, BatchDone,
                  ProcessPosted, vars
    <3> QED
      BY <2>2, <3>1 DEF DeliveredToOwner
  <2> QED
    BY <2>1, <2>2
<1>4. TablesHold /\ RoundHolds /\ DeliveredToOwner /\ [Next]_vars
        => (TablesHold /\ RoundHolds /\ DeliveredToOwner)'
  BY <1>3, TablesStep, RoundStep
<1> QED
  BY <1>2, <1>4, PTL DEF Spec

=============================================================================
