---------------------------- MODULE EventMethods ----------------------------
(* The event methods of one worker (src/event/modules): how select, poll,    *)
(* /dev/poll, kqueue and epoll keep what they watch, in arrays whose entries *)
(* move and in lists of changes that the kernel does not have yet, and how a *)
(* batch of reported events is handled while its handlers open and close     *)
(* connections. One event of a connection is a pair <<descriptor, side>>.    *)
EXTENDS Integers, Sequences, FiniteSets, SequencesExt

CONSTANTS Methods,     \* the methods to look at
          Fds,         \* the descriptors of connections
          MaxChanges,  \* devpoll_changes, kqueue_changes
          MaxOps,      \* calls made by the handlers of one round
          MaxGens      \* connections that use one descriptor

EventMethodsAssumption ==
  /\ Methods \subseteq {"select", "poll", "devpoll", "kqueue", "epoll"}
  /\ Fds \subseteq Nat /\ MaxChanges \in Nat \ {0} /\ MaxOps \in Nat /\ MaxGens \in Nat

VARIABLES m,       \* the method of the worker
          conn,    \* ngx_cycle->connections: open, instance; gen counts uses
          t,       \* the events and the tables of the method
          batch,   \* the reported events that are still to be handled
          posted,  \* ngx_posted_events, each with its place in the list
          at,      \* where ngx_process_events is
          held,    \* ngx_accept_mutex_held
          ran,     \* whose the last event handled was
          ops      \* bound of the handlers
vars == <<m, conn, t, batch, posted, at, held, ran, ops>>

Sides == {"read", "write"}
Events == Fds \X Sides
Other(x) == <<x[1], IF x[2] = "read" THEN "write" ELSE "read">>
Invalid == -1          \* NGX_INVALID_INDEX
Off == -1              \* a filter that the kernel does not have
Swap(s, i) == [SubSeq(s, 1, Len(s) - 1) EXCEPT ![i + 1] = Last(s)]

\* t.kernel is the fd_set of select, and what /dev/poll, the kqueue or the epoll
\* set hold, with the instance bit of the pointer they return. t.mislaid has the
\* events whose change kqueue moved without telling them.
Init ==
  /\ m \in Methods
  /\ conn = [f \in Fds |-> [open |-> FALSE, instance |-> 0, gen |-> 0]]
  /\ t = [ active |-> [x \in Events |-> FALSE], disabled |-> [x \in Events |-> FALSE],
           index |-> [x \in Events |-> Invalid], list |-> <<>>,
           kernel |-> [x \in Events |-> Off], max_fd |-> -1, mislaid |-> {} ]
  /\ batch = {} /\ posted = {} /\ at = "posted" /\ held = FALSE /\ ops = 0
  /\ ran = "none"

\* The event goes out of its slot of the array, the last one into it.
SelectAdd(u, x) ==
  IF u.index[x] # Invalid THEN u
  ELSE [ u EXCEPT !.active[x] = TRUE, !.kernel[x] = 0,
           !.max_fd = IF @ # -1 /\ @ < x[1] THEN x[1] ELSE @,
           !.index[x] = Len(u.list), !.list = Append(@, x) ]
SelectDel(u, x) ==
  LET i == u.index[x]
      n == Len(u.list) - 1
  IN  IF i = Invalid THEN [u EXCEPT !.active[x] = FALSE]
      ELSE [ u EXCEPT !.active[x] = FALSE, !.kernel[x] = Off,
               !.max_fd = IF @ = x[1] THEN -1 ELSE @,
               !.list = IF i < n THEN Swap(@, i) ELSE Front(@),
               !.index = IF i < n THEN [@ EXCEPT ![Last(u.list)] = i, ![x] = Invalid]
                         ELSE [@ EXCEPT ![x] = Invalid] ]

\* The two events of a connection share one entry of the array.
PollAdd(u, x) ==
  LET v == [u EXCEPT !.active[x] = TRUE]
      e == u.index[Other(x)]
  IN  IF u.index[x] # Invalid THEN v
      ELSE IF e = Invalid
      THEN [ v EXCEPT !.index[x] = Len(u.list),
                      !.list = Append(@, [fd |-> x[1], events |-> {x[2]}]) ]
      ELSE [v EXCEPT !.index[x] = e, !.list[e + 1].events = @ \cup {x[2]}]
\* Mutant: only the read event of the connection follows its entry.
MovedRead(u, i, n, y) ==
  IF y[1] = u.list[n + 1].fd /\ y[2] = "read" /\ u.index[y] = n THEN i ELSE u.index[y]
\* Both events of the connection whose entry moved from n follow it to i.
Moved(u, i, n, y) ==
  IF y[1] = u.list[n + 1].fd /\ conn[y[1]].open /\ u.index[y] = n THEN i ELSE u.index[y]
PollDel(u, x) ==
  LET i == u.index[x]
      n == Len(u.list) - 1
      e == u.index[Other(x)]
      v == [u EXCEPT !.active[x] = FALSE, !.index[x] = Invalid]
  IN  IF i = Invalid THEN v
      ELSE IF e # Invalid THEN [v EXCEPT !.list[e + 1].events = @ \ {x[2]}]
      ELSE IF i = n THEN [v EXCEPT !.list = Front(@)]
      ELSE [ v EXCEPT !.list = Swap(@, i),
               !.index = [y \in Events |-> IF y = x THEN Invalid ELSE Moved(u, i, n, y)] ]

-----------------------------------------------------------------------------
(* The methods with a list of changes.                                     *)

\* write() to /dev/poll: POLLIN and POLLOUT are added, POLLREMOVE takes both; the
\* last change of an event is the one that counts.
DevpollWritten(kernel, list) ==
  [ y \in Events |->
      LET own == {i \in DOMAIN list : list[i].fd = y[1] /\ list[i].events \in {"remove", y[2]}}
      IN  IF own = {} THEN kernel[y] ELSE IF list[Max(own)].events = "remove" THEN Off ELSE 0 ]
\* kevent(): a change of a closed descriptor is an error.
KqueueApplied(kernel, list) ==
  [ y \in Events |->
      LET own == {i \in DOMAIN list : list[i].event = y}
      IN  IF own = {} \/ ~conn[y[1]].open THEN kernel[y]
          ELSE IF list[Max(own)].flags = "add" THEN list[Max(own)].instance ELSE Off ]
Told(u, x) == IF conn[x[1]].open /\ u.active[x] THEN conn[x[1]].instance ELSE Off
Passed(u) ==
  LET v == [u EXCEPT !.kernel = IF m = "devpoll" THEN DevpollWritten(@, u.list)
                                ELSE KqueueApplied(@, u.list), !.list = <<>>]
  IN  [v EXCEPT !.mislaid = {x \in @ : v.kernel[x] # Told(v, x)}]
\* The list is passed to the kernel when it is full.
Changed(u, ch) ==
  LET v == IF Len(u.list) >= MaxChanges THEN Passed(u) ELSE u
  IN  [v EXCEPT !.list = Append(@, ch)]

\* /dev/poll does not use the index.
Change(x) == [fd |-> x[1], events |-> x[2]]
DevpollAdd(u, x) == Changed([u EXCEPT !.active[x] = TRUE], Change(x))
\* The second event is restored, whether it was active or not.
DevpollDel(u, x, closing) ==
  LET removed == Changed(u, [fd |-> x[1], events |-> "remove"])
      v == [removed EXCEPT !.active[x] = FALSE]
  IN  IF closing THEN Passed(v) ELSE Changed(v, Change(Other(x)))

Pending(u, x) ==
  u.index[x] \in 0 .. Len(u.list) - 1 /\ u.list[u.index[x] + 1].event = x
\* The event whose change moves is found by the pointer in the change: with the
\* instance bit set it is one byte off, and so is the index that is written.
MovedIndex(instance, i, old) == IF instance = 0 THEN i ELSE 256 * i + (old % 256)
Withdrawn(u, x) ==
  LET i == u.index[x]
      e == Last(u.list)
  IN  IF i = Len(u.list) - 1 THEN [u EXCEPT !.list = Front(@)]
      ELSE [ u EXCEPT !.list = Swap(@, i),
                      !.index[e.event] = MovedIndex(e.instance, i, @),
                      !.mislaid = IF e.instance = 0 THEN @ ELSE @ \cup {e.event} ]
KqueueSet(u, x, flags) ==
  LET v == Changed(u, [event |-> x, flags |-> flags, instance |-> conn[x[1]].instance])
  IN  [v EXCEPT !.index[x] = Len(v.list) - 1]
\* A change that would follow one that deletes is refused with NGX_ERROR.
KqueueAdd(u, x) ==
  LET v == IF ~Pending(u, x) THEN KqueueSet(u, x, "add")
           ELSE IF u.list[u.index[x] + 1].flags = "disable" THEN Withdrawn(u, x) ELSE u
  IN  [v EXCEPT !.active[x] = TRUE, !.disabled[x] = FALSE]
KqueueDel(u, x, closing) ==
  LET v == IF Pending(u, x) THEN Withdrawn(u, x)
           ELSE IF closing THEN u ELSE KqueueSet(u, x, "disable")
  IN  [v EXCEPT !.active[x] = FALSE, !.disabled[x] = ~closing /\ ~Pending(u, x)]

\* epoll_ctl(): one pointer, with its instance bit, for both events; the second
\* event tells whether the descriptor is in the set already.
EpollAdd(u, x) ==
  [ u EXCEPT !.active[x] = TRUE,
      !.kernel = [y \in Events |->
        IF y = x \/ (y = Other(x) /\ u.active[y]) THEN conn[x[1]].instance ELSE @[y]] ]
EpollDel(u, x, closing) ==
  [u EXCEPT !.active[x] = FALSE, !.kernel[x] = IF closing THEN @ ELSE Off]

-----------------------------------------------------------------------------
(* What a handler may call.                                                *)

Added(u, x) ==
  CASE m = "select" -> SelectAdd(u, x) [] m = "poll" -> PollAdd(u, x)
    [] m = "devpoll" -> DevpollAdd(u, x) [] m = "kqueue" -> KqueueAdd(u, x)
    [] OTHER -> EpollAdd(u, x)
Deleted(u, x, closing) ==
  CASE m = "select" -> SelectDel(u, x) [] m = "poll" -> PollDel(u, x)
    [] m = "devpoll" -> DevpollDel(u, x, closing)
    [] m = "kqueue" -> KqueueDel(u, x, closing) [] OTHER -> EpollDel(u, x, closing)

\* The handler of a reported or posted event, or of a timer before these, runs.
Calls == at \in {"batch", "posted"} /\ ops < MaxOps /\ ops' = ops + 1

AddEvent(x) ==
  /\ Calls /\ conn[x[1]].open /\ ~t.active[x]
  /\ t' = Added(t, x)
  /\ UNCHANGED <<m, conn, batch, posted, at, held, ran>>
\* With kqueue an event of a connection that stays is disabled.
DelEvent(x) ==
  /\ Calls /\ conn[x[1]].open /\ t.active[x]
  /\ t' = Deleted(t, x, FALSE)
  /\ UNCHANGED <<m, conn, batch, posted, at, held, ran>>
\* ngx_epoll_add_connection(), called by ngx_event_connect_peer().
AddConnection(f) ==
  /\ Calls /\ m = "epoll" /\ conn[f].open
  /\ \A s \in Sides : ~t.active[<<f, s>>]
  /\ t' = [ t EXCEPT !.active = [x \in Events |-> x[1] = f \/ @[x]],
               !.kernel = [x \in Events |-> IF x[1] = f THEN conn[f].instance ELSE @[x]] ]
  /\ UNCHANGED <<m, conn, batch, posted, at, held, ran>>

\* accept() or socket() returned a descriptor that is free: the events are
\* zeroed but for the instance, which changes.
Open(f) ==
  /\ Calls /\ ~conn[f].open /\ conn[f].gen < MaxGens
  /\ conn' = [conn EXCEPT ![f] = [open |-> TRUE, instance |-> 1 - @.instance, gen |-> @.gen + 1]]
  /\ LET own(x) == x[1] = f IN
     t' = [ t EXCEPT !.active = [x \in Events |-> ~own(x) /\ @[x]],
              !.disabled = [x \in Events |-> ~own(x) /\ @[x]],
              !.index = [x \in Events |-> IF own(x) THEN Invalid ELSE @[x]] ]
  /\ UNCHANGED <<m, batch, posted, at, held, ran>>

\* ngx_close_connection(): the read event first. The kernel forgets what a
\* closed descriptor had in a kqueue or an epoll set.
Close(f) ==
  /\ Calls /\ conn[f].open
  /\ conn' = [conn EXCEPT ![f].open = FALSE]
  /\ LET closed(u, s) == IF u.active[<<f, s>>] \/ u.disabled[<<f, s>>]
                         THEN Deleted(u, <<f, s>>, TRUE) ELSE u
         u == closed(closed(t, "read"), "write")
     IN  t' = IF m \in {"kqueue", "epoll"}
              THEN [u EXCEPT !.kernel = [x \in Events |-> IF x[1] = f THEN Off ELSE @[x]]]
              ELSE u
  /\ posted' = {e \in posted : e.event[1] # f}
  /\ UNCHANGED <<m, batch, at, held, ran>>

-----------------------------------------------------------------------------
(* One round of ngx_process_events.                                        *)

MaxFd == IF t.max_fd # -1 \/ t.list = <<>> THEN t.max_fd
         ELSE CHOOSE f \in {x[1] : x \in ToSet(t.list)} : \A x \in ToSet(t.list) : x[1] <= f
\* The changes are passed to the kernel, which then knows what to watch.
Entered == CASE m = "select" -> [t EXCEPT !.max_fd = MaxFd]
             [] m \in {"devpoll", "kqueue"} -> Passed(t) [] OTHER -> t
Watched(u) ==
  CASE m = "select" -> {x \in Events : u.kernel[x] # Off /\ x[1] <= u.max_fd}
    [] m = "poll" -> UNION {{e.fd} \X e.events : e \in ToSet(u.list)}
    [] OTHER -> {x \in Events : u.kernel[x] # Off}

\* One event of /dev/poll and of epoll reports both sides of a connection.
Report(u, f, sides) ==
  [ fd |-> f, sides |-> sides, gen |-> conn[f].gen, half |-> FALSE,
    mislaid |-> \E s \in sides : <<f, s>> \in u.mislaid,
    instance |-> u.kernel[<<f, IF "read" \in sides THEN "read" ELSE "write">>] ]
Both == m \in {"devpoll", "epoll"}
Reports(u, ready) ==
  IF Both THEN {Report(u, f, {x[2] : x \in {y \in ready : y[1] = f}}) : f \in {x[1] : x \in ready}}
  ELSE {Report(u, x[1], {x[2]}) : x \in ready}
\* select and poll post what they find in their arrays; it is the last one posted
\* that is handled first.
Place(u, x) == IF m = "select" THEN u.index[x] ELSE 2 * u.index[x] + (IF x[2] = "read" THEN 0 ELSE 1)
Posted(u, x) == [event |-> x, gen |-> conn[x[1]].gen, place |-> Place(u, x)]

Wait ==
  /\ at = "posted" /\ posted = {}
  /\ t' = Entered
  /\ \E ready \in SUBSET Watched(t') :
       IF m \in {"select", "poll"}
       THEN /\ posted' = {Posted(t', x) : x \in ready}
            /\ at' = "posted" /\ UNCHANGED <<batch, held>>
       ELSE /\ batch' = Reports(t', ready) /\ held' \in BOOLEAN
            /\ at' = "waited" /\ UNCHANGED posted
  /\ ops' = 0 /\ ran' = "none"
  /\ UNCHANGED <<m, conn>>

\* The second half of a report is handled at once; which of the others comes next
\* is the kernel's choice.
Entry(e) ==
  /\ at \in {"waited", "batch"} /\ e \in batch
  /\ (\E d \in batch : d.half) => e.half

\* Mutant: the instance bit is not looked at.
StaleClosed(e) == ~conn[e.fd].open
\* c->fd == -1 and the instance bit tell an event of an earlier connection.
Stale(e) == ~conn[e.fd].open \/ conn[e.fd].instance # e.instance
\* exit(1): an event of a closed descriptor is of an unknown cycle.
DevpollExits ==
  /\ m = "devpoll" /\ \E e \in batch : Entry(e) /\ ~e.half /\ ~conn[e.fd].open
  /\ at' = "exited"
  /\ UNCHANGED <<m, conn, t, batch, posted, held, ran, ops>>
StaleEvent ==
  /\ m \in {"kqueue", "epoll"}
  /\ \E e \in batch : Entry(e) /\ ~e.half /\ Stale(e) /\ batch' = batch \ {e}
  /\ UNCHANGED <<m, conn, t, posted, at, held, ran, ops>>

Own(e) == e.half \/ IF m = "devpoll" THEN conn[e.fd].open ELSE ~Stale(e)
\* The write event of a report is handled before the read event, whose
\* connection is not looked at again.
Handled(e) == <<e.fd, IF "write" \in e.sides THEN "write" ELSE "read">>
Rest(e) ==
  IF e.sides = Sides THEN {[e EXCEPT !.sides = {"read"}, !.half = TRUE]} ELSE {}
Skipped(e) == Both /\ ~t.active[Handled(e)]
SkipEvent ==
  /\ \E e \in batch : Entry(e) /\ Own(e) /\ Skipped(e) /\ batch' = (batch \ {e}) \cup Rest(e)
  /\ UNCHANGED <<m, conn, t, posted, at, held, ran, ops>>
For(gen, f) == IF conn[f].gen = gen THEN "owner" ELSE "other"
CallHandler ==
  /\ ~held
  /\ \E e \in batch :
       /\ Entry(e) /\ Own(e) /\ ~Skipped(e)
       /\ batch' = (batch \ {e}) \cup Rest(e)
       /\ ran' = IF e.half THEN "half" ELSE IF e.mislaid THEN "mislaid" ELSE For(e.gen, e.fd)
  /\ at' = "batch"
  /\ UNCHANGED <<m, conn, t, posted, held, ops>>
PostEvent ==
  /\ held
  /\ \E e \in batch :
       /\ Entry(e) /\ Own(e) /\ ~Skipped(e)
       /\ batch' = (batch \ {e}) \cup Rest(e)
       /\ posted' = posted \cup
                      {[event |-> Handled(e), gen |-> e.gen, place |-> Cardinality(posted)]}
  /\ UNCHANGED <<m, conn, t, at, held, ran, ops>>
BatchDone ==
  /\ at \in {"waited", "batch"} /\ batch = {}
  /\ at' = "posted" /\ held' = FALSE
  /\ UNCHANGED <<m, conn, t, batch, posted, ran, ops>>

\* ngx_event_process_posted()
ProcessPosted ==
  /\ at = "posted"
  /\ \E e \in posted :
       /\ \A d \in posted : d.place <= e.place
       /\ ran' = For(e.gen, e.event[1]) /\ posted' = posted \ {e}
  /\ UNCHANGED <<m, conn, t, batch, at, held, ops>>

HandlerCalls ==
  \/ \E x \in Events : AddEvent(x) \/ DelEvent(x)
  \/ \E f \in Fds : AddConnection(f) \/ Open(f) \/ Close(f)
Next == \/ HandlerCalls \/ Wait \/ DevpollExits \/ StaleEvent \/ SkipEvent
        \/ CallHandler \/ PostEvent \/ BatchDone \/ ProcessPosted
Spec == Init /\ [][Next]_vars

-----------------------------------------------------------------------------
(* Properties.                                                             *)

TypeOK ==
  /\ m \in Methods /\ held \in BOOLEAN /\ ops \in 0 .. MaxOps
  /\ conn \in [Fds -> [open : BOOLEAN, instance : {0, 1}, gen : 0 .. MaxGens]]
  /\ t.active \in [Events -> BOOLEAN] /\ t.index \in [Events -> Nat \cup {Invalid}]
  /\ t.kernel \in [Events -> {Off, 0, 1}]
  /\ m \in {"devpoll", "kqueue"} => Len(t.list) <= MaxChanges
  /\ at \in {"waited", "batch", "posted", "exited"}

Active == {x \in Events : conn[x[1]].open /\ t.active[x]}

\* Whatever the handlers added, deleted, opened and closed, in whatever order the
\* entries moved and the changes waited, the next wait watches the active events
\* (with /dev/poll, at least them) and returns the instance of their connections:
\* none is missed and none spins. (Of kqueue, the events but those it mislaid.)
WatchedAreActive ==
  LET u == Entered
      known == Events \ t.mislaid IN
  /\ Active \cap known \subseteq Watched(u)
  /\ m # "devpoll" => Watched(u) \cap known \subseteq Active
  /\ m \in {"kqueue", "epoll"} => \A x \in Active \cap known : u.kernel[x] = conn[x[1]].instance
  /\ m = "select" => IsInjective(u.list) /\ ToSet(u.list) = Active
  /\ m = "poll" => \A x \in Active : /\ u.index[x] \in 0 .. Len(u.list) - 1
                                     /\ u.list[u.index[x] + 1].fd = x[1]

\* An event is handled by the connection it was reported for, although an earlier
\* handler of the round may have closed it and opened another one with its
\* descriptor. (/dev/poll has no instance, the read half of a report is not
\* checked again, the one bit tells one new connection in a round, not two, and
\* kqueue may return the bit of an earlier connection for a change it mislaid.)
DeliveredToOwner == m # "devpoll" => ran # "other"

=============================================================================
