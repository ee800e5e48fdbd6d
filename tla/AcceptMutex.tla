---------------------------- MODULE AcceptMutex -----------------------------
(***************************************************************************)
(* The accept mutex: one shared word that the workers' event loops compete *)
(* for before they put the listening sockets into their own epoll sets     *)
(* (event/ngx_event_accept.c, event/modules/ngx_epoll_module.c,            *)
(* ngx_accept_mutex_unlock() in event/ngx_event.h, and the master's        *)
(* recovery of a dead worker's lock in os/unix/ngx_process.c).             *)
(*                                                                         *)
(* ngx_accept_mutex_held survives the unlock: it says that the listening   *)
(* sockets are in this worker's epoll set, not that the word is its own.   *)
(* Events of ordinary connections never touch the lock and are left out.   *)
(***************************************************************************)
EXTENDS Integers

CONSTANTS
  Procs,         \* worker processes (their pids)
  NoProc,        \* *ngx_accept_mutex == 0
  Listeners,     \* cycle->listening has the sockets 1 .. Listeners
  MaxDisabled,   \* bound on a positive ngx_accept_disabled; 0: no overload
  EpollMayFail,  \* whether epoll_ctl() may fail
  Quitters,      \* workers that may be told to shut down
  MaxFaults      \* bound: interrupted epoll_wait() calls, deaths, failures

ASSUME AcceptMutexAssumption ==
  /\ NoProc \notin Procs
  /\ Listeners \in Nat \ {0}
  /\ MaxDisabled \in Nat
  /\ EpollMayFail \in BOOLEAN
  /\ Quitters \subseteq Procs
  /\ MaxFaults \in Nat

Socks == 1 .. Listeners

VARIABLES
  mutex,        \* *ngx_accept_mutex
  pc,           \* where each worker is in its loop
  held,         \* ngx_accept_mutex_held
  accept_lock,  \* the local of ngx_epoll_process_events
  active,       \* listening sockets whose read event is active
  disabled,     \* ngx_accept_disabled, its negative values as 0
  batch,        \* accept events still to handle in event_list
  sock,         \* the listening socket ngx_event_accept was called for
  backlog,      \* listening sockets with a connection to accept
  faults

vars == <<mutex, pc, held, accept_lock, active, disabled, batch, sock, backlog,
          faults>>
locals == <<held, accept_lock, active, disabled, batch, sock>>

Init ==
  /\ mutex = NoProc
  /\ pc = [p \in Procs |-> "top"]
  /\ held = [p \in Procs |-> FALSE]
  /\ accept_lock = [p \in Procs |-> FALSE]
  /\ active = [p \in Procs |-> {}]
  /\ disabled = [p \in Procs |-> 0]
  /\ batch = [p \in Procs |-> {}]
  /\ sock = [p \in Procs |-> 1]
  /\ backlog = {}
  /\ faults = 0

Goto(p, label) == pc' = [pc EXCEPT ![p] = label]

\* ngx_accept_mutex_unlock(): whoever has "held" set clears the word.
Unlock(p) == mutex' = IF held[p] THEN NoProc ELSE mutex

Fault == faults < MaxFaults /\ faults' = faults + 1

-----------------------------------------------------------------------------
(* Before epoll_wait().                                                    *)

\* A loaded worker counts down and leaves the lock and its events alone.
Overloaded(p) ==
  /\ pc[p] = "top" /\ disabled[p] > 0
  /\ disabled' = [disabled EXCEPT ![p] = @ - 1]
  /\ accept_lock' = [accept_lock EXCEPT ![p] = FALSE]
  /\ Goto(p, "wait")
  /\ UNCHANGED <<mutex, held, active, batch, sock, backlog, faults>>

\* ngx_trylock_accept_mutex up to its epoll_ctl() calls.
TryLock(p) ==
  /\ pc[p] = "top" /\ disabled[p] = 0
  /\ IF mutex = NoProc
     THEN /\ mutex' = p
          /\ Goto(p, IF held[p] THEN "wait" ELSE "enable")
          /\ accept_lock' = [accept_lock EXCEPT ![p] = held[p]]
     ELSE /\ Goto(p, IF held[p] THEN "disable" ELSE "wait")
          /\ accept_lock' = [accept_lock EXCEPT ![p] = FALSE]
          /\ UNCHANGED mutex
  /\ UNCHANGED <<held, active, disabled, batch, sock, backlog, faults>>

\* Mutant: the loop runs one element too far.
EnableOnePast(p) ==
  /\ pc[p] = "enable" /\ active[p] = {}
  /\ active' = [active EXCEPT ![p] = Socks \cup {Listeners + 1}]
  /\ held' = [held EXCEPT ![p] = TRUE]
  /\ accept_lock' = [accept_lock EXCEPT ![p] = TRUE]
  /\ Goto(p, "wait")
  /\ UNCHANGED <<mutex, disabled, batch, sock, backlog, faults>>

\* Mutant: the loop returns after its first socket.
EnableFirst(p) ==
  /\ pc[p] = "enable" /\ active[p] = {}
  /\ active' = [active EXCEPT ![p] = {1}]
  /\ held' = [held EXCEPT ![p] = TRUE]
  /\ accept_lock' = [accept_lock EXCEPT ![p] = TRUE]
  /\ Goto(p, "wait")
  /\ UNCHANGED <<mutex, disabled, batch, sock, backlog, faults>>

\* ngx_enable_accept_events: every socket is added, none was there before.
EnableOK(p) ==
  /\ pc[p] = "enable" /\ active[p] = {}
  /\ active' = [active EXCEPT ![p] = Socks]
  /\ held' = [held EXCEPT ![p] = TRUE]
  /\ accept_lock' = [accept_lock EXCEPT ![p] = TRUE]
  /\ Goto(p, "wait")
  /\ UNCHANGED <<mutex, disabled, batch, sock, backlog, faults>>

\* The k-th call fails, because the socket is there already or by itself;
\* those before it stay in the set, and the lock is given back.
EnableFailed(p) ==
  /\ pc[p] = "enable"
  /\ \E k \in Socks :
       /\ active[p] \cap (1 .. k - 1) = {}
       /\ \/ k \in active[p] /\ UNCHANGED faults
          \/ k \notin active[p] /\ EpollMayFail /\ Fault
       /\ active' = [active EXCEPT ![p] = @ \cup (1 .. k - 1)]
  /\ mutex' = NoProc
  /\ Goto(p, "top")
  /\ UNCHANGED <<held, accept_lock, disabled, batch, sock, backlog>>

\* Mutant: the sockets stay in the epoll set.
DisableNothing(p) ==
  /\ pc[p] = "disable"
  /\ held' = [held EXCEPT ![p] = FALSE]
  /\ Goto(p, "wait")
  /\ UNCHANGED <<mutex, accept_lock, active, disabled, batch, sock, backlog,
                 faults>>

DisableOK(p) ==
  /\ pc[p] = "disable"
  /\ active' = [active EXCEPT ![p] = {}]
  /\ held' = [held EXCEPT ![p] = FALSE]
  /\ Goto(p, "wait")
  /\ UNCHANGED <<mutex, accept_lock, disabled, batch, sock, backlog, faults>>

DisableFailed(p) ==
  /\ pc[p] = "disable" /\ EpollMayFail /\ Fault
  /\ \E k \in active[p] : active' = [active EXCEPT ![p] = @ \ (1 .. k - 1)]
  /\ Goto(p, "top")
  /\ UNCHANGED <<mutex, held, accept_lock, disabled, batch, sock, backlog>>

-----------------------------------------------------------------------------
(* epoll_wait() and the events it returns.                                 *)

\* Mutant: an error returns without the unlock.
WaitFailedKeepsLock(p) ==
  /\ pc[p] = "wait" /\ Fault
  /\ Goto(p, "top")
  /\ UNCHANGED <<mutex, locals, backlog>>

\* EINTR, another error, or no event although no timer was set.
WaitFailed(p) ==
  /\ pc[p] = "wait" /\ Fault
  /\ Unlock(p)
  /\ Goto(p, "top")
  /\ UNCHANGED <<locals, backlog>>

\* The ready listening sockets of this worker's set, if any.
WaitReturns(p) ==
  /\ pc[p] = "wait"
  /\ batch' = [batch EXCEPT ![p] = active[p] \cap backlog]
  /\ Goto(p, "events")
  /\ UNCHANGED <<mutex, held, accept_lock, active, disabled, sock, backlog,
                 faults>>

\* ngx_event_accept is called, except by a worker that has the sockets in
\* its set and is loaded.
AcceptEvent(p) ==
  /\ pc[p] = "events"
  /\ \E l \in batch[p] :
       /\ batch' = [batch EXCEPT ![p] = @ \ {l}]
       /\ IF held[p] /\ disabled[p] > 0
          THEN UNCHANGED <<pc, sock>>
          ELSE Goto(p, "accepting") /\ sock' = [sock EXCEPT ![p] = l]
  /\ UNCHANGED <<mutex, held, accept_lock, active, disabled, backlog, faults>>

\* accept() takes the connection and the load is measured by the new
\* descriptor; or another worker was faster and accept() says EAGAIN. Only a
\* worker with "held" looks at its load afterwards and gives the lock away.
Accepted(p) ==
  /\ pc[p] = "accepting"
  /\ backlog' = backlog \ {sock[p]}
  /\ \E d \in 0 .. MaxDisabled :
       /\ sock[p] \notin backlog => d = disabled[p]
       /\ disabled' = [disabled EXCEPT ![p] = d]
       /\ IF held[p] /\ d > 0
          THEN Unlock(p) /\ accept_lock' = [accept_lock EXCEPT ![p] = FALSE]
          ELSE UNCHANGED <<mutex, accept_lock>>
  /\ Goto(p, "events")
  /\ UNCHANGED <<held, active, batch, sock, faults>>

EventsDone(p) ==
  /\ pc[p] = "events" /\ batch[p] = {}
  /\ IF accept_lock[p] THEN Unlock(p) ELSE UNCHANGED mutex
  /\ Goto(p, "top")
  /\ UNCHANGED <<locals, backlog, faults>>

-----------------------------------------------------------------------------
(* Shutdown, death and recovery.                                           *)

\* ngx_close_listening_sockets, called between two rounds of the loop.
CloseListening(p) ==
  /\ p \in Quitters /\ pc[p] = "top"
  /\ held' = [held EXCEPT ![p] = FALSE]
  /\ active' = [active EXCEPT ![p] = {}]
  /\ Goto(p, "closed")
  /\ UNCHANGED <<mutex, accept_lock, disabled, batch, sock, backlog, faults>>

Dies(p) ==
  /\ pc[p] \notin {"dead", "reaped"}
  /\ Fault
  /\ Goto(p, "dead")
  /\ UNCHANGED <<mutex, locals, backlog>>

\* Mutant: the word is cleared whoever owns it.
ReapAnyLock(p) ==
  /\ pc[p] = "dead"
  /\ mutex' = NoProc
  /\ Goto(p, "reaped")
  /\ UNCHANGED <<locals, backlog, faults>>

\* Mutant: a dead worker's lock is not given back.
ReapNoLock(p) ==
  /\ pc[p] = "dead"
  /\ Goto(p, "reaped")
  /\ UNCHANGED <<mutex, locals, backlog, faults>>

\* The master's ngx_process_get_status: ngx_atomic_cmp_set(mutex, pid, 0).
Reap(p) ==
  /\ pc[p] = "dead"
  /\ mutex' = IF mutex = p THEN NoProc ELSE mutex
  /\ Goto(p, "reaped")
  /\ UNCHANGED <<locals, backlog, faults>>

\* A new worker, under the same name here, starts as ngx_event_process_init
\* leaves it.
Spawn(p) ==
  /\ pc[p] = "reaped"
  /\ held' = [held EXCEPT ![p] = FALSE]
  /\ accept_lock' = [accept_lock EXCEPT ![p] = FALSE]
  /\ active' = [active EXCEPT ![p] = {}]
  /\ disabled' = [disabled EXCEPT ![p] = 0]
  /\ batch' = [batch EXCEPT ![p] = {}]
  /\ sock' = [sock EXCEPT ![p] = 1]
  /\ Goto(p, "top")
  /\ UNCHANGED <<mutex, backlog, faults>>

\* A client's connection reaches a listening socket.
Arrives(l) ==
  /\ l \notin backlog
  /\ backlog' = backlog \cup {l}
  /\ UNCHANGED <<mutex, pc, locals, faults>>

-----------------------------------------------------------------------------
Locking(p) == TryLock(p) \/ EnableOK(p) \/ DisableOK(p)
Failing(p) == Overloaded(p) \/ EnableFailed(p) \/ DisableFailed(p)
Handling(p) == AcceptEvent(p) \/ Accepted(p) \/ EventsDone(p)
WorkerStep(p) == Locking(p) \/ WaitFailed(p) \/ WaitReturns(p) \/ Handling(p)
                            \/ CloseListening(p)
MasterStep(p) == Reap(p) \/ Spawn(p)

NormalNext ==
  \/ \E p \in Procs : WorkerStep(p) \/ MasterStep(p) \/ Dies(p)
  \/ \E l \in Socks : Arrives(l)
Next == NormalNext \/ \E p \in Procs : Failing(p)

Spec == Init /\ [][Next]_vars

\* A worker that failed to lock, or has connections, leaves epoll_wait() by
\* its timer; one that listens is woken by a waiting connection. The master
\* reaps and respawns.
Woken(p) == WaitReturns(p) /\ (~held[p] \/ active[p] \cap backlog # {})
Fairness ==
  \A p \in Procs : /\ WF_vars(Locking(p)) /\ WF_vars(Handling(p))
                   /\ WF_vars(Woken(p)) /\ WF_vars(MasterStep(p))
\* A run without overload and without failing epoll_ctl() calls.
FairSpec == Init /\ [][NormalNext]_vars /\ Fairness

-----------------------------------------------------------------------------
(* Properties.                                                             *)

Labels == {"top", "enable", "disable", "wait", "events", "accepting", "closed",
           "dead", "reaped"}

\* The state has the shape the C declarations give it.
TypeOK ==
  /\ mutex \in Procs \cup {NoProc}
  /\ pc \in [Procs -> Labels]
  /\ held \in [Procs -> BOOLEAN]
  /\ accept_lock \in [Procs -> BOOLEAN]
  /\ active \in [Procs -> SUBSET Socks]
  /\ disabled \in [Procs -> 0 .. MaxDisabled]
  /\ batch \in [Procs -> SUBSET Socks]
  /\ sock \in [Procs -> Socks]
  /\ backlog \subseteq Socks
  /\ faults \in 0 .. MaxFaults

\* No worker starts a round, or stops listening, or is gone for good, with
\* the word still its own: the lock is not recursive, so it could never be
\* taken again, by this worker or by any other. Every exit of the round must
\* give it back, the errors included.
NeverLeaked ==
  \A p \in Procs : mutex = p => pc[p] \notin {"top", "disable", "closed", "reaped"}

\* A worker calls accept() only while the word is its own, so no two do.
AcceptsUnderLock == \A p \in Procs : pc[p] = "accepting" => mutex = p

\* The word is released by its owner, or by the master once the owner died.
OnlyOwnerReleases ==
  [][\A p \in Procs : mutex = p /\ mutex' # p =>
       pc[p] = "dead" \/ pc'[p] # pc[p]]_vars

\* The epoll set follows "held": a worker without it listens nowhere, one
\* with it everywhere, so no socket is left without a listener.
SetFollowsHeld ==
  \A p \in Procs : pc[p] \notin {"dead", "reaped"} =>
    active[p] = IF held[p] THEN Socks ELSE {}

\* The word and the workers inside accept() behave as an exclusive lock that
\* only its owner uses and that is given back or recovered.
Lock == INSTANCE AcceptLock
          WITH owner <- mutex, inside <- {p \in Procs : pc[p] = "accepting"}
ImplementsLock == Lock!Spec

\* A waiting connection is accepted, whoever dies holding the lock.
ConnectionsAccepted == \A l \in Socks : l \in backlog ~> l \notin backlog

\* No socket is left without a listener, so no connection is left waiting.
SocketsServed == []SetFollowsHeld /\ ConnectionsAccepted

=============================================================================
