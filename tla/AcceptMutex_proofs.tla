------------------------- MODULE AcceptMutex_proofs -------------------------
(***************************************************************************)
(* Proofs about AcceptMutex for any number of workers and sockets.         *)
(***************************************************************************)
EXTENDS AcceptMutex, TLAPS

\* A step of a worker, of its master, or of a client, as the proofs split it.
Step(p) ==
  \/ Overloaded(p) \/ TryLock(p) \/ EnableOK(p) \/ EnableFailed(p)
  \/ DisableOK(p) \/ DisableFailed(p) \/ WaitFailed(p) \/ WaitReturns(p)
  \/ AcceptEvent(p) \/ Accepted(p) \/ EventsDone(p) \/ CloseListening(p)
  \/ Reap(p) \/ Spawn(p) \/ Dies(p)

LEMMA NextIsStep == Next <=> \/ \E p \in Procs : Step(p)
                            \/ \E l \in Socks : Arrives(l)
BY DEF Next, NormalNext, Failing, Step, WorkerStep, MasterStep, Locking, Handling

-----------------------------------------------------------------------------
(* Type correctness.                                                       *)

LEMMA TypeInit == Init => TypeOK
BY AcceptMutexAssumption DEF Init, TypeOK, Socks, Labels

LEMMA TypeStep == TypeOK /\ [Next]_vars => TypeOK'
<1> SUFFICES ASSUME TypeOK, [Next]_vars PROVE TypeOK'
  OBVIOUS
<1> USE AcceptMutexAssumption DEF TypeOK, Labels, Goto
<1>1. CASE UNCHANGED vars
  BY <1>1 DEF vars
<1>2. ASSUME NEW l \in Socks, Arrives(l) PROVE TypeOK'
  BY <1>2 DEF Arrives, locals
<1>3. ASSUME NEW p \in Procs, Step(p) PROVE TypeOK'
  <2>1. CASE Overloaded(p)
    BY <2>1 DEF Overloaded
  <2>2. CASE TryLock(p)
    BY <2>2 DEF TryLock
  <2>3. CASE EnableOK(p)
    BY <2>3 DEF EnableOK
  <2>4. CASE EnableFailed(p)
    BY <2>4 DEF EnableFailed, Fault, Socks
  <2>5. CASE DisableOK(p)
    BY <2>5 DEF DisableOK
  <2>6. CASE DisableFailed(p)
    BY <2>6 DEF DisableFailed, Fault, Socks
  <2>7. CASE WaitFailed(p)
    BY <2>7 DEF WaitFailed, Fault, Unlock, locals
  <2>8. CASE WaitReturns(p)
    BY <2>8 DEF WaitReturns
  <2>9. CASE AcceptEvent(p)
    BY <2>9 DEF AcceptEvent
  <2>10. CASE Accepted(p)
    <3>1. mutex' \in {mutex, NoProc}
      BY <2>10 DEF Accepted, Unlock
    <3>2. accept_lock' \in {accept_lock, [accept_lock EXCEPT ![p] = FALSE]}
      BY <2>10 DEF Accepted
    <3>3. PICK d \in 0 .. MaxDisabled : disabled' = [disabled EXCEPT ![p] = d]
      BY <2>10 DEF Accepted
    <3>4. /\ pc' = [pc EXCEPT ![p] = "events"] /\ backlog' = backlog \ {sock[p]}
          /\ UNCHANGED <<held, active, batch, sock, faults>>
      BY <2>10 DEF Accepted
    <3> QED
      BY <3>1, <3>2, <3>3, <3>4
  <2>11. CASE EventsDone(p)
    BY <2>11 DEF EventsDone, Unlock, locals
  <2>12. CASE CloseListening(p)
    BY <2>12 DEF CloseListening
  <2>13. CASE Reap(p)
    BY <2>13 DEF Reap, locals
  <2>14. CASE Spawn(p)
    BY <2>14 DEF Spawn, Socks
  <2>15. CASE Dies(p)
    BY <2>15 DEF Dies, Fault, locals
  <2> QED
    BY <1>3, <2>1, <2>2, <2>3, <2>4, <2>5, <2>6, <2>7, <2>8, <2>9, <2>10,
       <2>11, <2>12, <2>13, <2>14, <2>15 DEF Step
<1> QED
  BY <1>1, <1>2, <1>3, NextIsStep

\* Every reachable state has the shape the C declarations give it.
THEOREM TypeCorrect == Spec => []TypeOK
BY TypeInit, TypeStep, PTL DEF Spec

-----------------------------------------------------------------------------
(* The lock is never leaked. A worker that owns the word is on its way     *)
(* through a round, and from epoll_wait() on its two local marks of the    *)
(* lock, which decide about the unlock at every exit, are both set.        *)

OwnerMarked ==
  \A p \in Procs : mutex = p =>
    /\ pc[p] \in {"enable", "wait", "events", "accepting", "dead"}
    /\ pc[p] \in {"wait", "events", "accepting"} => held[p] /\ accept_lock[p]

LEMMA OwnerMarkedInit == Init => OwnerMarked
BY AcceptMutexAssumption DEF Init, OwnerMarked

LEMMA OwnerMarkedStep == TypeOK /\ OwnerMarked /\ [Next]_vars => OwnerMarked'
<1> SUFFICES ASSUME TypeOK, OwnerMarked, [Next]_vars PROVE OwnerMarked'
  OBVIOUS
<1> USE AcceptMutexAssumption DEF TypeOK, OwnerMarked, Goto
<1>1. CASE UNCHANGED vars
  BY <1>1 DEF vars
<1>2. ASSUME NEW l \in Socks, Arrives(l) PROVE OwnerMarked'
  BY <1>2 DEF Arrives, locals
<1>3. ASSUME NEW p \in Procs, Step(p) PROVE OwnerMarked'
  <2>1. CASE Overloaded(p)
    BY <2>1 DEF Overloaded
  <2>2. CASE TryLock(p)
    BY <2>2 DEF TryLock
  <2>3. CASE EnableOK(p)
    BY <2>3 DEF EnableOK
  <2>4. CASE EnableFailed(p)
    BY <2>4 DEF EnableFailed, Fault
  <2>5. CASE DisableOK(p)
    BY <2>5 DEF DisableOK
  <2>6. CASE DisableFailed(p)
    BY <2>6 DEF DisableFailed, Fault
  <2>7. CASE WaitFailed(p)
    BY <2>7 DEF WaitFailed, Unlock, locals, Fault
  <2>8. CASE WaitReturns(p)
    BY <2>8 DEF WaitReturns
  <2>9. CASE AcceptEvent(p)
    BY <2>9 DEF AcceptEvent
  <2>10. CASE Accepted(p)
    BY <2>10 DEF Accepted, Unlock
  <2>11. CASE EventsDone(p)
    BY <2>11 DEF EventsDone, Unlock, locals
  <2>12. CASE CloseListening(p)
    BY <2>12 DEF CloseListening
  <2>13. CASE Reap(p)
    BY <2>13 DEF Reap, locals
  <2>14. CASE Spawn(p)
    BY <2>14 DEF Spawn
  <2>15. CASE Dies(p)
    BY <2>15 DEF Dies, locals, Fault
  <2> QED
    BY <1>3, <2>1, <2>2, <2>3, <2>4, <2>5, <2>6, <2>7, <2>8,
       <2>9, <2>10, <2>11, <2>12, <2>13, <2>14, <2>15 DEF Step
<1> QED
  BY <1>1, <1>2, <1>3, NextIsStep

\* No worker leaves a round with the word its own, whatever fails in it.
THEOREM LockNeverLeaked == Spec => []NeverLeaked
<1>1. TypeOK /\ OwnerMarked => NeverLeaked
  BY DEF OwnerMarked, NeverLeaked
<1> QED
  BY <1>1, TypeInit, TypeStep, OwnerMarkedInit, OwnerMarkedStep, PTL DEF Spec

-----------------------------------------------------------------------------
(* Exclusion. While no worker is overloaded and epoll_ctl() never fails,   *)
(* "held" says from epoll_wait() on that the word is this worker's own.    *)
(* Both conditions are needed: the runs show a loaded worker that accepts  *)
(* without the lock and one that takes another's lock away.                *)

Undisturbed == MaxDisabled = 0 /\ EpollMayFail = FALSE

HeldOwns ==
  \A p \in Procs :
    /\ held[p] /\ pc[p] \in {"wait", "events", "accepting"} =>
         mutex = p /\ accept_lock[p]
    /\ pc[p] = "enable" => mutex = p /\ ~held[p]
    /\ ~held[p] /\ pc[p] \notin {"dead", "reaped"} => active[p] = {}
    /\ pc[p] = "accepting" => held[p]
    /\ pc[p] = "events" /\ batch[p] # {} => held[p]

LEMMA HeldOwnsInit == Init => HeldOwns
BY DEF Init, HeldOwns

LEMMA NoOverload ==
  ASSUME Undisturbed, TypeOK, NEW p \in Procs PROVE disabled[p] = 0
BY DEF Undisturbed, TypeOK

LEMMA NoEnableFailure ==
  ASSUME Undisturbed, HeldOwns, NEW p \in Procs PROVE ~EnableFailed(p)
BY DEF Undisturbed, HeldOwns, EnableFailed

LEMMA HeldOwnsStep ==
  ASSUME Undisturbed
  PROVE  TypeOK /\ HeldOwns /\ [Next]_vars => HeldOwns'
<1> SUFFICES ASSUME TypeOK, HeldOwns, [Next]_vars PROVE HeldOwns'
  OBVIOUS
<1> USE AcceptMutexAssumption DEF TypeOK, HeldOwns, Goto
<1>1. CASE UNCHANGED vars
  BY <1>1 DEF vars
<1>2. ASSUME NEW l \in Socks, Arrives(l) PROVE HeldOwns'
  BY <1>2 DEF Arrives, locals
<1>3. ASSUME NEW p \in Procs, Step(p) PROVE HeldOwns'
  <2>1. CASE Overloaded(p)
    BY <2>1, NoOverload DEF Overloaded
  <2>2. CASE TryLock(p)
    BY <2>2 DEF TryLock
  <2>3. CASE EnableOK(p)
    BY <2>3 DEF EnableOK
  <2>4. CASE EnableFailed(p)
    BY <2>4, NoEnableFailure
  <2>5. CASE DisableOK(p)
    BY <2>5 DEF DisableOK
  <2>6. CASE DisableFailed(p)
    BY <2>6 DEF DisableFailed, Undisturbed
  <2>7. CASE WaitFailed(p)
    BY <2>7 DEF WaitFailed, Unlock, locals, Fault
  <2>8. CASE WaitReturns(p)
    BY <2>8 DEF WaitReturns
  <2>9. CASE AcceptEvent(p)
    BY <2>9 DEF AcceptEvent
  <2>10. CASE Accepted(p)
    BY <2>10 DEF Accepted, Unlock, Undisturbed
  <2>11. CASE EventsDone(p)
    BY <2>11 DEF EventsDone, Unlock, locals
  <2>12. CASE CloseListening(p)
    BY <2>12 DEF CloseListening
  <2>13. CASE Reap(p)
    BY <2>13 DEF Reap, locals
  <2>14. CASE Spawn(p)
    BY <2>14 DEF Spawn
  <2>15. CASE Dies(p)
    BY <2>15 DEF Dies, locals, Fault
  <2> QED
    BY <1>3, <2>1, <2>2, <2>3, <2>4, <2>5, <2>6, <2>7, <2>8,
       <2>9, <2>10, <2>11, <2>12, <2>13, <2>14, <2>15 DEF Step
<1> QED
  BY <1>1, <1>2, <1>3, NextIsStep

\* accept() is called only by the owner of the word.
THEOREM AcceptExclusion ==
  ASSUME Undisturbed PROVE Spec => []AcceptsUnderLock
<1>1. HeldOwns => AcceptsUnderLock
  BY DEF HeldOwns, AcceptsUnderLock
<1>2. TypeOK /\ HeldOwns /\ [Next]_vars => HeldOwns'
  BY HeldOwnsStep
<1> QED
  BY <1>1, <1>2, TypeInit, TypeStep, HeldOwnsInit, PTL DEF Spec

\* What a step may do to the word: its owner gives it up in a step of its
\* own, or is dead.
Releases == \A q \in Procs : mutex = q /\ mutex' # q =>
              pc[q] = "dead" \/ pc'[q] # pc[q]

LEMMA ReleaseStep ==
  ASSUME Undisturbed
  PROVE  TypeOK /\ HeldOwns /\ [Next]_vars => Releases
<1> SUFFICES ASSUME TypeOK, HeldOwns, [Next]_vars PROVE Releases
  OBVIOUS
<1> USE AcceptMutexAssumption DEF TypeOK, HeldOwns, Goto, Releases
<1>1. CASE UNCHANGED vars
  BY <1>1 DEF vars
<1>2. ASSUME NEW l \in Socks, Arrives(l) PROVE Releases
  BY <1>2 DEF Arrives, locals
<1>3. ASSUME NEW p \in Procs, Step(p) PROVE Releases
  <2>1. CASE Overloaded(p)
    BY <2>1 DEF Overloaded
  <2>2. CASE TryLock(p)
    BY <2>2 DEF TryLock
  <2>3. CASE EnableOK(p)
    BY <2>3 DEF EnableOK
  <2>4. CASE EnableFailed(p)
    BY <2>4, NoEnableFailure DEF EnableFailed, Fault
  <2>5. CASE DisableOK(p)
    BY <2>5 DEF DisableOK
  <2>6. CASE DisableFailed(p)
    BY <2>6 DEF DisableFailed, Fault
  <2>7. CASE WaitFailed(p)
    BY <2>7 DEF WaitFailed, Unlock, locals, Fault
  <2>8. CASE WaitReturns(p)
    BY <2>8 DEF WaitReturns
  <2>9. CASE AcceptEvent(p)
    BY <2>9 DEF AcceptEvent
  <2>10. CASE Accepted(p)
    BY <2>10 DEF Accepted, Unlock, Undisturbed
  <2>11. CASE EventsDone(p)
    BY <2>11 DEF EventsDone, Unlock, locals
  <2>12. CASE CloseListening(p)
    BY <2>12 DEF CloseListening
  <2>13. CASE Reap(p)
    BY <2>13 DEF Reap, locals
  <2>14. CASE Spawn(p)
    BY <2>14 DEF Spawn
  <2>15. CASE Dies(p)
    BY <2>15 DEF Dies, locals, Fault
  <2> QED
    BY <1>3, <2>1, <2>2, <2>3, <2>4, <2>5, <2>6, <2>7, <2>8,
       <2>9, <2>10, <2>11, <2>12, <2>13, <2>14, <2>15 DEF Step
<1> QED
  BY <1>1, <1>2, <1>3, NextIsStep

\* The word is released by its owner, or by the master once the owner died.
THEOREM OwnerReleases ==
  ASSUME Undisturbed PROVE Spec => OnlyOwnerReleases
<1>1. TypeOK /\ HeldOwns /\ [Next]_vars =>
        [\A p \in Procs : mutex = p /\ mutex' # p =>
           pc[p] = "dead" \/ pc'[p] # pc[p]]_vars
  BY ReleaseStep DEF Releases
<1>2. TypeOK /\ HeldOwns /\ [Next]_vars => HeldOwns'
  BY HeldOwnsStep
<1> QED
  BY <1>1, <1>2, TypeInit, TypeStep, HeldOwnsInit, PTL
  DEF Spec, OnlyOwnerReleases

-----------------------------------------------------------------------------
(* Refinement: the word and the workers inside accept() are an AcceptLock. *)

Inside == {p \in Procs : pc[p] = "accepting"}

LEMMA LockStep ==
  ASSUME Undisturbed
  PROVE  TypeOK /\ HeldOwns /\ [Next]_vars => [Lock!Next]_<<mutex, Inside>>
<1> SUFFICES ASSUME TypeOK, HeldOwns, [Next]_vars
             PROVE  [Lock!Next]_<<mutex, Inside>>
  OBVIOUS
<1> DEFINE Goal == [Lock!Next]_<<mutex, Inside>>
<1> USE AcceptMutexAssumption DEF TypeOK, HeldOwns, Goto
<1>0. ASSUME NEW p \in Procs,
             Lock!Acquire(p) \/ Lock!Enter(p) \/ Lock!Leave(p) \/ Lock!Release(p)
      PROVE  Goal
  BY <1>0 DEF Lock!Next
<1>1. CASE UNCHANGED vars
  BY <1>1 DEF vars, Inside
<1>2. ASSUME NEW l \in Socks, Arrives(l) PROVE Goal
  BY <1>2 DEF Arrives, locals, Inside
<1>3. ASSUME NEW p \in Procs, Step(p) PROVE Goal
  <2>1. CASE Overloaded(p)
    BY <2>1, NoOverload DEF Overloaded
  <2>2. CASE TryLock(p)
    <3>1. Inside' = Inside
      BY <2>2 DEF TryLock, Inside
    <3>2. CASE mutex = NoProc
      BY <1>0, <2>2, <3>1, <3>2 DEF TryLock, Lock!Acquire, Inside
    <3>3. CASE mutex # NoProc
      BY <2>2, <3>1, <3>3 DEF TryLock
    <3> QED
      BY <3>2, <3>3
  <2>3. CASE EnableOK(p)
    BY <2>3 DEF EnableOK, Inside
  <2>4. CASE EnableFailed(p)
    BY <2>4, NoEnableFailure
  <2>5. CASE DisableOK(p)
    BY <2>5 DEF DisableOK, Inside
  <2>6. CASE DisableFailed(p)
    BY <2>6 DEF DisableFailed, Undisturbed
  <2>7. CASE WaitFailed(p)
    <3>1. Inside' = Inside /\ p \notin Inside
      BY <2>7 DEF WaitFailed, Inside
    <3>2. mutex' = mutex \/ (mutex = p /\ mutex' = NoProc)
      BY <2>7 DEF WaitFailed, Unlock
    <3> QED
      BY <1>0, <3>1, <3>2 DEF Lock!Release, Inside
  <2>8. CASE WaitReturns(p)
    BY <2>8 DEF WaitReturns, Inside
  <2>9. CASE AcceptEvent(p)
    <3>1. mutex' = mutex /\ mutex = p
      BY <2>9 DEF AcceptEvent
    <3>2. Inside' = Inside \/ Inside' = Inside \cup {p}
      BY <2>9 DEF AcceptEvent, Inside
    <3> QED
      BY <1>0, <3>1, <3>2 DEF Lock!Enter, Inside
  <2>10. CASE Accepted(p)
    <3>1. mutex' = mutex
      BY <2>10 DEF Accepted, Undisturbed
    <3>2. p \in Inside /\ Inside' = Inside \ {p}
      BY <2>10 DEF Accepted, Inside
    <3> QED
      BY <1>0, <3>1, <3>2 DEF Lock!Leave, Inside
  <2>11. CASE EventsDone(p)
    <3>1. Inside' = Inside /\ p \notin Inside
      BY <2>11 DEF EventsDone, Inside
    <3>2. mutex' = mutex \/ (mutex = p /\ mutex' = NoProc)
      BY <2>11 DEF EventsDone, Unlock
    <3> QED
      BY <1>0, <3>1, <3>2 DEF Lock!Release, Inside
  <2>12. CASE CloseListening(p)
    BY <2>12 DEF CloseListening, Inside
  <2>13. CASE Reap(p)
    <3>1. Inside' = Inside /\ p \notin Inside
      BY <2>13 DEF Reap, Inside
    <3>2. mutex' = mutex \/ (mutex = p /\ mutex' = NoProc)
      BY <2>13 DEF Reap
    <3> QED
      BY <1>0, <3>1, <3>2 DEF Lock!Release, Inside
  <2>14. CASE Spawn(p)
    BY <2>14 DEF Spawn, Inside
  <2>15. CASE Dies(p)
    <3>1. mutex' = mutex
      BY <2>15 DEF Dies
    <3>2. (p \in Inside /\ Inside' = Inside \ {p}) \/ Inside' = Inside
      BY <2>15 DEF Dies, Inside
    <3> QED
      BY <1>0, <3>1, <3>2 DEF Lock!Leave, Inside
  <2> QED
    BY <1>3, <2>1, <2>2, <2>3, <2>4, <2>5, <2>6, <2>7, <2>8,
       <2>9, <2>10, <2>11, <2>12, <2>13, <2>14, <2>15 DEF Step
<1> QED
  BY <1>1, <1>2, <1>3, NextIsStep

\* The accept mutex implements an exclusive lock used by its owner only and
\* recovered from a dead worker.
THEOREM Refinement ==
  ASSUME Undisturbed PROVE Spec => ImplementsLock
<1>1. Init => Lock!Init
  BY DEF Init, Lock!Init
<1>2. TypeOK /\ HeldOwns /\ [Next]_vars => [Lock!Next]_<<mutex, Inside>>
  BY LockStep
<1>3. TypeOK /\ HeldOwns /\ [Next]_vars => HeldOwns'
  BY HeldOwnsStep
<1> QED
  BY <1>1, <1>2, <1>3, TypeInit, TypeStep, HeldOwnsInit, PTL
  DEF Spec, ImplementsLock, Lock!Spec, Inside

-----------------------------------------------------------------------------
(* The epoll set. A failed call leaves a part of the sockets in it; while  *)
(* none fails, overload or not, the set follows "held": ngx_enable_        *)
(* accept_events is entered without it, so its calls meet an empty set.    *)

Entered == \A p \in Procs : pc[p] = "enable" => ~held[p]

LEMMA SetInit == Init => SetFollowsHeld /\ Entered
BY DEF Init, SetFollowsHeld, Entered

LEMMA SetStep ==
  ASSUME EpollMayFail = FALSE
  PROVE  TypeOK /\ SetFollowsHeld /\ Entered /\ [Next]_vars => SetFollowsHeld' /\ Entered'
<1> SUFFICES ASSUME TypeOK, SetFollowsHeld, Entered, [Next]_vars
             PROVE  SetFollowsHeld' /\ Entered'
  OBVIOUS
<1> USE AcceptMutexAssumption DEF TypeOK, SetFollowsHeld, Entered, Goto
<1>1. CASE UNCHANGED vars
  BY <1>1 DEF vars
<1>2. ASSUME NEW l \in Socks, Arrives(l) PROVE SetFollowsHeld' /\ Entered'
  BY <1>2 DEF Arrives, locals
<1>3. ASSUME NEW p \in Procs, Step(p) PROVE SetFollowsHeld' /\ Entered'
  <2>1. CASE Overloaded(p)
    BY <2>1 DEF Overloaded
  <2>2. CASE TryLock(p)
    BY <2>2 DEF TryLock
  <2>3. CASE EnableOK(p)
    BY <2>3 DEF EnableOK
  <2>4. CASE EnableFailed(p)
    BY <2>4 DEF EnableFailed
  <2>5. CASE DisableOK(p)
    BY <2>5 DEF DisableOK
  <2>6. CASE DisableFailed(p)
    BY <2>6 DEF DisableFailed
  <2>7. CASE WaitFailed(p)
    BY <2>7 DEF WaitFailed, locals
  <2>8. CASE WaitReturns(p)
    BY <2>8 DEF WaitReturns
  <2>9. CASE AcceptEvent(p)
    BY <2>9 DEF AcceptEvent
  <2>10. CASE Accepted(p)
    BY <2>10 DEF Accepted
  <2>11. CASE EventsDone(p)
    BY <2>11 DEF EventsDone, locals
  <2>12. CASE CloseListening(p)
    BY <2>12 DEF CloseListening
  <2>13. CASE Reap(p)
    BY <2>13 DEF Reap, locals
  <2>14. CASE Spawn(p)
    BY <2>14 DEF Spawn
  <2>15. CASE Dies(p)
    BY <2>15 DEF Dies, locals
  <2> QED
    BY <1>3, <2>1, <2>2, <2>3, <2>4, <2>5, <2>6, <2>7, <2>8,
       <2>9, <2>10, <2>11, <2>12, <2>13, <2>14, <2>15 DEF Step
<1> QED
  BY <1>1, <1>2, <1>3, NextIsStep

\* While epoll_ctl() does not fail, a worker listens on every socket if it has
\* "held" and on none if it has not, although overload makes it skip rounds of
\* the lock (ngx_enable_accept_events, ngx_disable_accept_events).
THEOREM SetFollows ==
  ASSUME EpollMayFail = FALSE PROVE Spec => []SetFollowsHeld
<1>1. TypeOK /\ SetFollowsHeld /\ Entered /\ [Next]_vars => SetFollowsHeld' /\ Entered'
  BY SetStep
<1> QED
  BY <1>1, TypeInit, TypeStep, SetInit, PTL DEF Spec
=============================================================================
