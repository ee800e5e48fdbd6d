------------------------ MODULE ProcessCycle_proofs -------------------------
(***************************************************************************)
(* Proofs about ProcessCycle for every size of the table, every number of  *)
(* workers and every bound: type correctness, that the master never loses  *)
(* a child, and, in the second half, what becomes of the generations of    *)
(* workers.                                                                *)
(***************************************************************************)
EXTENDS ProcessCycle, FiniteSetTheorems, SequenceTheorems,
        WellFoundedInduction, TLAPS

-----------------------------------------------------------------------------
(* The choices of a slot and of a descriptor, and what a broadcast sends.  *)

LEMMA LeastExists ==
  ASSUME NEW T, T \subseteq Nat, T # {}
  PROVE  \E x \in T : \A y \in T : x <= y
<1>1. PICK x \in T : \A y \in T : <<y, x>> \notin OpToRel(<, Nat)
  BY WFMin, NatLessThanWellFounded, Zenon
<1>2. \A y \in T : ~(y < x)
  BY <1>1, Zenon DEF OpToRel
<1> QED
  BY <1>2

\* FreeSlot is a free slot below ngx_last_process, or ngx_last_process.
LEMMA FreeSlotIs ==
  ASSUME TypeOK
  PROVE  \/ FreeSlot = last
         \/ FreeSlot \in Slots /\ FreeSlot < last /\ tbl[FreeSlot].pid = NoPid
<1> DEFINE free == {s \in Slots : s < last /\ tbl[s].pid = NoPid}
<1>1. free # {} => \E s \in free : \A r \in free : s <= r
  <2>1. free \subseteq Nat
    BY DEF Slots
  <2> QED
    BY <2>1, LeastExists
<1> QED
  BY <1>1 DEF FreeSlot

LEMMA FreeFdType ==
  ASSUME NEW f
  PROVE  FreeFd(f) \in Fds \cup {NoFd}
<1> DEFINE free == {d \in Fds : f[d] = 0}
<1>1. free # {} => \E d \in free : \A e \in free : d <= e
  <2>1. free \subseteq Nat
    BY DEF Fds
  <2> QED
    BY <2>1, LeastExists
<1> QED
  BY <1>1 DEF FreeFd

\* A broadcast appends commands to the channels of live children.
LEMMA BroadcastType ==
  ASSUME NEW t, NEW f, NEW to, to \subseteq Slots, NEW m \in Commands,
         inbox \in [Pids -> Seq(Commands)]
  PROVE  Broadcast(t, f, to, m) \in [Pids -> Seq(Commands)]
<1> DEFINE copies(p) == Cardinality({s \in to : t[s].chan # NoFd /\ f[t[s].chan] = p})
           room(p)   == ChannelCap - Len(inbox[p])
           sent(p)   == IF copies(p) < room(p) THEN copies(p) ELSE room(p)
<1>1. ASSUME NEW p \in Pids PROVE sent(p) \in Int
  <2>1. IsFiniteSet(Slots)
    BY FS_Interval, ProcessCycleAssumption DEF Slots
  <2>2. copies(p) \in Nat
    <3> DEFINE S == {s \in to : t[s].chan # NoFd /\ f[t[s].chan] = p}
    <3>1. S \in SUBSET Slots
      OBVIOUS
    <3>2. IsFiniteSet(S)
      BY <2>1, <3>1, FS_Subset
    <3> QED
      BY <3>2, FS_CardinalityType
  <2>3. room(p) \in Int
    BY ProcessCycleAssumption, LenProperties
  <2> QED
    BY <2>2, <2>3
<1>2. ASSUME NEW n \in Int PROVE [k \in 1 .. n |-> m] \in Seq(Commands)
  <2>1. CASE n \in Nat
    BY <2>1, IsASeq
  <2>2. CASE n \notin Nat
    <3>1. 1 .. n = 1 .. 0
      BY <2>2
    <3> QED
      BY <3>1
  <2> QED
    BY <2>1, <2>2
<1>3. ASSUME NEW p \in Pids
      PROVE  inbox[p] \o [k \in 1 .. sent(p) |-> m] \in Seq(Commands)
  <2> DEFINE msgs == [k \in 1 .. sent(p) |-> m]
  <2>1. msgs \in Seq(Commands)
    BY <1>1, <1>2
  <2>2. inbox[p] \in Seq(Commands)
    OBVIOUS
  <2> HIDE DEF msgs
  <2> QED
    BY <2>1, <2>2, ConcatProperties DEF msgs
<1> QED
  BY <1>3 DEF Broadcast

-----------------------------------------------------------------------------
(* Type correctness.                                                       *)

Kinds == {"same", "respawn", "just_respawn", "detached"}

LEMMA TypeInit == Init => TypeOK
<1> SUFFICES ASSUME Init PROVE TypeOK
  OBVIOUS
<1>1. Unused \in SlotType
  BY DEF Unused, SlotType
<1>2. <<>> \in Seq(Commands)
  BY EmptySeq
<1> QED
  BY <1>1, <1>2, ProcessCycleAssumption
     DEF Init, TypeOK, Slots, FlagNames, StartSites, OsStates, MaxDelay, NoFd

LEMMA FilledType ==
  ASSUME NEW t \in [Slots -> SlotType], NEW s \in Slots, NEW kind \in Kinds,
         NEW p \in Pids, NEW d \in Fds \cup {NoFd}
  PROVE  Filled(t, s, kind, p, d) \in SlotType
BY DEF Filled, SlotType, Kinds

LEMMA SpawnOKType ==
  ASSUME TypeOK, NEW t \in [Slots -> SlotType], NEW f \in [Fds -> Pids \cup {0}],
         NEW s \in Slots, NEW kind \in Kinds, SpawnOK(t, f, s, kind)
  PROVE  /\ tbl' \in [Slots -> SlotType] /\ fdmap' \in [Fds -> Pids \cup {0}]
         /\ last' \in 0 .. MaxProcesses /\ slot' \in Slots
         /\ os' \in [Pids -> OsStates]
         /\ w' \in [Pids -> SUBSET {"quit", "terminate", "reopen", "exiting"}]
         /\ forks' \in 0 .. MaxPid /\ fails' \in Nat
         /\ forks + 1 \in Pids
<1> DEFINE p == forks + 1
           d == IF kind = "detached" THEN NoFd ELSE FreeFd(f)
<1>1. p \in Pids /\ p \in 0 .. MaxPid
  BY ProcessCycleAssumption DEF SpawnOK, CanFork, Pids, TypeOK
<1>2. d \in Fds \cup {NoFd}
  BY FreeFdType
<1>3. Filled(t, s, kind, p, d) \in SlotType
  BY <1>1, <1>2, FilledType
<1>4. tbl' = [t EXCEPT ![s] = Filled(t, s, kind, p, d)]
      /\ fdmap' = IF d = NoFd THEN f ELSE [f EXCEPT ![d] = p]
  BY DEF SpawnOK
<1> HIDE DEF p, d
<1>5. tbl' \in [Slots -> SlotType] /\ fdmap' \in [Fds -> Pids \cup {0}]
  BY <1>1, <1>2, <1>3, <1>4
<1>6. last' \in 0 .. MaxProcesses /\ slot' \in Slots
  BY ProcessCycleAssumption DEF SpawnOK, TypeOK, Slots
<1>7. /\ os' \in [Pids -> OsStates]
      /\ w' \in [Pids -> SUBSET {"quit", "terminate", "reopen", "exiting"}]
  BY <1>1 DEF SpawnOK, TypeOK, OsStates, p
<1> QED
  BY <1>1, <1>5, <1>6, <1>7 DEF SpawnOK, TypeOK, p

LEMMA SpawnFailedType ==
  ASSUME TypeOK, NEW t \in [Slots -> SlotType], NEW f \in [Fds -> Pids \cup {0}],
         NEW s \in 0 .. MaxProcesses, NEW kind, SpawnFailed(t, f, s, kind)
  PROVE  /\ tbl' \in [Slots -> SlotType] /\ fdmap' \in [Fds -> Pids \cup {0}]
         /\ slot' \in Slots /\ fails' \in Nat
         /\ UNCHANGED <<last, os, w, forks>>
<1>1. s # MaxProcesses => s \in Slots
  BY ProcessCycleAssumption DEF Slots
<1>2. FreeFd(f) \in Fds \cup {NoFd}
  BY FreeFdType
<1>3. ASSUME NEW d \in Fds \cup {NoFd}, s \in Slots
      PROVE  [t EXCEPT ![s].chan = d] \in [Slots -> SlotType]
  BY <1>3 DEF SlotType
<1>4. tbl' \in [Slots -> SlotType]
  BY <1>1, <1>2, <1>3 DEF SpawnFailed
<1> QED
  BY SMTT(40), <1>1, <1>4, ProcessCycleAssumption DEF SpawnFailed, TypeOK

LEMMA AnnounceType ==
  ASSUME TypeOK, Announce
  PROVE  inbox' \in [Pids -> Seq(Commands)]
<1> DEFINE to == {s \in Slots : s < last' /\ s # slot' /\ tbl'[s].pid # NoPid}
<1>1. to \subseteq Slots
  OBVIOUS
<1>2. "open" \in Commands
  BY DEF Commands
<1>3. inbox \in [Pids -> Seq(Commands)]
  BY DEF TypeOK
<1> HIDE DEF to
<1>4. Broadcast(tbl', fdmap', to, "open") \in [Pids -> Seq(Commands)]
  BY <1>1, <1>2, <1>3, BroadcastType
<1> QED
  BY <1>3, <1>4 DEF Announce, to

\* What ngx_reap_childs does to a slot's channel.
LEMMA CloseType ==
  ASSUME TypeOK, NEW s \in Slots, TellClosed(s)
  PROVE  /\ ClosedTbl(s) \in [Slots -> SlotType]
         /\ ClosedMap(s) \in [Fds -> Pids \cup {0}]
         /\ inbox' \in [Pids -> Seq(Commands)]
<1> DEFINE to == {n \in Slots : InTable(n) /\ ~tbl[n].exited}
<1>1. ClosedTbl(s) \in [Slots -> SlotType]
  <2>1. tbl \in [Slots -> SlotType]
    BY DEF TypeOK
  <2>2. [tbl EXCEPT ![s].chan = NoFd] \in [Slots -> SlotType]
    BY <2>1 DEF SlotType
  <2> QED
    BY <2>1, <2>2 DEF ClosedTbl
<1>2. ClosedMap(s) \in [Fds -> Pids \cup {0}]
  BY DEF ClosedMap, Closed, TypeOK, SlotType
<1>3. to \subseteq Slots
  OBVIOUS
<1>4. "close" \in Commands
  BY DEF Commands
<1>5. inbox \in [Pids -> Seq(Commands)]
  BY DEF TypeOK
<1> HIDE DEF to
<1>6. Broadcast(ClosedTbl(s), ClosedMap(s), to, "close") \in [Pids -> Seq(Commands)]
  BY <1>3, <1>4, <1>5, BroadcastType
<1> QED
  BY <1>1, <1>2, <1>5, <1>6 DEF TellClosed, to

-----------------------------------------------------------------------------
LEMMA DelayType ==
  ASSUME delay \in 0 .. MaxDelay, ExitTest
  PROVE  delay' \in 0 .. MaxDelay
<1>1. delay' = delay \/ delay' = IF delay = 0 THEN 50 ELSE delay
  BY Zenon DEF ExitTest
<1>2. 50 \in 0 .. MaxDelay
  BY DEF MaxDelay
<1>3. (IF delay = 0 THEN 50 ELSE delay) \in {50, delay}
  OBVIOUS
<1> QED
  BY <1>1, <1>2, <1>3, Zenon

\* The two ways a slot is marked by ngx_signal_worker_processes.
LEMMA MarkType ==
  ASSUME tbl \in [Slots -> SlotType], NEW s \in Slots, NEW b \in BOOLEAN
  PROVE  /\ [tbl EXCEPT ![s].exiting = b] \in [Slots -> SlotType]
         /\ [tbl EXCEPT ![s].just_respawn = b] \in [Slots -> SlotType]
<1>1. /\ [tbl[s] EXCEPT !.exiting = b] \in SlotType
      /\ [tbl[s] EXCEPT !.just_respawn = b] \in SlotType
  BY DEF SlotType
<1>2. /\ [tbl EXCEPT ![s].exiting = b] = [tbl EXCEPT ![s] = [tbl[s] EXCEPT !.exiting = b]]
      /\ [tbl EXCEPT ![s].just_respawn = b]
           = [tbl EXCEPT ![s] = [tbl[s] EXCEPT !.just_respawn = b]]
  OBVIOUS
<1> QED
  BY <1>1, <1>2

LEMMA ExitingType ==
  ASSUME tbl \in [Slots -> SlotType], NEW s \in Slots, Exiting(s)
  PROVE  tbl' \in [Slots -> SlotType]
<1> DEFINE b == tbl[s].exiting \/ pc # "reopen_signal"
<1>1. b \in BOOLEAN
  OBVIOUS
<1>2. tbl' = [tbl EXCEPT ![s].exiting = b]
  BY DEF Exiting
<1> HIDE DEF b
<1> QED
  BY <1>1, <1>2, MarkType

LEMMA LiveType ==
  ASSUME live \in BOOLEAN, Wake
  PROVE  live' \in BOOLEAN
<1>1. "reap" \in flags => live' = FALSE
  BY Zenon DEF Wake
<1>2. "reap" \notin flags => live' = live
  BY Zenon DEF Wake
<1> QED
  BY <1>1, <1>2, Zenon

LEMMA TypeStep == TypeOK /\ [Next]_vars => TypeOK'
<1> SUFFICES ASSUME TypeOK, [Next]_vars PROVE TypeOK'
  OBVIOUS
<1> USE ProcessCycleAssumption
<1>0. /\ tbl \in [Slots -> SlotType] /\ last \in 0 .. MaxProcesses
      /\ inbox \in [Pids -> Seq(Commands)]
  BY DEF TypeOK
<1>1. CASE UNCHANGED vars
  BY <1>1 DEF vars, master, kernel, worker, bounds, TypeOK
<1>2. CASE StartWorker
  <2> DEFINE kind == IF pc \in JustRespawn THEN "just_respawn" ELSE "respawn"
  <2>1. kind \in Kinds
    BY DEF Kinds
  <2>2. FreeSlot \in 0 .. MaxProcesses
        /\ (FreeSlot # MaxProcesses => FreeSlot \in Slots)
    BY <1>0, FreeSlotIs DEF Slots
  <2>3. fdmap \in [Fds -> Pids \cup {0}]
    BY DEF TypeOK
  <2>4. inbox' \in [Pids -> Seq(Commands)]
    BY <1>2, AnnounceType DEF StartWorker
  <2>5. CASE FreeSlot # MaxProcesses /\ SpawnOK(tbl, fdmap, FreeSlot, kind)
    <3>1. FreeSlot \in Slots /\ SpawnOK(tbl, fdmap, FreeSlot, kind)
      BY <2>2, <2>5
    <3> HIDE DEF kind
    <3>2. /\ tbl' \in [Slots -> SlotType] /\ fdmap' \in [Fds -> Pids \cup {0}]
          /\ last' \in 0 .. MaxProcesses /\ slot' \in Slots
          /\ os' \in [Pids -> OsStates]
          /\ w' \in [Pids -> SUBSET {"quit", "terminate", "reopen", "exiting"}]
          /\ forks' \in 0 .. MaxPid /\ fails' \in Nat
      BY <1>0, <2>1, <2>3, <3>1, SpawnOKType
    <3> QED
      BY <1>2, <2>4, <3>2 DEF StartWorker, TypeOK
  <2>6. CASE SpawnFailed(tbl, fdmap, FreeSlot, kind)
    <3> HIDE DEF kind
    <3>1. /\ tbl' \in [Slots -> SlotType] /\ fdmap' \in [Fds -> Pids \cup {0}]
          /\ slot' \in Slots /\ fails' \in Nat /\ UNCHANGED <<last, os, w, forks>>
      BY <1>0, <2>2, <2>3, <2>6, SpawnFailedType
    <3> QED
      BY <1>2, <2>4, <3>1 DEF StartWorker, TypeOK
  <2> QED
    BY <1>2, <2>5, <2>6 DEF StartWorker
<1>3. CASE StartDone
  <2>1. pc' \in StartSites \cup SignalSites \cup Stages
    BY <1>3 DEF StartDone, StartSites, SignalSites, Stages, After
  <2>2. live' \in BOOLEAN
    BY <1>3, Zenon DEF StartDone, TypeOK
  <2>3. flags' \subseteq FlagNames
    BY <1>3 DEF StartDone, TypeOK
  <2> QED
    BY <1>3, <2>1, <2>2, <2>3 DEF StartDone, TypeOK, worker, bounds
<1>4. ASSUME pc \in SignalSites, i < last PROVE i \in Slots
  BY <1>4 DEF TypeOK, Slots
<1>5. CASE SkipSlot
  <2>1. i \in Slots
    BY <1>4, <1>5 DEF SkipSlot
  <2>2. tbl' \in [Slots -> SlotType]
    <3> DEFINE b == tbl[i].just_respawn /\ (tbl[i].detached \/ tbl[i].pid = NoPid)
    <3>1. b \in BOOLEAN
      OBVIOUS
    <3>2. tbl' = [tbl EXCEPT ![i].just_respawn = b]
      BY <1>5 DEF SkipSlot
    <3> HIDE DEF b
    <3> QED
      BY <1>0, <2>1, <3>1, <3>2, MarkType
  <2>3. /\ i' = i + 1
        /\ UNCHANGED <<last, slot, flags, new_binary, live, delay, pc, fdmap, os, fatal,
                       pending, alarm, w, inbox, forks, requests, crashes, fails>>
    BY <1>5 DEF SkipSlot, kernel, worker, bounds
  <2> QED
    BY <2>2, <2>3 DEF TypeOK
<1>6. pc \in SignalSites => Command[pc] \in Commands \cup {"none"}
  BY DEF SignalSites, Command, Commands
<1>7. CASE CommandSlot
  <2>1. i \in Slots
    BY <1>4, <1>7 DEF CommandSlot
  <2>2. tbl' \in [Slots -> SlotType]
    BY <1>0, <1>7, <2>1, ExitingType DEF CommandSlot
  <2>3. inbox' \in [Pids -> Seq(Commands)]
    <3>1. Command[pc] \in Commands
      BY <1>6, <1>7 DEF CommandSlot
    <3>2. ASSUME NEW p PROVE Written(inbox, p, Command[pc]) \in [Pids -> Seq(Commands)]
      <4>1. CASE p \in Pids
        <5>1. Append(inbox[p], Command[pc]) \in Seq(Commands)
          BY <1>0, <3>1, <4>1, AppendProperties
        <5> QED
          BY <1>0, <4>1, <5>1 DEF Written
      <4>2. CASE p \notin Pids
        BY <1>0, <4>2 DEF Written
      <4> QED
        BY <4>1, <4>2
    <3> QED
      BY <1>7, <3>2 DEF CommandSlot
  <2>4. /\ i' = i + 1
        /\ UNCHANGED <<last, slot, flags, new_binary, live, delay, pc, fdmap, os, fatal,
                       pending, alarm, w, forks, requests, crashes, fails>>
    BY <1>7 DEF CommandSlot, kernel, bounds
  <2> QED
    BY <2>2, <2>3, <2>4 DEF TypeOK
<1>8. CASE KillSlot
  <2>1. i \in Slots
    BY <1>4, <1>8 DEF KillSlot
  <2>2. CASE os[tbl[i].pid] # "reaped"
    <3>1. tbl' \in [Slots -> SlotType]
      <4>1. Exiting(i)
        BY <1>8, <2>2 DEF KillSlot
      <4> QED
        BY <1>0, <2>1, <4>1, ExitingType
    <3>2. /\ os' \in [Pids -> OsStates]
          /\ pending' \subseteq AdminSignals \cup {"CHLD", "ALRM"}
          /\ w' \in [Pids -> SUBSET {"quit", "terminate", "reopen", "exiting"}]
      <4>1. CASE pc = "kill_signal"
        <5>1. Kill(tbl[i].pid)
          BY <1>8, <2>2 DEF KillSlot
        <5> QED
          BY <4>1, <5>1 DEF Kill, TypeOK, OsStates
      <4>2. CASE pc # "kill_signal"
        <5>1. Command[pc] \in {"quit", "terminate", "reopen"}
          BY <1>8, <4>2 DEF KillSlot, SignalSites, Command
        <5>2. Kill(tbl[i].pid)
          BY <1>8, <2>2 DEF KillSlot
        <5> QED
          BY <4>2, <5>1, <5>2 DEF Kill, TypeOK
      <4> QED
        BY <4>1, <4>2
    <3>3. /\ i' = i + 1
          /\ UNCHANGED <<last, slot, flags, new_binary, live, delay, pc, fdmap, fatal,
                         alarm, inbox, forks, requests, crashes, fails>>
      BY <1>8, <2>2 DEF KillSlot, bounds
    <3> QED
      BY <3>1, <3>2, <3>3 DEF TypeOK
  <2>3. CASE os[tbl[i].pid] = "reaped"
    <3>1. tbl' \in [Slots -> SlotType]
      <4>1. tbl' = [tbl EXCEPT ![i].exited = TRUE, ![i].exiting = FALSE]
        BY <1>8, <2>3 DEF KillSlot
      <4>2. [tbl[i] EXCEPT !.exited = TRUE, !.exiting = FALSE] \in SlotType
        BY <1>0, <2>1 DEF SlotType
      <4>3. tbl' = [tbl EXCEPT ![i] = [tbl[i] EXCEPT !.exited = TRUE, !.exiting = FALSE]]
        BY <1>0, <2>1, <4>1 DEF SlotType
      <4> QED
        BY <1>0, <2>1, <4>2, <4>3
    <3>2. flags' \subseteq FlagNames
      BY <1>8, <2>3 DEF KillSlot, TypeOK, FlagNames
    <3>3. /\ i' = i + 1
          /\ UNCHANGED <<last, slot, new_binary, live, delay, pc, fdmap, fatal, alarm,
                         inbox, os, pending, w, forks, requests, crashes, fails>>
      BY <1>8, <2>3 DEF KillSlot, bounds
    <3> QED
      BY <3>1, <3>2, <3>3 DEF TypeOK
  <2> QED
    BY <2>2, <2>3
<1>9. CASE SignalDone
  BY <1>9 DEF SignalDone, TypeOK, kernel, worker, bounds, StartSites, SignalSites,
              Stages, After
<1>10. ASSUME pc = "reap", i < last PROVE i \in Slots
  BY <1>10 DEF TypeOK, Slots
<1>11. CASE ReapSkip
  BY <1>11 DEF ReapSkip, TypeOK, kernel, worker, bounds
<1>12. CASE ReapRespawn
  <2>1. i \in Slots /\ i \in 0 .. MaxProcesses
    BY <1>10, <1>12 DEF ReapRespawn, Slots
  <2>2. /\ ClosedTbl(i) \in [Slots -> SlotType]
        /\ ClosedMap(i) \in [Fds -> Pids \cup {0}]
        /\ inbox' \in [Pids -> Seq(Commands)]
    BY <1>12, <2>1, CloseType DEF ReapRespawn
  <2>3. "same" \in Kinds
    BY DEF Kinds
  <2>4. CASE SpawnOK(ClosedTbl(i), ClosedMap(i), i, "same") /\ live' = TRUE
    <3>1. /\ tbl' \in [Slots -> SlotType] /\ fdmap' \in [Fds -> Pids \cup {0}]
          /\ last' \in 0 .. MaxProcesses /\ slot' \in Slots
          /\ os' \in [Pids -> OsStates]
          /\ w' \in [Pids -> SUBSET {"quit", "terminate", "reopen", "exiting"}]
          /\ forks' \in 0 .. MaxPid /\ fails' \in Nat
      BY <2>1, <2>2, <2>3, <2>4, SpawnOKType
    <3> QED
      BY <1>12, <2>2, <2>4, <3>1 DEF ReapRespawn, TypeOK
  <2>5. CASE SpawnFailed(ClosedTbl(i), ClosedMap(i), i, "same") /\ UNCHANGED live
    <3>1. /\ tbl' \in [Slots -> SlotType] /\ fdmap' \in [Fds -> Pids \cup {0}]
          /\ slot' \in Slots /\ fails' \in Nat /\ UNCHANGED <<last, os, w, forks>>
      BY <2>1, <2>2, <2>5, SpawnFailedType
    <3> QED
      BY <1>12, <2>2, <2>5, <3>1 DEF ReapRespawn, TypeOK
  <2> QED
    BY <1>12, <2>4, <2>5 DEF ReapRespawn
<1>13. CASE ReapRemove
  <2>1. i \in Slots
    BY <1>10, <1>13 DEF ReapRemove
  <2>2. /\ ClosedTbl(i) \in [Slots -> SlotType]
        /\ ClosedMap(i) \in [Fds -> Pids \cup {0}]
        /\ inbox' \in [Pids -> Seq(Commands)]
    BY <1>13, <2>1, CloseType DEF ReapRemove
  <2>3. tbl' \in [Slots -> SlotType]
    BY SMTT(40), <1>13, <2>1, <2>2 DEF ReapRemove, FreeOrShrink, SlotType
  <2>4. last' \in 0 .. MaxProcesses
    BY <1>0, <1>13, <2>1 DEF ReapRemove, FreeOrShrink, Slots
  <2>5. new_binary' \in Pids \cup {0, -1} /\ flags' \subseteq FlagNames
    BY <1>13 DEF ReapRemove, TypeOK, FlagNames
  <2> QED
    BY <1>13, <2>2, <2>3, <2>4, <2>5 DEF ReapRemove, TypeOK, bounds
<1>14. CASE ReapDone
  BY <1>14 DEF ReapDone, TypeOK, kernel, worker, bounds, Stages
<1>15. ASSUME NEW sig \in AdminSignals \cup {"CHLD", "ALRM"}, Deliver(sig)
       PROVE  TypeOK'
  <2>1. CASE sig = "CHLD"
    <3>1. GetStatus
      BY <1>15, <2>1 DEF Deliver
    <3>2. tbl' \in [Slots -> SlotType]
      <4>1. ASSUME NEW s \in Slots
            PROVE  [tbl[s] EXCEPT !.exited = TRUE,
                                  !.respawn = @ /\ tbl[s].pid \notin fatal] \in SlotType
        BY <1>0, <4>1 DEF SlotType
      <4> QED
        BY <1>0, <3>1, <4>1 DEF GetStatus
    <3>3. os' \in [Pids -> OsStates] /\ flags' \subseteq FlagNames
      BY <3>1 DEF GetStatus, TypeOK, OsStates, FlagNames
    <3> QED
      BY <1>15, <3>2, <3>3 DEF Deliver, TypeOK, Stages, worker, bounds
  <2>2. CASE sig # "CHLD"
    <3>1. flags' \subseteq FlagNames /\ UNCHANGED <<os, tbl>>
      BY <1>15, <2>2 DEF Deliver, TypeOK, FlagNames, AdminSignals
    <3> QED
      BY <1>15, <3>1 DEF Deliver, TypeOK, Stages, worker, bounds
  <2> QED
    BY <2>1, <2>2
<1>24. CASE ChangeBinaryStage
  <2>1. FreeSlot \in 0 .. MaxProcesses
        /\ (FreeSlot # MaxProcesses => FreeSlot \in Slots)
    BY <1>0, FreeSlotIs DEF Slots
  <2>2. "detached" \in Kinds
    BY DEF Kinds
  <2>3. fdmap \in [Fds -> Pids \cup {0}]
    BY DEF TypeOK
  <2>4. /\ pc' = "noaccept" /\ i' = 0 /\ flags' \subseteq flags
        /\ UNCHANGED <<live, delay, fatal, pending, alarm, inbox, requests, crashes>>
    BY <1>24 DEF ChangeBinaryStage, Stage, Goto
  <2>5. CASE "change_binary" \notin flags
    <3>1. UNCHANGED <<tbl, last, slot, new_binary, fdmap, os, w, forks, fails>>
      BY <1>24, <2>5 DEF ChangeBinaryStage
    <3> QED
      BY <2>4, <3>1 DEF TypeOK, Stages
  <2>6. CASE /\ FreeSlot # MaxProcesses
             /\ SpawnOK(tbl, fdmap, FreeSlot, "detached")
             /\ new_binary' = forks + 1
    <3>1. /\ tbl' \in [Slots -> SlotType] /\ fdmap' \in [Fds -> Pids \cup {0}]
          /\ last' \in 0 .. MaxProcesses /\ slot' \in Slots
          /\ os' \in [Pids -> OsStates]
          /\ w' \in [Pids -> SUBSET {"quit", "terminate", "reopen", "exiting"}]
          /\ forks' \in 0 .. MaxPid /\ fails' \in Nat /\ forks + 1 \in Pids
      BY <1>0, <2>1, <2>2, <2>3, <2>6, SpawnOKType
    <3> QED
      BY <2>4, <2>6, <3>1 DEF TypeOK, Stages
  <2>7. CASE SpawnFailed(tbl, fdmap, FreeSlot, "detached") /\ new_binary' = -1
    <3>1. /\ tbl' \in [Slots -> SlotType] /\ fdmap' \in [Fds -> Pids \cup {0}]
          /\ slot' \in Slots /\ fails' \in Nat /\ UNCHANGED <<last, os, w, forks>>
      BY <1>0, <2>1, <2>3, <2>7, SpawnFailedType
    <3> QED
      BY <2>4, <2>7, <3>1 DEF TypeOK, Stages
  <2>8. \/ "change_binary" \notin flags
        \/ /\ FreeSlot # MaxProcesses
           /\ SpawnOK(tbl, fdmap, FreeSlot, "detached")
           /\ new_binary' = forks + 1
        \/ SpawnFailed(tbl, fdmap, FreeSlot, "detached") /\ new_binary' = -1
    BY <1>24 DEF ChangeBinaryStage
  <2> QED
    BY <2>5, <2>6, <2>7, <2>8
<1> USE DEF TypeOK, Goto, Stage, kernel, worker, bounds, StartSites, SignalSites,
            Stages, MaxDelay
<1>16. CASE LoopTop
  BY <1>16 DEF LoopTop
<1>17. CASE Wake
  <2>1. live' \in BOOLEAN
    BY <1>17, LiveType
  <2>2. pc' \in {"reap", "exit_test"} /\ i' = 0
    BY <1>17 DEF Wake
  <2> QED
    BY <1>17, <2>1, <2>2 DEF Wake
<1>18. CASE ExitTest
  <2>1. /\ pc' \in {"exited", "kill_signal", "term_signal", "quit_signal", "timer"}
        /\ i' = 0
    BY <1>18 DEF ExitTest
  <2>2. delay' \in 0 .. MaxDelay
    BY <1>18, DelayType
  <2> QED
    BY <1>18, <2>1, <2>2 DEF ExitTest
<1>19. CASE TimerStage
  BY <1>19 DEF TimerStage
<1>20. CASE ReconfigureStage
  BY <1>20 DEF ReconfigureStage
<1>21. CASE RestartStage
  BY <1>21 DEF RestartStage
<1>22. CASE ReopenStage
  BY <1>22 DEF ReopenStage
<1>23. CASE NoAcceptStage
  <2>1. flags' \subseteq FlagNames
    BY <1>23 DEF NoAcceptStage, FlagNames
  <2>2. pc' \in {"noaccept_signal", "top"} /\ i' = 0
    BY <1>23 DEF NoAcceptStage
  <2> QED
    BY <1>23, <2>1, <2>2 DEF NoAcceptStage
<1> USE DEF master
<1>25. ASSUME NEW p \in Pids, WorkerLoop(p) \/ WorkerFatal(p) \/ Crash(p)
       PROVE  TypeOK'
  <2> USE <1>25
  <2>1. CASE WorkerReady(p)
    BY <2>1 DEF WorkerReady, OsStates
  <2>2. CASE ChannelHandler(p)
    <3>1. Head(inbox[p]) \in Commands /\ Tail(inbox[p]) \in Seq(Commands)
      BY <1>0, <2>2 DEF ChannelHandler
    <3> QED
      BY <2>2, <3>1 DEF ChannelHandler, Commands
  <2>3. ASSUME NEW status, Dies(p, status), crashes' \in Nat PROVE TypeOK'
    <3>1. <<>> \in Seq(Commands)
      BY EmptySeq
    <3> QED
      BY <2>3, <3>1 DEF Dies, OsStates
  <2>4. CASE WorkerExit(p)
    BY <2>3, <2>4 DEF WorkerExit
  <2>5. CASE WorkerQuit(p)
    BY <2>5 DEF WorkerQuit
  <2>6. CASE WorkerReopen(p)
    BY <2>6 DEF WorkerReopen
  <2>7. CASE WorkerFatal(p)
    BY <2>3, <2>7 DEF WorkerFatal
  <2>8. CASE Crash(p)
    BY <2>3, <2>8 DEF Crash
  <2> QED
    BY <2>1, <2>2, <2>4, <2>5, <2>6, <2>7, <2>8 DEF WorkerLoop
<1>26. ASSUME NEW sig \in Requests, Request(sig) PROVE TypeOK'
  BY <1>26 DEF Request
<1>27. CASE ShortAlarm
  BY <1>27 DEF ShortAlarm
<1>28. CASE TenDays
  BY <1>28 DEF TenDays
<1> HIDE DEF TypeOK, Goto, Stage, kernel, worker, bounds, StartSites, SignalSites,
             Stages, MaxDelay, master
<1>29. CASE MasterStep
  BY <1>2, <1>3, <1>5, <1>7, <1>8, <1>9, <1>11, <1>12, <1>13, <1>14, <1>15,
     <1>16, <1>17, <1>18, <1>19, <1>20, <1>21, <1>22, <1>23, <1>24, <1>29, Zenon
     DEF MasterStep
<1> QED
  BY <1>1, <1>25, <1>26, <1>27, <1>28, <1>29, Zenon DEF Next

\* The state has the shape the C declarations give it, whatever the size of
\* ngx_processes[] and the number of workers.
THEOREM TypeCorrect == Spec => []TypeOK
<1> QED
  BY TypeInit, TypeStep, PTL DEF Spec

-----------------------------------------------------------------------------
(* The table of children. ChildrenTracked and ExitedMeansReaped are        *)
(* strengthened with what slots and pids a fork may meet.                  *)

\* Pids are given in order, so a fork's is new.
Forked == \A p \in Pids : os[p] = "unborn" <=> p > forks

\* A slot below ngx_last_process is free, or has a child's pid and is marked
\* exited exactly when the child was waited for.
Rows ==
  \A s \in Slots : s < last =>
    /\ tbl[s].pid # 0
    /\ tbl[s].pid # NoPid => /\ tbl[s].pid <= forks
                             /\ tbl[s].exited <=> os[tbl[s].pid] = "reaped"

Distinct ==
  \A r, s \in Slots :
    r < last /\ s < last /\ tbl[r].pid = tbl[s].pid /\ tbl[r].pid # NoPid => r = s

Tracked ==
  \A p \in Pids : os[p] \notin {"unborn", "reaped"} =>
    \E s \in Slots : s < last /\ tbl[s].pid = p

TableInv == Forked /\ Rows /\ Distinct /\ Tracked

LEMMA TableInit == Init => TableInv
BY ProcessCycleAssumption
   DEF Init, TableInv, Forked, Rows, Distinct, Tracked, Pids, Slots

LEMMA PidIs ==
  ASSUME TypeOK, TableInv, NEW s \in Slots, s < last, tbl[s].pid # NoPid
  PROVE  tbl[s].pid \in Pids
BY DEF TypeOK, SlotType, TableInv, Rows

\* A step that moves no child in the table, forks none and reaps none.
LEMMA Unmoved ==
  ASSUME TypeOK, TableInv, UNCHANGED <<last, forks>>,
         \A s \in Slots : tbl'[s].pid = tbl[s].pid /\ tbl'[s].exited = tbl[s].exited,
         \A p \in Pids : /\ os'[p] = "unborn" <=> os[p] = "unborn"
                         /\ os'[p] = "reaped" <=> os[p] = "reaped"
  PROVE  TableInv'
<1>1. Forked'
  BY DEF TableInv, Forked
<1>2. Rows'
  BY PidIs DEF TableInv, Rows
<1>3. Distinct'
  BY DEF TableInv, Distinct
<1>4. Tracked'
  BY DEF TableInv, Tracked
<1> QED
  BY <1>1, <1>2, <1>3, <1>4 DEF TableInv

\* A fork puts the new child into a free slot, or over one that is reaped.
LEMMA Spawned ==
  ASSUME TypeOK, TableInv, NEW t \in [Slots -> SlotType],
         NEW f \in [Fds -> Pids \cup {0}], NEW s \in Slots, NEW kind \in Kinds,
         \A r \in Slots : t[r].pid = tbl[r].pid /\ t[r].exited = tbl[r].exited,
         s <= last,
         kind = "same" => s < last /\ tbl[s].exited /\ tbl[s].pid # NoPid,
         kind # "same" /\ s < last => tbl[s].pid = NoPid,
         SpawnOK(t, f, s, kind)
  PROVE  TableInv'
<1> DEFINE p == forks + 1
<1>0. p \in Pids /\ forks \in Nat /\ forks' = p /\ last \in Nat
  <2>1. forks + 1 \in Pids
    BY SpawnOKType
  <2>2. forks' = forks + 1
    BY DEF SpawnOK
  <2>3. forks \in Nat /\ last \in Nat
    BY ProcessCycleAssumption DEF TypeOK
  <2> QED
    BY <2>1, <2>2, <2>3
<1>1. tbl'[s].pid = p /\ tbl'[s].exited = FALSE
  BY DEF SpawnOK, Filled, SlotType
<1>2. \A r \in Slots \ {s} : tbl'[r].pid = tbl[r].pid /\ tbl'[r].exited = tbl[r].exited
  BY DEF SpawnOK
<1>3. os'[p] \notin {"unborn", "reaped"} /\ \A q \in Pids \ {p} : os'[q] = os[q]
  BY <1>0 DEF SpawnOK, TypeOK
<1>4. \A r \in Slots : r < last' <=> r < last \/ r = s
  BY <1>0 DEF SpawnOK, Slots
<1>5. os[p] = "unborn"
  BY <1>0 DEF TableInv, Forked
<1>6. ASSUME NEW r \in Slots \ {s}, r < last, tbl[r].pid # NoPid
      PROVE  tbl[r].pid \in Pids \ {p} /\ tbl[r].pid <= forks
  BY <1>0, <1>6, PidIs DEF TableInv, Rows
<1> HIDE DEF p
<1>7. Forked'
  BY <1>0, <1>3, <1>5 DEF TableInv, Forked, Pids, p
<1>8. Rows'
  <2> SUFFICES ASSUME NEW r \in Slots, r < last'
               PROVE  /\ tbl'[r].pid # 0
                      /\ tbl'[r].pid # NoPid =>
                            /\ tbl'[r].pid <= forks'
                            /\ tbl'[r].exited <=> os'[tbl'[r].pid] = "reaped"
    BY DEF Rows
  <2>1. CASE r = s
    BY <1>0, <1>1, <1>3, <2>1 DEF Pids
  <2>2. CASE r # s
    <3>1. r < last
      BY <1>4, <2>2
    <3>2. CASE tbl[r].pid = NoPid
      BY <1>2, <2>2, <3>2 DEF NoPid
    <3>3. CASE tbl[r].pid # NoPid
      BY <1>0, <1>2, <1>3, <1>6, <2>2, <3>1, <3>3 DEF TableInv, Rows, Pids, p
    <3> QED
      BY <3>2, <3>3
  <2> QED
    BY <2>1, <2>2
<1>9. Distinct'
  <2> SUFFICES ASSUME NEW r \in Slots, NEW q \in Slots, r < last', q < last',
                      tbl'[r].pid = tbl'[q].pid, tbl'[r].pid # NoPid
               PROVE  r = q
    BY DEF Distinct
  <2> QED
    BY <1>1, <1>2, <1>4, <1>6 DEF TableInv, Distinct
<1>10. Tracked'
  <2> SUFFICES ASSUME NEW q \in Pids, os'[q] \notin {"unborn", "reaped"}
               PROVE  \E r \in Slots : r < last' /\ tbl'[r].pid = q
    BY DEF Tracked
  <2>1. CASE q = p
    BY <1>1, <1>4, <2>1
  <2>2. CASE q # p
    <3>1. PICK r \in Slots : r < last /\ tbl[r].pid = q
      BY <1>3, <2>2 DEF TableInv, Tracked
    <3>2. os[q] # "reaped" /\ q # NoPid
      BY <1>3, <2>2 DEF Pids, NoPid
    <3>3. r # s
      BY <3>1, <3>2 DEF TableInv, Rows
    <3> QED
      BY <1>2, <1>4, <3>1, <3>3
  <2> QED
    BY <2>1, <2>2
<1> QED
  BY <1>7, <1>8, <1>9, <1>10 DEF TableInv

\* A spawn that fails changes a descriptor at most.
LEMMA NotSpawned ==
  ASSUME TypeOK, TableInv, NEW t \in [Slots -> SlotType],
         NEW f, NEW s \in 0 .. MaxProcesses, NEW kind,
         \A r \in Slots : t[r].pid = tbl[r].pid /\ t[r].exited = tbl[r].exited,
         SpawnFailed(t, f, s, kind)
  PROVE  TableInv'
<1>1. \A r \in Slots : tbl'[r].pid = t[r].pid /\ tbl'[r].exited = t[r].exited
  <2>1. CASE tbl' = t
    BY <2>1
  <2>2. ASSUME NEW d, tbl' = [t EXCEPT ![s].chan = d]
        PROVE  \A r \in Slots : tbl'[r].pid = t[r].pid /\ tbl'[r].exited = t[r].exited
    BY <2>2 DEF SlotType
  <2> QED
    BY <2>1, <2>2 DEF SpawnFailed
<1>2. UNCHANGED <<last, os, forks>>
  BY DEF SpawnFailed
<1> QED
  BY <1>1, <1>2, Unmoved

LEMMA TableStep == TypeOK /\ TableInv /\ [Next]_vars => TableInv'
<1> SUFFICES ASSUME TypeOK, TableInv, [Next]_vars PROVE TableInv'
  OBVIOUS
<1>0. /\ tbl \in [Slots -> SlotType] /\ fdmap \in [Fds -> Pids \cup {0}]
      /\ last \in 0 .. MaxProcesses
  BY DEF TypeOK
<1>1. ASSUME UNCHANGED <<tbl, last, os, forks>> PROVE TableInv'
  BY <1>1, Unmoved
<1>2. FreeSlot \in 0 .. MaxProcesses /\ FreeSlot <= last
      /\ (FreeSlot # MaxProcesses => FreeSlot \in Slots)
      /\ (FreeSlot < last => tbl[FreeSlot].pid = NoPid)
  BY <1>0, FreeSlotIs, ProcessCycleAssumption DEF Slots
<1>3. ASSUME NEW kind \in Kinds \ {"same"},
             \/ FreeSlot # MaxProcesses /\ SpawnOK(tbl, fdmap, FreeSlot, kind)
             \/ SpawnFailed(tbl, fdmap, FreeSlot, kind)
      PROVE  TableInv'
  <2>1. CASE FreeSlot # MaxProcesses /\ SpawnOK(tbl, fdmap, FreeSlot, kind)
    <3>1. /\ FreeSlot \in Slots /\ SpawnOK(tbl, fdmap, FreeSlot, kind)
          /\ kind \in Kinds /\ kind # "same"
      BY <1>2, <1>3, <2>1
    <3> QED
      BY <1>0, <1>2, <3>1, Spawned
  <2>2. CASE SpawnFailed(tbl, fdmap, FreeSlot, kind)
    BY <1>0, <1>2, <2>2, NotSpawned
  <2> QED
    BY <1>3, <2>1, <2>2
<1>4. CASE StartWorker
  <2> DEFINE kind == IF pc \in JustRespawn THEN "just_respawn" ELSE "respawn"
  <2>1. kind \in Kinds \ {"same"}
    BY DEF Kinds
  <2>2. \/ FreeSlot # MaxProcesses /\ SpawnOK(tbl, fdmap, FreeSlot, kind)
        \/ SpawnFailed(tbl, fdmap, FreeSlot, kind)
    BY <1>4 DEF StartWorker
  <2> HIDE DEF kind
  <2> QED
    BY <1>3, <2>1, <2>2
<1>5. CASE ChangeBinaryStage
  <2>1. CASE "change_binary" \notin flags
    BY <1>1, <1>5, <2>1 DEF ChangeBinaryStage
  <2>2. CASE "change_binary" \in flags
    <3>1. "detached" \in Kinds \ {"same"}
      BY DEF Kinds
    <3>2. \/ /\ FreeSlot # MaxProcesses
             /\ SpawnOK(tbl, fdmap, FreeSlot, "detached")
          \/ SpawnFailed(tbl, fdmap, FreeSlot, "detached")
      BY <1>5, <2>2 DEF ChangeBinaryStage
    <3> QED
      BY <1>3, <3>1, <3>2
  <2> QED
    BY <2>1, <2>2
<1>6. i < last => i \in Slots
  BY ProcessCycleAssumption DEF TypeOK, Slots
<1>7. CASE SkipSlot
  <2>1. i \in Slots
    BY <1>6, <1>7 DEF SkipSlot
  <2>2. \A s \in Slots : tbl'[s].pid = tbl[s].pid /\ tbl'[s].exited = tbl[s].exited
    BY <1>0, <1>7, <2>1 DEF SkipSlot, SlotType
  <2>3. UNCHANGED <<last, os, forks>>
    BY <1>7 DEF SkipSlot, kernel, bounds
  <2> QED
    BY <2>2, <2>3, Unmoved
<1>8. ASSUME NEW s \in Slots, Exiting(s)
      PROVE  \A r \in Slots : tbl'[r].pid = tbl[r].pid /\ tbl'[r].exited = tbl[r].exited
  BY <1>0, <1>8 DEF Exiting, SlotType
<1>9. CASE CommandSlot
  <2>1. i \in Slots /\ Exiting(i)
    BY <1>6, <1>9 DEF CommandSlot
  <2>2. UNCHANGED <<last, os, forks>>
    BY <1>9 DEF CommandSlot, kernel, bounds
  <2> QED
    BY <1>8, <2>1, <2>2, Unmoved
<1>10. CASE KillSlot
  <2>1. i \in Slots /\ i < last /\ tbl[i].pid # NoPid /\ UNCHANGED <<last, forks>>
    BY <1>6, <1>10 DEF KillSlot, Skipped, bounds
  <2>2. CASE os[tbl[i].pid] # "reaped"
    <3>1. Exiting(i) /\ Kill(tbl[i].pid)
      BY <1>10, <2>2 DEF KillSlot
    <3>2. \A p \in Pids : /\ os'[p] = "unborn" <=> os[p] = "unborn"
                          /\ os'[p] = "reaped" <=> os[p] = "reaped"
      BY <3>1 DEF Kill, Alive, TypeOK
    <3> QED
      BY <1>8, <2>1, <3>1, <3>2, Unmoved
  <2>3. CASE os[tbl[i].pid] = "reaped"
    <3>1. tbl[i].exited
      BY <2>1, <2>3 DEF TableInv, Rows
    <3>2. tbl[i].exited = TRUE
      BY <1>0, <2>1, <3>1 DEF SlotType
    <3>3. tbl' = [tbl EXCEPT ![i].exited = TRUE, ![i].exiting = FALSE] /\ UNCHANGED os
      BY <1>10, <2>3 DEF KillSlot
    <3>4. \A s \in Slots : tbl'[s].pid = tbl[s].pid /\ tbl'[s].exited = tbl[s].exited
      BY <1>0, <2>1, <3>2, <3>3 DEF SlotType
    <3> QED
      BY <2>1, <3>3, <3>4, Unmoved
  <2> QED
    BY <2>2, <2>3
<1>11. ASSUME NEW s \in Slots
       PROVE  /\ ClosedTbl(s) \in [Slots -> SlotType]
              /\ ClosedMap(s) \in [Fds -> Pids \cup {0}]
              /\ \A r \in Slots : /\ ClosedTbl(s)[r].pid = tbl[r].pid
                                   /\ ClosedTbl(s)[r].exited = tbl[r].exited
  <2>1. [tbl EXCEPT ![s].chan = NoFd] \in [Slots -> SlotType]
    BY <1>0 DEF SlotType
  <2>2. \A r \in Slots : /\ [tbl EXCEPT ![s].chan = NoFd][r].pid = tbl[r].pid
                         /\ [tbl EXCEPT ![s].chan = NoFd][r].exited = tbl[r].exited
    BY <1>0 DEF SlotType
  <2>3. ClosedMap(s) \in [Fds -> Pids \cup {0}]
    BY <1>0 DEF ClosedMap, Closed, SlotType
  <2> QED
    BY <1>0, <2>1, <2>2, <2>3 DEF ClosedTbl
<1>12. CASE ReapRespawn
  <2>1. /\ i \in Slots /\ i \in 0 .. MaxProcesses /\ i < last /\ i <= last
        /\ tbl[i].pid # NoPid /\ tbl[i].exited
    BY <1>6, <1>12, ProcessCycleAssumption DEF ReapRespawn, Slots, TypeOK
  <2>2. CASE SpawnOK(ClosedTbl(i), ClosedMap(i), i, "same")
    <3>1. "same" \in Kinds
      BY DEF Kinds
    <3> QED
      BY <1>11, <2>1, <2>2, <3>1, Spawned
  <2>3. CASE SpawnFailed(ClosedTbl(i), ClosedMap(i), i, "same")
    BY <1>11, <2>1, <2>3, NotSpawned
  <2> QED
    BY <1>12, <2>2, <2>3 DEF ReapRespawn
<1>13. CASE ReapRemove
  <2>1. i \in Slots /\ i < last /\ tbl[i].pid # NoPid /\ tbl[i].exited
    BY <1>6, <1>13 DEF ReapRemove
  <2>2. UNCHANGED <<os, forks>> /\ FreeOrShrink(i)
    BY <1>13 DEF ReapRemove, bounds
  <2>3. os[tbl[i].pid] = "reaped"
    BY <2>1 DEF TableInv, Rows
  <2>4. /\ \A s \in Slots : s < last' => s < last
        /\ \A s \in Slots \ {i} : /\ s < last => s < last'
                                  /\ tbl'[s].pid = tbl[s].pid
                                  /\ tbl'[s].exited = tbl[s].exited
        /\ i < last' => tbl'[i].pid = NoPid
    <3>1. last \in Int /\ \A s \in Slots : s \in Int
      BY <1>0 DEF Slots
    <3>2. CASE i = last - 1
      <4>1. last' = last - 1 /\ tbl' = ClosedTbl(i)
        BY <2>2, <3>2 DEF FreeOrShrink
      <4> QED
        BY <1>11, <2>1, <3>1, <3>2, <4>1
    <3>3. CASE i # last - 1
      <4>1. last' = last /\ tbl' = [ClosedTbl(i) EXCEPT ![i].pid = NoPid]
        BY <2>2, <3>3 DEF FreeOrShrink
      <4>2. tbl'[i].pid = NoPid /\ \A s \in Slots \ {i} : tbl'[s] = ClosedTbl(i)[s]
        BY <1>11, <2>1, <4>1 DEF SlotType
      <4> QED
        BY <1>11, <2>1, <4>1, <4>2
    <3> QED
      BY <3>2, <3>3
  <2>5. Forked'
    BY <2>2 DEF TableInv, Forked
  <2>6. Rows'
    BY <2>2, <2>4 DEF TableInv, Rows, NoPid
  <2>7. Distinct'
    BY <2>4 DEF TableInv, Distinct
  <2>8. Tracked'
    BY <2>2, <2>3, <2>4 DEF TableInv, Tracked
  <2> QED
    BY <2>5, <2>6, <2>7, <2>8 DEF TableInv
<1>14. ASSUME GetStatus, UNCHANGED <<last, forks>> PROVE TableInv'
  <2> DEFINE dead == {p \in Pids : os[p] = "zombie"}
  <2>1. \A p \in Pids : os'[p] = IF p \in dead THEN "reaped" ELSE os[p]
    BY <1>14 DEF GetStatus
  <2>2. \A s \in Slots :
          /\ tbl'[s].pid = tbl[s].pid
          /\ s < last /\ tbl[s].pid \in dead => tbl'[s].exited
          /\ ~(s < last /\ tbl[s].pid \in dead) => tbl'[s].exited = tbl[s].exited
    BY <1>0, <1>14 DEF GetStatus, SlotType
  <2>3. Forked'
    BY <1>14, <2>1 DEF TableInv, Forked
  <2>4. Rows'
    BY <1>14, <2>1, <2>2, PidIs DEF TableInv, Rows
  <2>5. Distinct'
    BY <1>14, <2>2 DEF TableInv, Distinct
  <2>6. Tracked'
    BY <1>14, <2>1, <2>2 DEF TableInv, Tracked
  <2> QED
    BY <2>3, <2>4, <2>5, <2>6 DEF TableInv
<1>15. ASSUME NEW sig \in AdminSignals \cup {"CHLD", "ALRM"}, Deliver(sig)
       PROVE  TableInv'
  <2>1. UNCHANGED <<last, forks>>
    BY <1>15 DEF Deliver, bounds
  <2>2. CASE sig = "CHLD"
    BY <1>14, <1>15, <2>1, <2>2 DEF Deliver
  <2>3. CASE sig # "CHLD"
    BY <1>1, <1>15, <2>1, <2>3 DEF Deliver
  <2> QED
    BY <2>2, <2>3
<1>16. ASSUME NEW p \in Pids, WorkerLoop(p) \/ WorkerFatal(p) \/ Crash(p)
       PROVE  TableInv'
  <2>1. ASSUME NEW state \in {"running", "zombie"}, os' = [os EXCEPT ![p] = state],
               Alive(p), UNCHANGED <<tbl, last, forks>>
        PROVE  TableInv'
    <3>1. \A q \in Pids : /\ os'[q] = "unborn" <=> os[q] = "unborn"
                          /\ os'[q] = "reaped" <=> os[q] = "reaped"
      BY <2>1 DEF Alive, TypeOK
    <3> QED
      BY <2>1, <3>1, Unmoved
  <2>2. CASE WorkerReady(p)
    BY <2>1, <2>2 DEF WorkerReady, Alive, master, bounds
  <2>3. CASE ChannelHandler(p) \/ WorkerQuit(p) \/ WorkerReopen(p)
    BY <1>1, <2>3 DEF ChannelHandler, WorkerQuit, WorkerReopen, master, kernel, bounds
  <2>4. CASE WorkerExit(p) \/ WorkerFatal(p) \/ Crash(p)
    BY <2>1, <2>4 DEF WorkerExit, WorkerFatal, Crash, Dies, Alive, master
  <2> QED
    BY <1>16, <2>2, <2>3, <2>4 DEF WorkerLoop
<1>17. CASE UNCHANGED vars
  BY <1>1, <1>17 DEF vars, master, kernel, bounds
<1>18. CASE StartDone \/ SignalDone \/ ReapSkip \/ ReapDone
  BY <1>1, <1>18 DEF StartDone, SignalDone, ReapSkip, ReapDone, kernel, bounds
<1>19. CASE \/ LoopTop \/ Wake \/ ExitTest \/ TimerStage \/ ReconfigureStage
            \/ RestartStage \/ ReopenStage \/ NoAcceptStage
  BY <1>1, <1>19 DEF LoopTop, Wake, ExitTest, TimerStage, ReconfigureStage,
       RestartStage, ReopenStage, NoAcceptStage, kernel, bounds
<1>20. ASSUME NEW sig \in Requests, Request(sig) PROVE TableInv'
  BY <1>1, <1>20 DEF Request, master
<1>21. CASE ShortAlarm \/ TenDays
  BY <1>1, <1>21 DEF ShortAlarm, TenDays, master, bounds
<1> QED
  BY <1>4, <1>5, <1>7, <1>9, <1>10, <1>12, <1>13, <1>15, <1>16, <1>17, <1>18,
     <1>19, <1>20, <1>21, Zenon DEF Next, MasterStep

LEMMA TableAlways == Spec => [](TypeOK /\ TableInv)
<1>1. Init => TypeOK /\ TableInv
  BY TypeInit, TableInit
<1>2. (TypeOK /\ TableInv) /\ [Next]_vars => (TypeOK /\ TableInv)'
  BY TypeStep, TableStep
<1> QED
  BY <1>1, <1>2, PTL DEF Spec

\* The master never loses a child, however the reap loop of ngx_reap_childs
\* shrinks and reuses ngx_processes[] between forks and crashes: each child
\* it has not waited for is in exactly one slot, and that slot is not marked.
THEOREM NoChildLost == Spec => []ChildrenTracked
<1>1. TypeOK /\ TableInv => ChildrenTracked
  <2> SUFFICES ASSUME TypeOK, TableInv, NEW p \in Pids, os[p] \notin {"unborn", "reaped"}
               PROVE  \E s \in Slots :
                        /\ s < last /\ tbl[s].pid = p /\ ~tbl[s].exited
                        /\ \A r \in Slots : r < last /\ tbl[r].pid = p => r = s
    BY DEF ChildrenTracked
  <2>1. PICK s \in Slots : s < last /\ tbl[s].pid = p
    BY DEF TableInv, Tracked
  <2>2. p # NoPid
    BY DEF Pids, NoPid
  <2>3. ~tbl[s].exited
    BY <2>1, <2>2 DEF TableInv, Rows
  <2>4. \A r \in Slots : r < last /\ tbl[r].pid = p => r = s
    BY <2>1, <2>2 DEF TableInv, Distinct
  <2> QED
    BY <2>1, <2>3, <2>4
<1> QED
  BY <1>1, TableAlways, PTL

\* A slot is marked exited exactly when ngx_process_get_status has waited for
\* its child, so the master's kill() never meets a pid the kernel gave away.
THEOREM ExitedIsReaped == Spec => []ExitedMeansReaped
<1>1. TypeOK /\ TableInv => ExitedMeansReaped
  BY DEF ExitedMeansReaped, TableInv, Rows, InTable
<1> QED
  BY <1>1, TableAlways, PTL

-----------------------------------------------------------------------------
(* The stages after the exit test run only while no stop is wanted: flags  *)
(* are set by signals, and these arrive in the master's sigsuspend() alone. *)

Going ==
  {"timer", "timer_start", "timer_signal", "reconfigure", "binary_start",
   "reconf_start", "reconf_signal", "restart", "restart_start", "reopen",
   "reopen_signal", "change_binary", "noaccept", "noaccept_signal"}

Stop == {"quit", "terminate"}

Running == pc \in Going => flags \cap Stop = {}

LEMMA RunningStep == Running /\ [Next]_vars => Running'
<1> SUFFICES ASSUME Running, [Next]_vars PROVE Running'
  OBVIOUS
<1>1. ASSUME pc' \in Going => pc \in Going, flags' \cap Stop \subseteq flags
      PROVE  Running'
  BY <1>1 DEF Running
<1>2. CASE UNCHANGED vars
  BY <1>1, <1>2 DEF vars, master
<1>3. CASE StartWorker \/ SkipSlot \/ CommandSlot \/ ReapSkip \/ ReapRespawn
  BY <1>1, <1>3 DEF StartWorker, SkipSlot, CommandSlot, ReapSkip, ReapRespawn
<1>4. CASE StartDone
  <2>1. pc' \in Going => pc \in Going
    BY <1>4 DEF StartDone, StartSites, After, Going
  <2>2. flags' \subseteq flags
    BY <1>4 DEF StartDone
  <2> QED
    BY <1>1, <2>1, <2>2
<1>5. CASE SignalDone
  BY <1>1, <1>5 DEF SignalDone, SignalSites, After, Going
<1>6. CASE KillSlot
  <2>1. pc' = pc /\ flags' \subseteq flags \cup {"reap"}
    BY <1>6 DEF KillSlot
  <2> QED
    BY <1>1, <2>1 DEF Stop
<1>7. CASE ReapRemove
  BY <1>7 DEF ReapRemove, Running, Going
<1>8. CASE ReapDone \/ LoopTop \/ Wake
  BY <1>8 DEF ReapDone, LoopTop, Wake, Goto, Running, Going
<1>9. CASE ExitTest
  BY <1>9 DEF ExitTest, Goto, Running, Going, Stop
<1>10. CASE TimerStage \/ ReconfigureStage \/ RestartStage \/ ReopenStage
            \/ ChangeBinaryStage
  <2>1. pc \in Going /\ flags' \subseteq flags
    BY <1>10 DEF TimerStage, ReconfigureStage, RestartStage, ReopenStage,
                 ChangeBinaryStage, Stage, Going
  <2> QED
    BY <1>1, <2>1
<1>11. CASE NoAcceptStage
  <2>1. pc \in Going /\ flags' \subseteq flags \cup {"noaccepting"}
    BY <1>11 DEF NoAcceptStage, Going
  <2> QED
    BY <1>1, <2>1 DEF Stop
<1>12. ASSUME NEW sig, Deliver(sig) PROVE Running'
  BY <1>12 DEF Deliver, Running, Going
<1>13. ASSUME UNCHANGED master PROVE Running'
  BY <1>1, <1>13 DEF master
<1>14. ASSUME NEW p \in Pids, WorkerLoop(p) \/ WorkerFatal(p) \/ Crash(p)
       PROVE  Running'
  BY <1>13, <1>14 DEF WorkerLoop, WorkerReady, ChannelHandler, WorkerExit, WorkerQuit,
                      WorkerReopen, WorkerFatal, Crash, Dies
<1>15. ASSUME NEW sig, Request(sig) PROVE Running'
  BY <1>13, <1>15 DEF Request
<1>16. CASE ShortAlarm \/ TenDays
  BY <1>13, <1>16 DEF ShortAlarm, TenDays
<1> QED
  BY <1>2, <1>3, <1>4, <1>5, <1>6, <1>7, <1>8, <1>9, <1>10, <1>11, <1>12, <1>14,
     <1>15, <1>16, Zenon DEF Next, MasterStep

LEMMA StopStep ==
  Running /\ [Next]_vars =>
    (forks' # forks => pc = "boot" \/ flags \cap {"quit", "terminate"} = {})
<1> SUFFICES ASSUME Running, Next, forks' # forks
             PROVE  pc = "boot" \/ flags \cap {"quit", "terminate"} = {}
  BY DEF vars, bounds
<1>1. CASE StartWorker \/ ChangeBinaryStage
  BY <1>1 DEF StartWorker, ChangeBinaryStage, Stage, StartSites, Running, Going, Stop
<1>2. CASE ReapRespawn
  BY <1>2 DEF ReapRespawn, Respawnable
<1>3. ASSUME ~(StartWorker \/ ChangeBinaryStage \/ ReapRespawn) PROVE FALSE
  <2>1. ASSUME NEW sig, Deliver(sig) PROVE FALSE
    BY <2>1 DEF Deliver, bounds
  <2>2. ASSUME NEW p \in Pids, WorkerLoop(p) \/ WorkerFatal(p) \/ Crash(p) PROVE FALSE
    BY <2>2 DEF WorkerLoop, WorkerReady, ChannelHandler, WorkerExit, WorkerQuit,
                WorkerReopen, WorkerFatal, Crash, Dies, bounds
  <2>3. ASSUME NEW sig, Request(sig) PROVE FALSE
    BY <2>3 DEF Request
  <2>4. CASE \/ StartDone \/ SkipSlot \/ CommandSlot \/ KillSlot \/ SignalDone
             \/ ReapSkip \/ ReapRemove \/ ReapDone \/ LoopTop \/ Wake \/ ExitTest
    BY <2>4 DEF StartDone, SkipSlot, CommandSlot, KillSlot, SignalDone, ReapSkip,
                ReapRemove, ReapDone, LoopTop, Wake, ExitTest, bounds
  <2>5. CASE \/ TimerStage \/ ReconfigureStage \/ RestartStage \/ ReopenStage
             \/ NoAcceptStage \/ ShortAlarm \/ TenDays
    BY <2>5 DEF TimerStage, ReconfigureStage, RestartStage, ReopenStage,
                NoAcceptStage, ShortAlarm, TenDays, bounds
  <2> QED
    BY <1>3, <2>1, <2>2, <2>3, <2>4, <2>5, Zenon DEF Next, MasterStep
<1> QED
  BY <1>1, <1>2, <1>3

\* Once told to stop, the master forks nothing: no respawn of a worker that
\* dies, no restart, no new binary, whichever signals arrived together.
THEOREM StopSpawnsNothing == Spec => NoSpawnWhileStopping
<1>1. Init => Running
  BY DEF Init, Running, Going
<1>2. Spec => []Running
  BY <1>1, RunningStep, PTL DEF Spec
<1> QED
  BY <1>2, StopStep, PTL DEF Spec, NoSpawnWhileStopping

-----------------------------------------------------------------------------
(***************************************************************************)
(* The generations of workers: the master exits after its workers, a       *)
(* reload or a ten-day restart replaces them, and some worker goes on      *)
(* serving.                                                                *)
(*                                                                         *)
(* The administrator is assumed not to upgrade the binary: the master of   *)
(* an upgrade starts workers of its own beside the new one's, and the run  *)
(* of the upgrade shows it leave some behind.                              *)
(***************************************************************************)

Halting == {"quit", "terminate", "noaccepting"}

\* Calls that tell every worker to go, other stages between two calls, and
\* the two calls that replace a generation: its start, then its command.
Halts == {"quit_signal", "term_signal", "kill_signal", "noaccept_signal"}
Plain ==
  {"top", "exit_test", "timer", "reconfigure", "restart", "reopen", "change_binary",
   "noaccept", "reopen_signal"} \cup Halts
Starting == {"timer_start", "reconf_start"}
Telling == {"timer_signal", "reconf_signal"}

-----------------------------------------------------------------------------
(* The inductive invariant. The first five parts hold whatever calls fail; *)
(* a failed ngx_spawn_process leaves stale descriptors in its slot, so the *)
(* others are about the histories without one.                             *)

\* Nothing asks for another binary, so no slot is detached.
NoUpgrade ==
  /\ "change_binary" \notin flags \cup pending /\ "restart" \notin flags
  /\ new_binary = 0
  /\ pc \notin {"binary_start", "restart_start"}
  /\ \A s \in Slots : tbl[s].detached = FALSE

\* live is FALSE only while every child ngx_reap_childs has passed is gone.
NoneLeft ==
  /\ pc = "exited" => live = FALSE
  /\ live = FALSE /\ pc \notin StartSites =>
       \A s \in Slots : s < last /\ (pc = "reap" => s < i) =>
         tbl[s].pid = NoPid \/ os[tbl[s].pid] = "reaped"

\* just_respawn is set from the start of a generation until the call that
\* follows it has passed the slot.
Fresh ==
  \A s \in Slots : tbl[s].just_respawn =>
    /\ InTable(s)
    /\ pc \in Starting \/ (pc \in Telling /\ s >= i)

Unborn == \A p \in Pids : os[p] = "unborn" => inbox[p] = <<>>

Stopped == pc \in Halts => flags \cap Halting # {}

\* A child marked exited waits for the next ngx_reap_childs, and no longer.
Swept ==
  \A s \in Slots : InTable(s) /\ tbl[s].exited =>
    \/ pc \in {"suspend", "wake"} /\ "reap" \in flags
    \/ pc = "reap" /\ s >= i

\* A slot's channel leads to the slot's own child.
Channels ==
  \A s \in Slots : tbl[s].chan # NoFd => InTable(s) /\ fdmap[tbl[s].chan] = tbl[s].pid

NoQuit(q) == \A k \in 1 .. Len(q) : q[k] # "quit"

Spared ==
  \A s \in Slots : tbl[s].just_respawn =>
    "quit" \notin w[tbl[s].pid] /\ NoQuit(inbox[tbl[s].pid])

\* The workers that will stay when the generation in progress is complete.
Counted ==
  {s \in Staying : /\ pc \in Starting => tbl[s].just_respawn
                   /\ pc \in Telling => tbl[s].just_respawn \/ s < i}

Few ==
  Cardinality(Counted) <= IF pc \in Starting \cup {"boot"} THEN i ELSE Workers

\* A worker that stays and would be respawned if it died.
Serving == {s \in Staying : tbl[s].respawn}
Serves ==
  fatal = {} /\ flags \cap Halting = {} =>
    /\ pc = "boot" => i = 0 \/ Serving # {}
    /\ pc # "boot" => Serving # {}
    /\ pc \in Starting => i = 0 \/ Serving \cap Counted # {}
    /\ pc \in Telling => Serving \cap Counted # {}

FailFree == Swept /\ Channels /\ Spared /\ (pc \in StartSites => i <= Workers) /\ Few

IInv ==
  /\ TypeOK /\ TableInv /\ Running
  /\ NoUpgrade /\ NoneLeft /\ Fresh /\ Unborn /\ Stopped
  /\ fails = 0 => FailFree

\* The table is never full when a generation is started.
Room == pc \in StartSites /\ i = 0 => FreeSlot # MaxProcesses

-----------------------------------------------------------------------------
(* What a step does, as far as the generations of workers are concerned.   *)

\* The master goes from one place to another and leaves the table alone.
Control ==
  /\ UNCHANGED <<tbl, last, os, forks, fdmap, w, inbox, fatal>>
  /\ fails' = fails \/ fails' = fails + 1
  /\ flags \cap Halting \subseteq flags'
  /\ i' = 0
  /\ \/ pc \in Starting /\ i = Workers /\ pc' \in Telling /\ live' = TRUE
     \/ pc = "boot" /\ i = Workers /\ pc' = "top" /\ live' = TRUE
     \/ pc \in Telling /\ i >= last /\ pc' \in {"reconfigure", "restart"} /\ live' = live
     \/ pc = "reap" /\ i >= last /\ pc' = "exit_test" /\ live' = live
     \/ pc = "wake" /\ "reap" \in flags /\ pc' = "reap" /\ live' = FALSE
     \/ pc = "wake" /\ "reap" \notin flags /\ pc' = "exit_test" /\ live' = live
     \/ pc = "top" /\ pc' = "suspend" /\ live' = live
     \/ pc \in {"timer", "reconfigure"} /\ pc' \in Starting /\ live' = live
     \/ /\ pc \in Plain /\ pc' \in Plain \cup {"exited"} /\ live' = live
        /\ pc' = "exited" => live = FALSE
        /\ pc' \in Halts => flags' \cap Halting # {}

\* A signal comes while the master sleeps, SIGCHLD or another one.
Signalled ==
  /\ UNCHANGED <<last, forks, fdmap, w, inbox, fatal, fails, i, live>>
  /\ pc \in {"suspend", "wake"} /\ pc' = "wake" /\ flags \subseteq flags'
  /\ UNCHANGED <<tbl, os>> \/ GetStatus

\* Workers run and die, the administrator and the clock make signals.
Background ==
  /\ UNCHANGED <<tbl, last, flags, live, pc, i, fdmap, forks, fails>>
  /\ fatal \subseteq fatal'
  /\ \A p \in Pids :
       /\ os'[p] = "unborn" <=> os[p] = "unborn"
       /\ os'[p] = "reaped" <=> os[p] = "reaped"
       /\ os[p] = "unborn" => inbox'[p] = inbox[p]
       /\ "quit" \notin w[p] /\ NoQuit(inbox[p]) =>
            "quit" \notin w'[p] /\ NoQuit(inbox'[p])

\* The master tells the other children of a channel that is open or closed.
Announced ==
  \A p \in Pids : /\ os[p] = "unborn" => inbox'[p] = inbox[p]
                  /\ NoQuit(inbox[p]) => NoQuit(inbox'[p])

\* A row differs in its channel at most.
Alike(r) ==
  /\ tbl'[r].pid = tbl[r].pid /\ tbl'[r].exited = tbl[r].exited
  /\ tbl'[r].exiting = tbl[r].exiting /\ tbl'[r].respawn = tbl[r].respawn
  /\ tbl'[r].just_respawn = tbl[r].just_respawn /\ tbl'[r].detached = tbl[r].detached

\* A child with a new pid and a new channel is in slot s.
ChildIn(s) ==
  /\ forks' = forks + 1 /\ forks + 1 \in Pids /\ fails' = fails
  /\ \A r \in Slots \ {s} : tbl'[r] = tbl[r]
  /\ tbl'[s].pid = forks + 1 /\ tbl'[s].exited = FALSE
  /\ tbl'[s].chan \in Fds /\ fdmap'[tbl'[s].chan] = forks + 1
  /\ \A d \in Fds : \/ fdmap'[d] = fdmap[d] \/ d = tbl[s].chan
                    \/ d = tbl'[s].chan /\ fdmap[d] = 0
  /\ os'[forks + 1] = "starting" /\ \A p \in Pids \ {forks + 1} : os'[p] = os[p]
  /\ w'[forks + 1] = flags \cap {"quit", "terminate", "reopen"}
  /\ \A p \in Pids \ {forks + 1} : w'[p] = w[p]

\* No child is started: the table is full, or a call fails.
NoChild ==
  /\ UNCHANGED <<last, os, w, forks, fdmap>>
  /\ \A r \in Slots : Alike(r)
  /\ fails' = fails \/ fails' = fails + 1
  /\ fails' = fails => FreeSlot = MaxProcesses /\ tbl' = tbl

\* ngx_start_worker_processes fills a free slot, or lengthens the table.
Born(s) ==
  /\ ChildIn(s)
  /\ \/ s = last /\ last' = last + 1
     \/ s < last /\ tbl[s].pid = NoPid /\ last' = last
  /\ tbl'[s].exiting = FALSE /\ tbl'[s].respawn = TRUE /\ tbl'[s].detached = FALSE
  /\ pc \in Starting => tbl'[s].just_respawn = TRUE
  /\ pc \notin Starting => tbl'[s].just_respawn = FALSE

Started ==
  /\ pc \in StartSites /\ i < Workers /\ i' = i + 1
  /\ UNCHANGED <<pc, flags, live, fatal>> /\ Announced
  /\ NoChild \/ \E s \in Slots : Born(s)

Respawned ==
  /\ pc = "reap" /\ i \in Slots /\ InTable(i) /\ tbl[i].exited /\ i' = i + 1
  /\ UNCHANGED <<pc, flags, fatal, last>> /\ Announced
  /\ \/ /\ fails' = fails + 1 /\ UNCHANGED <<os, w, forks, live>>
        /\ \A r \in Slots : Alike(r)
     \/ /\ ChildIn(i) /\ live' = TRUE
        /\ tbl'[i].exiting = tbl[i].exiting /\ tbl'[i].respawn = tbl[i].respawn
        /\ tbl'[i].just_respawn = tbl[i].just_respawn /\ tbl'[i].detached = tbl[i].detached

Removed ==
  /\ pc = "reap" /\ i \in Slots /\ InTable(i) /\ tbl[i].exited /\ i' = i + 1
  /\ ~Respawnable(i)
  /\ UNCHANGED <<pc, flags, fatal, os, w, forks, fails, live>> /\ Announced
  /\ \A r \in Slots \ {i} : tbl'[r] = tbl[r] /\ (r < last' <=> r < last)
  /\ i < last' => tbl'[i].pid = NoPid
  /\ tbl'[i].chan = NoFd /\ tbl'[i].just_respawn = tbl[i].just_respawn
  /\ tbl'[i].detached = tbl[i].detached
  /\ \A d \in Fds : fdmap'[d] = fdmap[d] \/ d = tbl[i].chan

Passed ==
  /\ pc = "reap" /\ i \in Slots /\ i < last /\ i' = i + 1
  /\ UNCHANGED <<tbl, last, flags, pc, fdmap, os, fatal, w, inbox, forks, fails>>
  /\ tbl[i].pid = NoPid \/ tbl[i].exited = FALSE
  /\ live' = FALSE => live = FALSE /\ tbl[i].pid = NoPid

\* ngx_signal_worker_processes meets a slot: it is left alone or marked.
Met ==
  /\ pc \in SignalSites /\ i \in Slots /\ i < last /\ i' = i + 1
  /\ UNCHANGED <<last, live, pc, fdmap, fatal, forks, fails>>
  /\ \A r \in Slots \ {i} : tbl'[r] = tbl[r]
  /\ tbl'[i].pid = tbl[i].pid /\ tbl'[i].chan = tbl[i].chan
  /\ tbl'[i].respawn = tbl[i].respawn /\ tbl'[i].detached = tbl[i].detached
Left ==
  /\ Met /\ UNCHANGED <<flags, os, w, inbox>>
  /\ tbl'[i].exited = tbl[i].exited /\ tbl'[i].exiting = tbl[i].exiting
  /\ InTable(i) => tbl'[i].just_respawn = FALSE
  /\ ~InTable(i) => tbl'[i].just_respawn = tbl[i].just_respawn
  /\ InTable(i) => tbl[i].just_respawn \/ (tbl[i].exiting /\ pc # "reopen_signal")
Marked ==
  /\ Met /\ flags \subseteq flags' /\ InTable(i) /\ tbl[i].just_respawn = FALSE
  /\ tbl'[i].just_respawn = FALSE
  /\ \/ /\ os[tbl[i].pid] = "reaped" /\ UNCHANGED <<os, w, inbox>>
     \/ /\ tbl'[i].exited = tbl[i].exited
        /\ tbl'[i].exiting = (tbl[i].exiting \/ pc # "reopen_signal")
        /\ \A p \in Pids :
             /\ os'[p] = os[p] \/ (Alive(p) /\ os'[p] = "zombie")
             /\ w'[p] = w[p] \/ p = tbl[i].pid
             /\ inbox'[p] = inbox[p] \/ (Alive(p) /\ tbl[i].chan # NoFd /\ p = fdmap[tbl[i].chan])

-----------------------------------------------------------------------------
(* Every step is one of these.                                             *)

LEMMA AppendKeeps ==
  ASSUME NEW q \in Seq(Commands), NEW n \in Int, NEW m \in Commands, m # "quit", NoQuit(q)
  PROVE  NoQuit(q \o [k \in 1 .. n |-> m])
<1> DEFINE new == [k \in 1 .. n |-> m]
<1>1. new \in Seq(Commands) /\ \A k \in 1 .. Len(new) : new[k] = m
  <2>1. CASE n \in Nat
    <3>1. new \in Seq(Commands)
      BY <2>1, IsASeq
    <3>2. Len(new) = n
      BY <2>1, <3>1, LenProperties
    <3> QED
      BY <3>1, <3>2
  <2>2. CASE n \notin Nat
    <3>1. 1 .. n = {} /\ 1 .. n = 1 .. 0
      BY <2>2
    <3>2. new \in Seq(Commands)
      BY <3>1, IsASeq
    <3>3. DOMAIN new = {}
      BY <3>1
    <3>4. 1 .. Len(new) = {}
      BY <3>2, <3>3, LenProperties
    <3> QED
      BY <3>2, <3>4
  <2> QED
    BY <2>1, <2>2
<1> HIDE DEF new
<1>2. /\ Len(q \o new) = Len(q) + Len(new) /\ Len(q) \in Nat /\ Len(new) \in Nat
      /\ \A k \in 1 .. Len(q) + Len(new) :
           (q \o new)[k] = IF k <= Len(q) THEN q[k] ELSE new[k - Len(q)]
  BY <1>1, ConcatProperties, LenProperties
<1>3. NoQuit(q \o new)
  <2> SUFFICES ASSUME NEW k \in 1 .. Len(q) + Len(new) PROVE (q \o new)[k] # "quit"
    BY <1>2 DEF NoQuit
  <2>1. CASE k <= Len(q)
    <3>1. k \in 1 .. Len(q)
      BY <1>2, <2>1
    <3> QED
      BY <1>2, <2>1, <3>1 DEF NoQuit
  <2>2. CASE ~(k <= Len(q))
    <3>1. k - Len(q) \in 1 .. Len(new)
      BY <1>2, <2>2
    <3> QED
      BY <1>1, <1>2, <2>2, <3>1
  <2> QED
    BY <2>1, <2>2
<1> QED
  BY <1>3 DEF new

LEMMA BroadcastKeeps ==
  ASSUME inbox \in [Pids -> Seq(Commands)], NEW t, NEW f, NEW to, to \subseteq Slots,
         NEW m \in {"open", "close"}, inbox' = Broadcast(t, f, to, m)
  PROVE  Announced
<1> DEFINE copies(p) == Cardinality({s \in to : t[s].chan # NoFd /\ f[t[s].chan] = p})
           room(p)   == ChannelCap - Len(inbox[p])
           sent(p)   == IF copies(p) < room(p) THEN copies(p) ELSE room(p)
<1>1. ASSUME NEW p \in Pids PROVE sent(p) \in Int
  <2>1. IsFiniteSet(Slots)
    BY FS_Interval, ProcessCycleAssumption DEF Slots
  <2>2. copies(p) \in Nat
    <3> DEFINE S == {s \in to : t[s].chan # NoFd /\ f[t[s].chan] = p}
    <3>1. S \in SUBSET Slots
      OBVIOUS
    <3>2. IsFiniteSet(S)
      BY <2>1, <3>1, FS_Subset
    <3> QED
      BY <3>2, FS_CardinalityType
  <2>3. room(p) \in Int
    BY ProcessCycleAssumption, LenProperties
  <2> QED
    BY <2>2, <2>3
<1>2. ASSUME NEW p \in Pids
      PROVE  inbox'[p] = IF Alive(p) THEN inbox[p] \o [k \in 1 .. sent(p) |-> m] ELSE inbox[p]
  BY <1>2 DEF Broadcast
<1> HIDE DEF sent
<1>3. m \in Commands /\ m # "quit"
  BY DEF Commands
<1>4. ASSUME NEW p \in Pids, NoQuit(inbox[p]) PROVE NoQuit(inbox'[p])
  <2>1. NoQuit(inbox[p] \o [k \in 1 .. sent(p) |-> m])
    BY <1>1, <1>3, <1>4, AppendKeeps
  <2> QED
    BY <1>2, <1>4, <2>1
<1> QED
  BY <1>2, <1>4 DEF Announced, Alive

LEMMA AnnounceKeeps ==
  ASSUME TypeOK, Announce
  PROVE  Announced
<1> DEFINE to == {s \in Slots : s < last' /\ s # slot' /\ tbl'[s].pid # NoPid}
<1>1. inbox \in [Pids -> Seq(Commands)] /\ to \subseteq Slots
  BY DEF TypeOK
<1>2. inbox' = inbox \/ inbox' = Broadcast(tbl', fdmap', to, "open")
  BY DEF Announce
<1> HIDE DEF to
<1>3. ASSUME inbox' = Broadcast(tbl', fdmap', to, "open") PROVE Announced
  BY <1>1, <1>3, BroadcastKeeps
<1> QED
  BY <1>2, <1>3 DEF Announced

LEMMA TellKeeps ==
  ASSUME TypeOK, NEW s \in Slots, TellClosed(s)
  PROVE  Announced
<1> DEFINE to == {n \in Slots : InTable(n) /\ ~tbl[n].exited}
<1>1. inbox \in [Pids -> Seq(Commands)] /\ to \subseteq Slots
  BY DEF TypeOK
<1>2. inbox' = inbox \/ inbox' = Broadcast(ClosedTbl(s), ClosedMap(s), to, "close")
  BY DEF TellClosed
<1> HIDE DEF to
<1>3. ASSUME inbox' = Broadcast(ClosedTbl(s), ClosedMap(s), to, "close") PROVE Announced
  BY <1>1, <1>3, BroadcastKeeps
<1> QED
  BY <1>2, <1>3 DEF Announced

LEMMA FreeFdIs ==
  ASSUME NEW f, FreeFd(f) # NoFd
  PROVE  FreeFd(f) \in Fds /\ f[FreeFd(f)] = 0
<1> DEFINE free == {d \in Fds : f[d] = 0}
<1>1. free # {} => \E d \in free : \A e \in free : d <= e
  <2>1. free \subseteq Nat
    BY DEF Fds
  <2> QED
    BY <2>1, LeastExists
<1> QED
  BY <1>1 DEF FreeFd

LEMMA ChildIs ==
  ASSUME TypeOK, NEW t \in [Slots -> SlotType], NEW f \in [Fds -> Pids \cup {0}],
         NEW s \in Slots, NEW kind \in Kinds, kind # "detached", SpawnOK(t, f, s, kind),
         \A r \in Slots \ {s} : t[r] = tbl[r],
         \A d \in Fds : f[d] = fdmap[d] \/ (d = tbl[s].chan /\ f[d] = 0)
  PROVE  ChildIn(s)
<1> DEFINE p == forks + 1
           d == FreeFd(f)
           new == Filled(t, s, kind, p, d)
<1>1. p \in Pids /\ forks' = p /\ fails' = fails
  BY SpawnOKType DEF SpawnOK
<1>2. d \in Fds /\ f[d] = 0
  BY FreeFdIs DEF SpawnOK
<1>3. tbl' = [t EXCEPT ![s] = new] /\ fdmap' = [f EXCEPT ![d] = p]
  BY <1>2 DEF SpawnOK, NoFd, Fds
<1>4. os' = [os EXCEPT ![p] = "starting"]
      /\ w' = [w EXCEPT ![p] = flags \cap {"quit", "terminate", "reopen"}]
  BY DEF SpawnOK
<1> HIDE DEF p, d
<1>5. new.pid = p /\ new.exited = FALSE /\ new.chan = d
  BY DEF Filled, SlotType
<1> HIDE DEF new
<1>6. tbl'[s] = new /\ \A r \in Slots \ {s} : tbl'[r] = tbl[r]
  BY <1>3
<1>7. fdmap'[d] = p /\ \A e \in Fds \ {d} : fdmap'[e] = f[e]
  BY <1>2, <1>3
<1>8. \A e \in Fds : fdmap'[e] = fdmap[e] \/ e = tbl[s].chan \/ (e = d /\ fdmap[e] = 0)
  BY <1>2, <1>7
<1>9. os'[p] = "starting" /\ \A q \in Pids \ {p} : os'[q] = os[q]
  BY <1>1, <1>4 DEF TypeOK
<1>10. w'[p] = flags \cap {"quit", "terminate", "reopen"} /\ \A q \in Pids \ {p} : w'[q] = w[q]
  BY <1>1, <1>4 DEF TypeOK
<1> QED
  BY <1>1, <1>2, <1>5, <1>6, <1>7, <1>8, <1>9, <1>10 DEF ChildIn, p

\* The rest of the row of a new child, and of a child that is started again.
LEMMA NewRow ==
  ASSUME NEW t \in [Slots -> SlotType], NEW f, NEW s \in Slots,
         NEW kind \in {"respawn", "just_respawn"}, SpawnOK(t, f, s, kind)
  PROVE  /\ last' = IF s = last THEN last + 1 ELSE last
         /\ tbl'[s].exiting = FALSE /\ tbl'[s].respawn = TRUE /\ tbl'[s].detached = FALSE
         /\ kind = "just_respawn" => tbl'[s].just_respawn = TRUE
         /\ kind = "respawn" => tbl'[s].just_respawn = FALSE
<1> DEFINE p == forks + 1
           d == FreeFd(f)
           new == Filled(t, s, kind, p, d)
           just == kind = "just_respawn"
<1>1. tbl' = [t EXCEPT ![s] = new] /\ last' = IF s = last THEN last + 1 ELSE last
  BY DEF SpawnOK
<1> HIDE DEF p, d
<1>2. t[s] \in SlotType /\ kind # "same" /\ kind # "detached" /\ just \in BOOLEAN
  OBVIOUS
<1>3. new = [t[s] EXCEPT !.pid = p, !.exited = FALSE, !.chan = d, !.exiting = FALSE,
                         !.respawn = TRUE, !.just_respawn = just, !.detached = FALSE]
  BY <1>2 DEF Filled, SlotType
<1> HIDE DEF new, just
<1>4. new.exiting = FALSE /\ new.respawn = TRUE /\ new.just_respawn = just /\ new.detached = FALSE
  BY <1>2, <1>3 DEF SlotType
<1>5. tbl'[s] = new
  BY <1>1
<1>6. (kind = "just_respawn" => just = TRUE) /\ (kind = "respawn" => just = FALSE)
  BY DEF just
<1> QED
  BY <1>1, <1>4, <1>5, <1>6

LEMMA OldRow ==
  ASSUME NEW t \in [Slots -> SlotType], NEW f, NEW s \in Slots, SpawnOK(t, f, s, "same")
  PROVE  /\ last' = last
         /\ tbl'[s].exiting = t[s].exiting /\ tbl'[s].respawn = t[s].respawn
         /\ tbl'[s].just_respawn = t[s].just_respawn /\ tbl'[s].detached = t[s].detached
<1> DEFINE p == forks + 1
           d == FreeFd(f)
           new == Filled(t, s, "same", p, d)
<1>1. tbl' = [t EXCEPT ![s] = new] /\ last' = last
  BY DEF SpawnOK
<1> HIDE DEF p, d
<1>2. t[s] \in SlotType
  OBVIOUS
<1>3. new = [t[s] EXCEPT !.pid = p, !.exited = FALSE, !.chan = d]
  BY DEF Filled
<1>4. /\ new.exiting = t[s].exiting /\ new.respawn = t[s].respawn
      /\ new.just_respawn = t[s].just_respawn /\ new.detached = t[s].detached
  BY <1>2, <1>3 DEF SlotType
<1> HIDE DEF new
<1> QED
  BY <1>1, <1>4

\* A call of ngx_spawn_process that fails.
LEMMA NoChildIs ==
  ASSUME TypeOK, NEW t \in [Slots -> SlotType], NEW f, NEW s \in 0 .. MaxProcesses, NEW kind,
         \A r \in Slots : /\ t[r].pid = tbl[r].pid /\ t[r].exited = tbl[r].exited
                          /\ t[r].exiting = tbl[r].exiting /\ t[r].respawn = tbl[r].respawn
                          /\ t[r].just_respawn = tbl[r].just_respawn
                          /\ t[r].detached = tbl[r].detached,
         SpawnFailed(t, f, s, kind)
  PROVE  /\ \A r \in Slots : Alike(r)
         /\ UNCHANGED <<last, os, w, forks>> /\ fdmap' = f
         /\ fails' = fails + 1 \/ (fails' = fails /\ s = MaxProcesses /\ tbl' = t)
<1>1. ASSUME tbl' = t \/ \E d : tbl' = [t EXCEPT ![s].chan = d]
      PROVE  \A r \in Slots : Alike(r)
  <2>1. CASE tbl' = t
    BY <2>1 DEF Alike
  <2>2. ASSUME NEW d, tbl' = [t EXCEPT ![s].chan = d] PROVE \A r \in Slots : Alike(r)
    BY <2>2 DEF Alike, SlotType
  <2> QED
    BY <1>1, <2>1, <2>2
<1>2. tbl' = t \/ \E d : tbl' = [t EXCEPT ![s].chan = d]
  BY DEF SpawnFailed
<1>3. /\ UNCHANGED <<last, os, w, forks>> /\ fdmap' = f
      /\ fails' = fails + 1 \/ (fails' = fails /\ s = MaxProcesses /\ tbl' = t)
  BY DEF SpawnFailed
<1> QED
  BY <1>1, <1>2, <1>3

LEMMA StartIs ==
  ASSUME TypeOK, NoUpgrade, StartWorker
  PROVE  Started
<1> DEFINE kind == IF pc \in JustRespawn THEN "just_respawn" ELSE "respawn"
<1>0. tbl \in [Slots -> SlotType] /\ fdmap \in [Fds -> Pids \cup {0}] /\ last \in 0 .. MaxProcesses
  BY DEF TypeOK
<1>1. /\ pc \in StartSites /\ i < Workers /\ i' = i + 1
      /\ UNCHANGED <<pc, flags, live, fatal>> /\ Announce
      /\ \/ FreeSlot # MaxProcesses /\ SpawnOK(tbl, fdmap, FreeSlot, kind)
         \/ SpawnFailed(tbl, fdmap, FreeSlot, kind)
  BY DEF StartWorker
<1>2. kind \in {"respawn", "just_respawn"}
  OBVIOUS
<1>7. pc \in Starting => kind = "just_respawn"
  BY DEF JustRespawn, Starting
<1>8. pc \notin Starting => kind = "respawn"
  BY DEF JustRespawn, Starting
<1>9. kind \in Kinds /\ kind # "detached"
  BY DEF Kinds
<1>3. /\ FreeSlot \in 0 .. MaxProcesses
      /\ FreeSlot = last \/ (FreeSlot \in Slots /\ FreeSlot < last /\ tbl[FreeSlot].pid = NoPid)
      /\ FreeSlot # MaxProcesses => FreeSlot \in Slots
  BY <1>0, FreeSlotIs, ProcessCycleAssumption DEF Slots
<1>4. Announced
  BY <1>1, AnnounceKeeps
<1> HIDE DEF kind
<1>5. CASE FreeSlot # MaxProcesses /\ SpawnOK(tbl, fdmap, FreeSlot, kind)
  <2>1. /\ FreeSlot \in Slots /\ SpawnOK(tbl, fdmap, FreeSlot, kind)
        /\ \A r \in Slots \ {FreeSlot} : tbl[r] = tbl[r]
        /\ \A d \in Fds : fdmap[d] = fdmap[d] \/ (d = tbl[FreeSlot].chan /\ fdmap[d] = 0)
    BY <1>3, <1>5
  <2>5. ChildIn(FreeSlot)
    BY <1>0, <1>9, <2>1, ChildIs
  <2>2. /\ last' = IF FreeSlot = last THEN last + 1 ELSE last
        /\ tbl'[FreeSlot].exiting = FALSE /\ tbl'[FreeSlot].respawn = TRUE
        /\ tbl'[FreeSlot].detached = FALSE
        /\ kind = "just_respawn" => tbl'[FreeSlot].just_respawn = TRUE
        /\ kind = "respawn" => tbl'[FreeSlot].just_respawn = FALSE
    BY <1>0, <1>2, <2>1, NewRow
  <2>3. /\ pc \in Starting => tbl'[FreeSlot].just_respawn = TRUE
        /\ pc \notin Starting => tbl'[FreeSlot].just_respawn = FALSE
    BY <1>7, <1>8, <2>2
  <2>4. \/ FreeSlot = last /\ last' = last + 1
        \/ FreeSlot < last /\ tbl[FreeSlot].pid = NoPid /\ last' = last
    BY <1>0, <1>3, <2>2
  <2> QED
    <3>1. Born(FreeSlot)
      BY <2>2, <2>3, <2>4, <2>5, Zenon DEF Born
    <3>2. \E s \in Slots : Born(s)
      BY <2>1, <3>1, Zenon
    <3> QED
      BY <1>1, <1>4, <3>2, Zenon DEF Started
<1>6. CASE SpawnFailed(tbl, fdmap, FreeSlot, kind)
  <2>1. /\ \A r \in Slots : Alike(r)
        /\ UNCHANGED <<last, os, w, forks>> /\ fdmap' = fdmap
        /\ fails' = fails + 1 \/ (fails' = fails /\ FreeSlot = MaxProcesses /\ tbl' = tbl)
    BY <1>0, <1>3, <1>6, NoChildIs
  <2>2. fails + 1 # fails
    BY DEF TypeOK
  <2>3. NoChild
    BY <2>1, <2>2 DEF NoChild
  <2> QED
    BY <1>1, <1>4, <2>3, Zenon DEF Started
<1> QED
  BY <1>1, <1>5, <1>6

LEMMA ClosedIs ==
  ASSUME TypeOK, NoUpgrade, NEW s \in Slots
  PROVE  /\ ClosedTbl(s) = [tbl EXCEPT ![s].chan = NoFd]
         /\ ClosedTbl(s) \in [Slots -> SlotType]
         /\ ClosedMap(s) \in [Fds -> Pids \cup {0}]
         /\ \A d \in Fds : ClosedMap(s)[d] = fdmap[d] \/ (d = tbl[s].chan /\ ClosedMap(s)[d] = 0)
         /\ \A r \in Slots \ {s} : ClosedTbl(s)[r] = tbl[r]
         /\ \A r \in Slots :
              /\ ClosedTbl(s)[r].pid = tbl[r].pid /\ ClosedTbl(s)[r].exited = tbl[r].exited
              /\ ClosedTbl(s)[r].exiting = tbl[r].exiting
              /\ ClosedTbl(s)[r].respawn = tbl[r].respawn
              /\ ClosedTbl(s)[r].just_respawn = tbl[r].just_respawn
              /\ ClosedTbl(s)[r].detached = tbl[r].detached
         /\ ClosedTbl(s)[s].chan = NoFd
<1>1. tbl \in [Slots -> SlotType] /\ fdmap \in [Fds -> Pids \cup {0}] /\ tbl[s].detached = FALSE
  BY DEF TypeOK, NoUpgrade
<1>2. ClosedTbl(s) = [tbl EXCEPT ![s].chan = NoFd] /\ ClosedMap(s) = Closed(fdmap, tbl[s].chan)
  BY <1>1 DEF ClosedTbl, ClosedMap
<1>3. [tbl EXCEPT ![s].chan = NoFd] \in [Slots -> SlotType]
  BY <1>1 DEF SlotType
<1>4. /\ ClosedMap(s) \in [Fds -> Pids \cup {0}]
      /\ \A d \in Fds : ClosedMap(s)[d] = fdmap[d] \/ (d = tbl[s].chan /\ ClosedMap(s)[d] = 0)
  BY <1>1, <1>2 DEF Closed, SlotType
<1>5. /\ \A r \in Slots \ {s} : ClosedTbl(s)[r] = tbl[r]
      /\ ClosedTbl(s)[s] = [tbl[s] EXCEPT !.chan = NoFd]
  BY <1>1, <1>2
<1>6. /\ \A r \in Slots :
           /\ ClosedTbl(s)[r].pid = tbl[r].pid /\ ClosedTbl(s)[r].exited = tbl[r].exited
           /\ ClosedTbl(s)[r].exiting = tbl[r].exiting
           /\ ClosedTbl(s)[r].respawn = tbl[r].respawn
           /\ ClosedTbl(s)[r].just_respawn = tbl[r].just_respawn
           /\ ClosedTbl(s)[r].detached = tbl[r].detached
      /\ ClosedTbl(s)[s].chan = NoFd
  BY <1>1, <1>5 DEF SlotType
<1> QED
  BY <1>2, <1>3, <1>4, <1>5, <1>6

LEMMA RespawnIs ==
  ASSUME TypeOK, NoUpgrade, ReapRespawn
  PROVE  Respawned
<1>0. tbl \in [Slots -> SlotType] /\ fdmap \in [Fds -> Pids \cup {0}] /\ last \in 0 .. MaxProcesses
      /\ fails \in Nat
  BY DEF TypeOK
<1>1. /\ pc = "reap" /\ i < last /\ tbl[i].pid # NoPid /\ tbl[i].exited /\ i' = i + 1
      /\ UNCHANGED <<pc, flags, fatal>> /\ TellClosed(i)
      /\ \/ SpawnOK(ClosedTbl(i), ClosedMap(i), i, "same") /\ live' = TRUE
         \/ SpawnFailed(ClosedTbl(i), ClosedMap(i), i, "same") /\ UNCHANGED live
  BY DEF ReapRespawn
<1>2. i \in Slots /\ i \in 0 .. MaxProcesses /\ i # MaxProcesses /\ InTable(i)
  BY <1>0, <1>1, ProcessCycleAssumption DEF Slots, TypeOK, InTable
<1>3. Announced
  BY <1>1, <1>2, TellKeeps
<1>4. "same" \in Kinds /\ "same" # "detached"
  BY DEF Kinds
<1>5. CASE SpawnOK(ClosedTbl(i), ClosedMap(i), i, "same") /\ live' = TRUE
  <2>0. SpawnOK(ClosedTbl(i), ClosedMap(i), i, "same")
    BY <1>5
  <2>2. /\ ClosedTbl(i) \in [Slots -> SlotType] /\ ClosedMap(i) \in [Fds -> Pids \cup {0}]
        /\ \A r \in Slots \ {i} : ClosedTbl(i)[r] = tbl[r]
        /\ \A d \in Fds : ClosedMap(i)[d] = fdmap[d] \/ (d = tbl[i].chan /\ ClosedMap(i)[d] = 0)
    BY <1>2, ClosedIs
  <2>3. /\ ClosedTbl(i)[i].exiting = tbl[i].exiting
        /\ ClosedTbl(i)[i].respawn = tbl[i].respawn
        /\ ClosedTbl(i)[i].just_respawn = tbl[i].just_respawn
        /\ ClosedTbl(i)[i].detached = tbl[i].detached
    BY <1>2, ClosedIs
  <2>4. ChildIn(i)
    BY <1>2, <1>4, <2>0, <2>2, ChildIs
  <2>1. /\ last' = last
        /\ tbl'[i].exiting = ClosedTbl(i)[i].exiting /\ tbl'[i].respawn = ClosedTbl(i)[i].respawn
        /\ tbl'[i].just_respawn = ClosedTbl(i)[i].just_respawn
        /\ tbl'[i].detached = ClosedTbl(i)[i].detached
    BY <1>2, <2>0, <2>2, OldRow
  <2> QED
    BY <1>1, <1>2, <1>3, <1>5, <2>1, <2>3, <2>4 DEF Respawned
<1>6. CASE SpawnFailed(ClosedTbl(i), ClosedMap(i), i, "same") /\ UNCHANGED live
  <2>2. /\ ClosedTbl(i) \in [Slots -> SlotType]
        /\ \A r \in Slots :
             /\ ClosedTbl(i)[r].pid = tbl[r].pid /\ ClosedTbl(i)[r].exited = tbl[r].exited
             /\ ClosedTbl(i)[r].exiting = tbl[r].exiting
             /\ ClosedTbl(i)[r].respawn = tbl[r].respawn
             /\ ClosedTbl(i)[r].just_respawn = tbl[r].just_respawn
             /\ ClosedTbl(i)[r].detached = tbl[r].detached
    BY <1>2, ClosedIs
  <2>3. SpawnFailed(ClosedTbl(i), ClosedMap(i), i, "same")
    BY <1>6
  <2>1. /\ \A r \in Slots : Alike(r)
        /\ UNCHANGED <<last, os, w, forks>> /\ fails' = fails + 1
    BY <1>2, <2>2, <2>3, NoChildIs
  <2> QED
    BY <1>1, <1>2, <1>3, <1>6, <2>1 DEF Respawned
<1> QED
  BY <1>1, <1>5, <1>6

LEMMA RemoveIs ==
  ASSUME TypeOK, TableInv, NoUpgrade, ReapRemove
  PROVE  Removed
<1>0. tbl \in [Slots -> SlotType] /\ fdmap \in [Fds -> Pids \cup {0}] /\ last \in 0 .. MaxProcesses
  BY DEF TypeOK
<1>1. /\ pc = "reap" /\ i < last /\ tbl[i].pid # NoPid /\ tbl[i].exited /\ i' = i + 1
      /\ ~Respawnable(i) /\ TellClosed(i) /\ fdmap' = ClosedMap(i) /\ FreeOrShrink(i)
      /\ UNCHANGED <<pc, fatal, os, w, forks, fails, live>>
  BY DEF ReapRemove, bounds
<1>2. i \in Slots /\ InTable(i)
  BY <1>0, <1>1, ProcessCycleAssumption DEF Slots, TypeOK, InTable
<1>3. Announced
  BY <1>1, <1>2, TellKeeps
<1>4. UNCHANGED flags
  <2>1. tbl[i].pid # 0
    BY <1>1, <1>2 DEF TableInv, Rows
  <2> QED
    BY <2>1 DEF NoUpgrade, ReapRemove
<1>5. last \in Int /\ \A s \in Slots : s \in Int
  BY <1>0 DEF Slots
<1>6. /\ \A r \in Slots \ {i} : tbl'[r] = tbl[r] /\ (r < last' <=> r < last)
      /\ i < last' => tbl'[i].pid = NoPid
      /\ tbl'[i].chan = NoFd /\ tbl'[i].just_respawn = tbl[i].just_respawn
      /\ tbl'[i].detached = tbl[i].detached
  <2>1. CASE i = last - 1
    <3>1. last' = last - 1 /\ tbl' = ClosedTbl(i)
      BY <1>1, <2>1 DEF FreeOrShrink
    <3> QED
      <4>1. \A r \in Slots \ {i} : r < last' <=> r < last
        BY <1>2, <1>5, <2>1, <3>1
      <4>2. ~(i < last')
        BY <1>5, <2>1, <3>1
      <4> QED
        BY <1>2, <3>1, <4>1, <4>2, ClosedIs
  <2>2. CASE i # last - 1
    <3>1. last' = last /\ tbl' = [ClosedTbl(i) EXCEPT ![i].pid = NoPid]
      BY <1>1, <2>2 DEF FreeOrShrink
    <3>2. /\ tbl'[i].pid = NoPid /\ tbl'[i].chan = ClosedTbl(i)[i].chan
          /\ tbl'[i].just_respawn = ClosedTbl(i)[i].just_respawn
          /\ tbl'[i].detached = ClosedTbl(i)[i].detached
          /\ \A r \in Slots \ {i} : tbl'[r] = ClosedTbl(i)[r]
      BY <1>2, <3>1, ClosedIs DEF SlotType
    <3> QED
      BY <1>2, <3>1, <3>2, ClosedIs
  <2> QED
    BY <2>1, <2>2
<1>7. \A d \in Fds : fdmap'[d] = fdmap[d] \/ d = tbl[i].chan
  BY <1>1, <1>2, ClosedIs
<1> QED
  BY <1>1, <1>2, <1>3, <1>4, <1>6, <1>7 DEF Removed

LEMMA ControlIs ==
  ASSUME TypeOK, NoUpgrade,
         \/ StartDone \/ SignalDone \/ ReapDone \/ LoopTop \/ Wake \/ ExitTest \/ TimerStage
         \/ ReconfigureStage \/ RestartStage \/ ReopenStage \/ ChangeBinaryStage
         \/ NoAcceptStage
  PROVE  Control
<1> DEFINE Still == /\ UNCHANGED <<tbl, last, os, forks, fdmap, w, inbox, fatal>>
                    /\ fails' = fails \/ fails' = fails + 1
                    /\ i' = 0
<1>1. CASE StartDone
  <2>1. /\ Still /\ pc \in StartSites /\ i = Workers /\ pc' = After[pc]
        /\ live' = TRUE /\ flags' = flags
    BY <1>1 DEF StartDone, NoUpgrade, worker, bounds
  <2>2. pc \in Starting \/ pc = "boot"
    BY <2>1 DEF NoUpgrade, StartSites, Starting
  <2>3. CASE pc \in Starting
    <3>1. pc' \in Telling
      BY <2>1, <2>3 DEF Starting, After, Telling
    <3> QED
      BY <2>1, <2>3, <3>1 DEF Control
  <2>4. CASE pc = "boot"
    <3>1. pc' = "top"
      BY <2>1, <2>4 DEF After
    <3> QED
      BY <2>1, <2>4, <3>1 DEF Control
  <2> QED
    BY <2>2, <2>3, <2>4
<1>2. CASE SignalDone
  <2>1. /\ Still /\ pc \in SignalSites /\ i >= last /\ pc' = After[pc]
        /\ live' = live /\ flags' = flags
    BY <1>2 DEF SignalDone, kernel, worker, bounds
  <2>2. CASE pc \in Telling
    <3>1. pc' \in {"reconfigure", "restart"}
      BY <2>1, <2>2 DEF After, Telling
    <3> QED
      BY <2>1, <2>2, <3>1 DEF Control
  <2>3. CASE pc \notin Telling
    <3>1. pc \in Plain /\ pc' \in Plain /\ pc' \notin Halts /\ pc' # "exited"
      BY <2>1, <2>3 DEF SignalSites, After, Telling, Plain, Halts
    <3> QED
      BY <2>1, <3>1 DEF Control
  <2> QED
    BY <2>2, <2>3
<1>3. CASE ReapDone
  BY <1>3 DEF ReapDone, Control, kernel, worker, bounds
<1>4. CASE LoopTop
  BY <1>4 DEF LoopTop, Goto, Control, worker, bounds
<1>5. CASE Wake
  <2>1. Still /\ pc = "wake" /\ flags' = flags \ {"reap"}
    BY <1>5 DEF Wake, Goto, kernel, worker, bounds
  <2>2. flags \cap Halting \subseteq flags'
    BY <2>1 DEF Halting
  <2>3. /\ "reap" \in flags => pc' = "reap" /\ live' = FALSE
        /\ "reap" \notin flags => pc' = "exit_test" /\ live' = live
    BY <1>5 DEF Wake, Goto
  <2> QED
    BY <2>1, <2>2, <2>3 DEF Control
<1>6. CASE ExitTest
  <2>1. Still /\ pc = "exit_test" /\ flags' = flags /\ live' = live
    BY <1>6 DEF ExitTest, Goto, kernel, worker, bounds
  <2>2. \/ pc' = "exited" /\ live = FALSE
        \/ pc' \in {"kill_signal", "term_signal", "quit_signal"} /\ flags \cap Halting # {}
        \/ pc' = "timer"
    BY <1>6 DEF ExitTest, Goto, Halting
  <2>3. /\ pc \in Plain /\ pc' \in Plain \cup {"exited"}
        /\ pc' = "exited" => live = FALSE
        /\ pc' \in Halts => flags' \cap Halting # {}
    BY <2>1, <2>2 DEF Plain, Halts
  <2> QED
    BY <2>1, <2>3 DEF Control
<1>7. CASE TimerStage \/ RestartStage \/ ReopenStage \/ ReconfigureStage \/ ChangeBinaryStage
  <2>0. "restart" \notin flags /\ "change_binary" \notin flags /\ new_binary = 0
    BY DEF NoUpgrade
  <2>1. /\ Still /\ live' = live /\ flags' = flags \ {pc}
        /\ pc \in {"timer", "restart", "reopen", "reconfigure", "change_binary"}
    BY <1>7, <2>0 DEF TimerStage, RestartStage, ReopenStage, ReconfigureStage,
                      ChangeBinaryStage, Stage, Goto, kernel, worker, bounds
  <2>2. flags \cap Halting \subseteq flags'
    BY <2>1 DEF Halting
  <2>3. \/ pc \in {"timer", "reconfigure"} /\ pc' \in Starting
        \/ pc' \in {"reconfigure", "restart", "top", "reopen", "reopen_signal",
                    "change_binary", "noaccept"}
    BY <1>7, <2>0 DEF TimerStage, RestartStage, ReopenStage, ReconfigureStage,
                      ChangeBinaryStage, Stage, Goto, Starting
  <2>4. CASE pc \in {"timer", "reconfigure"} /\ pc' \in Starting
    BY <2>1, <2>2, <2>4 DEF Control
  <2>5. CASE pc' \in {"reconfigure", "restart", "top", "reopen", "reopen_signal",
                      "change_binary", "noaccept"}
    <3>1. pc \in Plain /\ pc' \in Plain /\ pc' \notin Halts /\ pc' # "exited"
      BY <2>1, <2>5 DEF Plain, Halts
    <3> QED
      BY <2>1, <2>2, <3>1 DEF Control
  <2> QED
    BY <2>3, <2>4, <2>5
<1>8. CASE NoAcceptStage
  <2>1. /\ Still /\ pc = "noaccept" /\ live' = live
        /\ flags' = flags \/ flags' = (flags \ {"noaccept"}) \cup {"noaccepting"}
        /\ pc' = "top" \/ (pc' = "noaccept_signal" /\ "noaccepting" \in flags')
    BY <1>8 DEF NoAcceptStage, Goto, kernel, worker, bounds
  <2>2. flags \cap Halting \subseteq flags' /\ ("noaccepting" \in flags' => flags' \cap Halting # {})
    BY <2>1 DEF Halting
  <2>3. pc \in Plain /\ pc' \in Plain /\ pc' # "exited" /\ "top" \notin Halts
    BY <2>1 DEF Plain, Halts
  <2> QED
    BY <2>1, <2>2, <2>3 DEF Control
<1> QED
  BY <1>1, <1>2, <1>3, <1>4, <1>5, <1>6, <1>7, <1>8

LEMMA SignalledIs ==
  ASSUME NEW sig, Deliver(sig)
  PROVE  Signalled
<1>1. /\ UNCHANGED <<last, forks, fdmap, w, inbox, fatal, fails, i, live>>
      /\ pc \in {"suspend", "wake"} /\ pc' = "wake"
  BY DEF Deliver, worker, bounds
<1>2. GetStatus \/ (UNCHANGED <<tbl, os>> /\ flags \subseteq flags')
  BY DEF Deliver
<1>3. flags \subseteq flags'
  BY <1>2 DEF GetStatus
<1> QED
  BY <1>1, <1>2, <1>3 DEF Signalled

LEMMA TailKeeps ==
  ASSUME NEW q \in Seq(Commands), q # <<>>, NoQuit(q)
  PROVE  NoQuit(Tail(q)) /\ Head(q) # "quit"
<1>1. Len(q) \in Nat \ {0} /\ Len(Tail(q)) = Len(q) - 1
      /\ \A k \in 1 .. Len(q) - 1 : Tail(q)[k] = q[k + 1]
  BY EmptySeq, HeadTailProperties
<1>2. Head(q) = q[1] /\ 1 \in 1 .. Len(q)
  BY <1>1, HeadTailProperties
<1>3. ASSUME NEW k \in 1 .. Len(Tail(q)) PROVE Tail(q)[k] # "quit"
  <2>1. k \in 1 .. Len(q) - 1 /\ k + 1 \in 1 .. Len(q)
    BY <1>1
  <2> QED
    BY <1>1, <2>1 DEF NoQuit
<1> QED
  BY <1>2, <1>3 DEF NoQuit

LEMMA BackgroundIs ==
  ASSUME TypeOK,
         \/ UNCHANGED vars \/ ShortAlarm \/ TenDays \/ \E sig \in Requests : Request(sig)
         \/ \E p \in Pids : WorkerLoop(p) \/ WorkerFatal(p) \/ Crash(p)
  PROVE  Background
<1> DEFINE Quiet(p) ==
             /\ os'[p] = "unborn" <=> os[p] = "unborn"
             /\ os'[p] = "reaped" <=> os[p] = "reaped"
             /\ os[p] = "unborn" => inbox'[p] = inbox[p]
             /\ "quit" \notin w[p] /\ NoQuit(inbox[p]) =>
                  "quit" \notin w'[p] /\ NoQuit(inbox'[p])
<1>0. inbox \in [Pids -> Seq(Commands)] /\ os \in [Pids -> OsStates]
      /\ w \in [Pids -> SUBSET {"quit", "terminate", "reopen", "exiting"}]
  BY DEF TypeOK
<1>1. CASE UNCHANGED <<master, fdmap, os, fatal, worker, forks, fails>>
  BY <1>1 DEF Background, master, worker
<1>2. CASE UNCHANGED vars \/ ShortAlarm \/ TenDays \/ \E sig \in Requests : Request(sig)
  BY <1>1, <1>2 DEF vars, ShortAlarm, TenDays, Request, kernel, bounds
<1>3. ASSUME NEW p \in Pids, WorkerLoop(p) \/ WorkerFatal(p) \/ Crash(p)
      PROVE  Background
  <2>1. \A q \in Pids \ {p} : os'[q] = os[q] /\ w'[q] = w[q] /\ inbox'[q] = inbox[q]
    BY <1>0, <1>3 DEF WorkerLoop, WorkerReady, ChannelHandler, WorkerExit, WorkerQuit,
                      WorkerReopen, WorkerFatal, Crash, Dies, kernel, worker
  <2>2. /\ UNCHANGED <<tbl, last, flags, live, pc, i, fdmap, forks, fails>>
        /\ fatal \subseteq fatal'
    BY <1>3 DEF WorkerLoop, WorkerReady, ChannelHandler, WorkerExit, WorkerQuit,
                WorkerReopen, WorkerFatal, Crash, Dies, master, kernel, bounds
  <2>3. os[p] \in {"starting", "running", "binary"} /\ os'[p] \in {"running", "binary", "zombie"}
    BY <1>0, <1>3 DEF WorkerLoop, WorkerReady, ChannelHandler, WorkerExit, WorkerQuit,
                WorkerReopen, WorkerFatal, Crash, Dies, kernel, Alive
  <2>4. \/ w'[p] = w[p] /\ inbox'[p] = inbox[p]
        \/ w'[p] = {} /\ inbox'[p] = <<>>
        \/ w'[p] = (w[p] \ {"quit"}) \cup {"exiting"} /\ inbox'[p] = inbox[p]
        \/ w'[p] = w[p] \ {"reopen"} /\ inbox'[p] = inbox[p]
        \/ /\ inbox[p] # <<>> /\ inbox'[p] = Tail(inbox[p])
           /\ w'[p] = w[p] \cup ({Head(inbox[p])} \ {"open", "close"})
    BY <1>0, <1>3 DEF WorkerLoop, WorkerReady, ChannelHandler, WorkerExit, WorkerQuit,
                WorkerReopen, WorkerFatal, Crash, Dies, kernel, worker
  <2>5. NoQuit(<<>>)
    BY DEF NoQuit
  <2>6. "quit" \notin w[p] /\ NoQuit(inbox[p]) => "quit" \notin w'[p] /\ NoQuit(inbox'[p])
    <3> SUFFICES ASSUME "quit" \notin w[p], NoQuit(inbox[p])
                 PROVE  "quit" \notin w'[p] /\ NoQuit(inbox'[p])
      OBVIOUS
    <3>1. inbox[p] # <<>> => NoQuit(Tail(inbox[p])) /\ Head(inbox[p]) # "quit"
      BY <1>0, TailKeeps
    <3> QED
      BY <2>4, <2>5, <3>1
  <2>7. Quiet(p)
    BY <2>3, <2>6
  <2>8. \A q \in Pids \ {p} : Quiet(q)
    BY <2>1
  <2> QED
    BY <2>2, <2>7, <2>8 DEF Background
<1> QED
  BY <1>2, <1>3

LEMMA PassedIs ==
  ASSUME TypeOK, NoUpgrade, ReapSkip
  PROVE  Passed
<1>1. i \in Slots
  BY ProcessCycleAssumption DEF ReapSkip, TypeOK, Slots
<1>2. tbl[i].detached = FALSE /\ live \in BOOLEAN /\ tbl[i] \in SlotType
  BY <1>1 DEF NoUpgrade, TypeOK
<1>3. live' = FALSE => live = FALSE /\ tbl[i].pid = NoPid
  BY <1>2 DEF ReapSkip, SlotType
<1> QED
  BY <1>1, <1>2, <1>3 DEF ReapSkip, Passed, kernel, worker, bounds, SlotType

LEMMA LeftIs ==
  ASSUME TypeOK, NoUpgrade, SkipSlot
  PROVE  Left
<1>1. /\ pc \in SignalSites /\ i < last /\ Skipped(i) /\ i' = i + 1
      /\ UNCHANGED <<last, live, pc, fdmap, fatal, forks, fails, flags, os, w, inbox>>
  BY DEF SkipSlot, kernel, worker, bounds
<1>2. i \in Slots
  BY <1>1, ProcessCycleAssumption DEF TypeOK, Slots
<1>3. tbl[i].detached = FALSE /\ tbl[i] \in SlotType /\ tbl \in [Slots -> SlotType]
  BY <1>2 DEF NoUpgrade, TypeOK
<1> DEFINE b == tbl[i].just_respawn /\ tbl[i].pid = NoPid
<1>4. tbl' = [tbl EXCEPT ![i].just_respawn = b]
  BY <1>2, <1>3 DEF SkipSlot
<1>5. /\ InTable(i) => b = FALSE
      /\ ~InTable(i) => b = tbl[i].just_respawn
  BY <1>1, <1>3 DEF InTable, SlotType
<1> HIDE DEF b
<1>6. /\ \A r \in Slots \ {i} : tbl'[r] = tbl[r]
      /\ tbl'[i].pid = tbl[i].pid /\ tbl'[i].chan = tbl[i].chan
      /\ tbl'[i].respawn = tbl[i].respawn /\ tbl'[i].detached = tbl[i].detached
      /\ tbl'[i].exited = tbl[i].exited /\ tbl'[i].exiting = tbl[i].exiting
      /\ tbl'[i].just_respawn = b
  BY <1>2, <1>3, <1>4 DEF SlotType
<1>7. InTable(i) => tbl[i].just_respawn \/ (tbl[i].exiting /\ pc # "reopen_signal")
  <2>1. Command["reopen_signal"] = "reopen"
    BY DEF Command
  <2> QED
    BY <1>1, <1>3, <2>1 DEF Skipped, InTable
<1>8. Met
  BY <1>1, <1>2, <1>6 DEF Met
<1> QED
  BY <1>1, <1>5, <1>6, <1>7, <1>8 DEF Left

\* A slot that a signal is sent to.
LEMMA NotSkipped ==
  ASSUME TypeOK, pc \in SignalSites, i < last, ~Skipped(i)
  PROVE  i \in Slots /\ InTable(i) /\ tbl[i].just_respawn = FALSE
<1>1. i \in Slots
  BY ProcessCycleAssumption DEF TypeOK, Slots
<1>2. tbl[i].just_respawn \in BOOLEAN
  BY <1>1 DEF TypeOK, SlotType
<1> QED
  BY <1>1, <1>2 DEF Skipped, InTable

LEMMA ExitingIs ==
  ASSUME TypeOK, NEW s \in Slots, Exiting(s)
  PROVE  /\ \A r \in Slots \ {s} : tbl'[r] = tbl[r]
         /\ tbl'[s].pid = tbl[s].pid /\ tbl'[s].chan = tbl[s].chan
         /\ tbl'[s].detached = tbl[s].detached
         /\ tbl'[s].respawn = tbl[s].respawn /\ tbl'[s].exited = tbl[s].exited
         /\ tbl'[s].just_respawn = tbl[s].just_respawn
         /\ tbl'[s].exiting = (tbl[s].exiting \/ pc # "reopen_signal")
BY DEF TypeOK, SlotType, Exiting

LEMMA CommandIs ==
  ASSUME TypeOK, CommandSlot
  PROVE  Marked
<1>1. /\ pc \in SignalSites /\ i < last /\ ~Skipped(i) /\ i' = i + 1
      /\ UNCHANGED <<last, live, pc, fdmap, fatal, forks, fails, flags, os, w>>
      /\ Exiting(i) /\ WriteOK(tbl[i].chan)
      /\ inbox' = Written(inbox, fdmap[tbl[i].chan], Command[pc])
  BY DEF CommandSlot, kernel, bounds
<1>2. i \in Slots /\ InTable(i) /\ tbl[i].just_respawn = FALSE
  BY <1>1, NotSkipped
<1>3. /\ \A r \in Slots \ {i} : tbl'[r] = tbl[r]
      /\ tbl'[i].pid = tbl[i].pid /\ tbl'[i].chan = tbl[i].chan
      /\ tbl'[i].detached = tbl[i].detached
      /\ tbl'[i].respawn = tbl[i].respawn /\ tbl'[i].exited = tbl[i].exited
      /\ tbl'[i].just_respawn = tbl[i].just_respawn
      /\ tbl'[i].exiting = (tbl[i].exiting \/ pc # "reopen_signal")
  BY <1>1, <1>2, ExitingIs
<1>4. inbox \in [Pids -> Seq(Commands)] /\ tbl[i].chan # NoFd
  BY <1>1 DEF TypeOK, WriteOK
<1>5. \A p \in Pids : inbox'[p] = inbox[p]
                        \/ (Alive(p) /\ tbl[i].chan # NoFd /\ p = fdmap[tbl[i].chan])
  BY <1>1, <1>4 DEF Written
<1>6. Met
  BY <1>1, <1>2, <1>3 DEF Met
<1> QED
  BY <1>1, <1>2, <1>3, <1>5, <1>6 DEF Marked

LEMMA KillIs ==
  ASSUME TypeOK, KillSlot
  PROVE  Marked
<1>1. /\ pc \in SignalSites /\ i < last /\ ~Skipped(i) /\ i' = i + 1
      /\ UNCHANGED <<last, live, pc, fdmap, fatal, forks, fails, inbox>>
  BY DEF KillSlot, bounds
<1>2. i \in Slots /\ InTable(i) /\ tbl[i].just_respawn = FALSE
  BY <1>1, NotSkipped
<1>3. CASE os[tbl[i].pid] # "reaped"
  <2>1. Kill(tbl[i].pid) /\ Exiting(i) /\ flags' = flags
    BY <1>3 DEF KillSlot
  <2>2. /\ \A r \in Slots \ {i} : tbl'[r] = tbl[r]
        /\ tbl'[i].pid = tbl[i].pid /\ tbl'[i].chan = tbl[i].chan
        /\ tbl'[i].detached = tbl[i].detached
      /\ tbl'[i].respawn = tbl[i].respawn /\ tbl'[i].exited = tbl[i].exited
        /\ tbl'[i].just_respawn = tbl[i].just_respawn
        /\ tbl'[i].exiting = (tbl[i].exiting \/ pc # "reopen_signal")
    BY <1>2, <2>1, ExitingIs
  <2>3. \A p \in Pids : /\ os'[p] = os[p] \/ (Alive(p) /\ os'[p] = "zombie")
                        /\ w'[p] = w[p] \/ p = tbl[i].pid
    BY <2>1 DEF Kill, TypeOK
  <2>4. Met
    BY <1>1, <1>2, <2>2 DEF Met
  <2> QED
    BY <1>1, <1>2, <2>1, <2>2, <2>3, <2>4 DEF Marked
<1>4. CASE os[tbl[i].pid] = "reaped"
  <2>1. /\ tbl' = [tbl EXCEPT ![i].exited = TRUE, ![i].exiting = FALSE]
        /\ flags' = flags \cup {"reap"} /\ UNCHANGED <<os, w>>
    BY <1>4 DEF KillSlot
  <2>2. tbl \in [Slots -> SlotType] /\ tbl[i] \in SlotType
    BY <1>2 DEF TypeOK
  <2>3. /\ \A r \in Slots \ {i} : tbl'[r] = tbl[r]
        /\ tbl'[i].pid = tbl[i].pid /\ tbl'[i].chan = tbl[i].chan
        /\ tbl'[i].detached = tbl[i].detached
        /\ tbl'[i].respawn = tbl[i].respawn /\ tbl'[i].just_respawn = tbl[i].just_respawn
    BY <1>2, <2>1, <2>2 DEF SlotType
  <2>4. Met
    BY <1>1, <1>2, <2>3 DEF Met
  <2> QED
    BY <1>1, <1>2, <1>4, <2>1, <2>3, <2>4 DEF Marked
<1> QED
  BY <1>3, <1>4

Effects ==
  \/ Control \/ Signalled \/ Background \/ Started \/ Respawned \/ Removed \/ Passed
  \/ Left \/ Marked

LEMMA StepIs ==
  ASSUME TypeOK, TableInv, NoUpgrade, [Next]_vars
  PROVE  Effects
<1>1. CASE \/ StartDone \/ SignalDone \/ ReapDone \/ LoopTop \/ Wake \/ ExitTest \/ TimerStage
           \/ ReconfigureStage \/ RestartStage \/ ReopenStage \/ ChangeBinaryStage
           \/ NoAcceptStage
  BY <1>1, ControlIs, Zenon DEF Effects
<1>2. CASE StartWorker
  BY <1>2, StartIs, Zenon DEF Effects
<1>3. CASE SkipSlot
  BY <1>3, LeftIs, Zenon DEF Effects
<1>4. CASE CommandSlot \/ KillSlot
  BY <1>4, CommandIs, KillIs, Zenon DEF Effects
<1>5. CASE ReapSkip
  BY <1>5, PassedIs, Zenon DEF Effects
<1>6. CASE ReapRespawn
  BY <1>6, RespawnIs, Zenon DEF Effects
<1>7. CASE ReapRemove
  BY <1>7, RemoveIs, Zenon DEF Effects
<1>8. ASSUME NEW sig, Deliver(sig) PROVE Effects
  BY <1>8, SignalledIs, Zenon DEF Effects
<1>9. CASE \/ UNCHANGED vars \/ ShortAlarm \/ TenDays \/ \E sig \in Requests : Request(sig)
           \/ \E p \in Pids : WorkerLoop(p) \/ WorkerFatal(p) \/ Crash(p)
  BY <1>9, BackgroundIs, Zenon DEF Effects
<1> QED
  BY <1>1, <1>2, <1>3, <1>4, <1>5, <1>6, <1>7, <1>8, <1>9, Zenon DEF Next, MasterStep

-----------------------------------------------------------------------------
(* Without upgrades no slot is ever detached.                              *)

\* waitpid() marks the rows of the children that have died.
LEMMA StatusIs ==
  ASSUME TypeOK, GetStatus, NEW s \in Slots
  PROVE  /\ tbl'[s].pid = tbl[s].pid /\ tbl'[s].chan = tbl[s].chan
         /\ tbl'[s].exiting = tbl[s].exiting /\ tbl'[s].detached = tbl[s].detached
         /\ tbl'[s].just_respawn = tbl[s].just_respawn
         /\ tbl'[s].exited # tbl[s].exited => "reap" \in flags'
         /\ tbl[s].pid \notin fatal => tbl'[s].respawn = tbl[s].respawn
<1>1. tbl[s] \in SlotType
  BY DEF TypeOK
<1> DEFINE b == tbl[s].respawn /\ tbl[s].pid \notin fatal
<1>2. b \in BOOLEAN /\ (tbl[s].pid \notin fatal => b = tbl[s].respawn)
  BY <1>1 DEF SlotType
<1>3. tbl'[s] = tbl[s] \/ tbl'[s] = [tbl[s] EXCEPT !.exited = TRUE, !.respawn = b]
  BY DEF GetStatus
<1>4. "reap" \in flags'
  BY DEF GetStatus
<1> HIDE DEF b
<1> QED
  BY <1>1, <1>2, <1>3, <1>4 DEF SlotType

LEMMA NoUpgradeStep ==
  ASSUME "change_binary" \notin Requests, TypeOK, TableInv, NoUpgrade, [Next]_vars
  PROVE  NoUpgrade'
<1>1. Effects
  BY StepIs
<1>2. \A s \in Slots : tbl'[s].detached = FALSE
  <2>0. \A s \in Slots : tbl[s].detached = FALSE
    BY DEF NoUpgrade
  <2>1. CASE Control \/ Background \/ Passed
    BY <2>0, <2>1 DEF Control, Background, Passed
  <2>2. CASE Signalled
    BY <2>0, <2>2, StatusIs DEF Signalled
  <2>3. CASE Started
    BY <2>0, <2>3 DEF Started, NoChild, Alike, Born, ChildIn
  <2>4. CASE Respawned
    BY <2>0, <2>4 DEF Respawned, Alike, ChildIn
  <2>5. CASE Removed \/ Left \/ Marked
    BY <2>0, <2>5 DEF Removed, Left, Marked, Met
  <2> QED
    BY <1>1, <2>1, <2>2, <2>3, <2>4, <2>5 DEF Effects
<1>3. /\ "change_binary" \notin flags /\ "change_binary" \notin pending /\ "restart" \notin flags
      /\ new_binary = 0 /\ pc \notin {"binary_start", "restart_start"}
  BY DEF NoUpgrade
<1> DEFINE Quiet == /\ "change_binary" \notin flags' /\ "change_binary" \notin pending'
                    /\ "restart" \notin flags' /\ new_binary' = 0
                    /\ pc' \notin {"binary_start", "restart_start"}
<1> SUFFICES Quiet
  BY <1>2 DEF NoUpgrade
<1>4. CASE UNCHANGED vars
  BY <1>3, <1>4 DEF vars, master, kernel
<1>5. CASE StartWorker \/ SkipSlot \/ CommandSlot \/ ReapSkip \/ ReapRespawn
  BY <1>3, <1>5 DEF StartWorker, SkipSlot, CommandSlot, ReapSkip, ReapRespawn, kernel
<1>6. CASE StartDone
  <2>1. pc' \notin {"binary_start", "restart_start"}
    BY <1>6 DEF StartDone, StartSites, After
  <2> QED
    BY <1>3, <1>6, <2>1 DEF StartDone
<1>7. CASE SignalDone
  <2>1. pc' \notin {"binary_start", "restart_start"}
    BY <1>7 DEF SignalDone, SignalSites, After
  <2> QED
    BY <1>3, <1>7, <2>1 DEF SignalDone, kernel
<1>8. CASE KillSlot
  <2>1. /\ flags' \subseteq flags \cup {"reap"} /\ pending' \subseteq pending \cup {"CHLD"}
        /\ UNCHANGED <<new_binary, pc>>
    BY <1>8 DEF KillSlot, Kill
  <2> QED
    BY <1>3, <2>1
<1>9. CASE ReapRemove
  <2>1. i \in Slots
    BY <1>9, ProcessCycleAssumption DEF ReapRemove, TypeOK, Slots
  <2>2. tbl[i].pid # 0
    BY <1>9, <2>1 DEF ReapRemove, TableInv, Rows
  <2> QED
    BY <1>3, <1>9, <2>2 DEF ReapRemove
<1>10. CASE ReapDone \/ LoopTop \/ Wake \/ ExitTest
  <2>1. /\ flags' \subseteq flags /\ pending' = pending /\ new_binary' = new_binary
        /\ pc' \notin {"binary_start", "restart_start"}
    BY <1>10 DEF ReapDone, LoopTop, Wake, ExitTest, Goto, kernel
  <2> QED
    BY <1>3, <2>1
<1>11. CASE TimerStage \/ ReconfigureStage \/ RestartStage \/ ReopenStage \/ NoAcceptStage
  <2>1. /\ flags' \subseteq flags \cup {"noaccepting"} /\ pending' = pending
        /\ new_binary' = new_binary
    BY <1>11 DEF TimerStage, ReconfigureStage, RestartStage, ReopenStage, NoAcceptStage,
                 Stage, kernel
  <2>2. pc' \notin {"binary_start", "restart_start"}
    BY <1>3, <1>11 DEF TimerStage, ReconfigureStage, RestartStage, ReopenStage,
                       NoAcceptStage, Stage, Goto
  <2> QED
    BY <1>3, <2>1, <2>2
<1>12. CASE ChangeBinaryStage
  BY <1>3, <1>12 DEF ChangeBinaryStage, Stage, Goto
<1>13. ASSUME NEW sig \in AdminSignals \cup {"CHLD", "ALRM"}, Deliver(sig) PROVE Quiet
  <2>1. sig \in pending /\ sig # "change_binary" /\ sig # "restart"
    BY <1>3, <1>13 DEF Deliver, AdminSignals
  <2>2. /\ flags' \subseteq flags \cup {"reap", "timer", sig}
        /\ pending' \subseteq pending /\ new_binary' = new_binary /\ pc' = "wake"
    BY <1>13 DEF Deliver, GetStatus
  <2> QED
    BY <1>3, <2>1, <2>2
<1>14. ASSUME NEW p \in Pids, WorkerLoop(p) \/ WorkerFatal(p) \/ Crash(p) PROVE Quiet
  <2>1. UNCHANGED master /\ pending' \subseteq pending \cup {"CHLD"}
    BY <1>14 DEF WorkerLoop, WorkerReady, ChannelHandler, WorkerExit, WorkerQuit,
                 WorkerReopen, WorkerFatal, Crash, Dies, kernel
  <2> QED
    BY <1>3, <2>1 DEF master
<1>15. ASSUME NEW sig \in Requests, Request(sig) PROVE Quiet
  BY <1>3, <1>15 DEF Request, master
<1>16. CASE ShortAlarm \/ TenDays
  BY <1>3, <1>16 DEF ShortAlarm, TenDays, master
<1> HIDE DEF Quiet
<1> QED
  BY <1>4, <1>5, <1>6, <1>7, <1>8, <1>9, <1>10, <1>11, <1>12, <1>13, <1>14, <1>15, <1>16,
     Zenon DEF Next, MasterStep

-----------------------------------------------------------------------------
(* The parts of the invariant that hold whatever calls fail.               *)

LEMMA Numbers ==
  ASSUME TypeOK
  PROVE  /\ last \in Nat /\ i \in Nat /\ forks \in Nat /\ fails \in Nat /\ Slots \subseteq Nat
         /\ \A s \in Slots : tbl[s].just_respawn \in BOOLEAN /\ tbl[s].exited \in BOOLEAN
                             /\ tbl[s].exiting \in BOOLEAN /\ tbl[s].respawn \in BOOLEAN
         /\ \A s \in Slots : tbl[s].chan \in Fds \cup {NoFd}
BY ProcessCycleAssumption DEF TypeOK, Slots, SlotType

\* Only the new child's row enters the table.
LEMMA BornIs ==
  ASSUME TypeOK, NEW s \in Slots, Born(s)
  PROVE  /\ ~InTable(s) /\ InTable(s)'
         /\ \A r \in Slots \ {s} : tbl'[r] = tbl[r] /\ (InTable(r)' <=> InTable(r))
BY Numbers DEF Born, ChildIn, InTable, NoPid

LEMMA NoneLeftStep ==
  ASSUME TypeOK, TableInv, NoneLeft, Effects
  PROVE  NoneLeft'
<1>0. last \in Nat /\ i \in Nat /\ Slots \subseteq Nat
  BY Numbers
<1> DEFINE Gone(s) == tbl[s].pid = NoPid \/ os[tbl[s].pid] = "reaped"
<1>1. /\ pc = "exited" => live = FALSE
      /\ live = FALSE /\ pc \notin StartSites =>
           \A s \in Slots : s < last /\ (pc = "reap" => s < i) => Gone(s)
  BY DEF NoneLeft
<1>2. \A s \in Slots : s < last /\ tbl[s].pid # NoPid => tbl[s].pid \in Pids
  BY PidIs
<1>3. CASE Control
  <2>1. UNCHANGED <<tbl, last, os>> /\ i' = 0
    BY <1>3 DEF Control
  <2>2. CASE live' = TRUE
    BY <1>3, <2>2 DEF Control, NoneLeft, Telling, Starting
  <2>3. CASE pc = "reap" /\ i >= last /\ pc' = "exit_test" /\ live' = live
    BY <1>0, <1>1, <2>1, <2>3 DEF NoneLeft, StartSites
  <2>4. CASE pc = "wake" /\ pc' = "reap" /\ live' = FALSE
    <3>1. \A s \in Slots : ~(s < i')
      BY <1>0, <2>1
    <3> QED
      BY <2>4, <3>1 DEF NoneLeft
  <2>5. CASE pc' \in Starting
    BY <2>5 DEF NoneLeft, Starting, StartSites
  <2>6. CASE /\ pc \notin StartSites \cup {"reap"} /\ pc' \notin {"exited", "reap"}
             /\ live' = live
    BY <1>1, <2>1, <2>6 DEF NoneLeft
  <2>7. CASE pc \in Plain /\ pc' = "exited" /\ live' = live /\ live = FALSE
    BY <1>1, <2>1, <2>7 DEF NoneLeft, Plain, Halts, StartSites
  <2> QED
    BY <1>3, <2>2, <2>3, <2>4, <2>5, <2>6, <2>7
       DEF Control, Plain, Halts, Telling, StartSites
<1>4. CASE Signalled
  <2>1. \A s \in Slots : tbl'[s].pid = tbl[s].pid
    BY <1>4, StatusIs DEF Signalled
  <2>2. \A p \in Pids : os[p] = "reaped" => os'[p] = "reaped"
    BY <1>4 DEF Signalled, GetStatus
  <2> QED
    BY <1>1, <1>2, <1>4, <2>1, <2>2 DEF Signalled, NoneLeft, StartSites
<1>5. CASE Background
  BY <1>1, <1>2, <1>5 DEF Background, NoneLeft
<1>6. CASE Started
  BY <1>1, <1>6 DEF Started, NoneLeft
<1>7. CASE Respawned
  <2>1. CASE live' = TRUE
    BY <1>7, <2>1 DEF Respawned, NoneLeft
  <2>2. CASE live' # TRUE
    <3>1. /\ pc = "reap" /\ i \in Slots /\ InTable(i) /\ tbl[i].exited /\ i' = i + 1
          /\ UNCHANGED <<pc, last, os, live>> /\ \A r \in Slots : tbl'[r].pid = tbl[r].pid
      BY <1>7, <2>2 DEF Respawned, Alike
    <3>2. Gone(i)
      BY <3>1 DEF TableInv, Rows, InTable
    <3> QED
      BY <1>0, <1>1, <3>1, <3>2 DEF NoneLeft, StartSites
  <2> QED
    BY <2>1, <2>2
<1>8. CASE Removed
  BY <1>0, <1>1, <1>8 DEF Removed, NoneLeft, StartSites
<1>9. CASE Passed
  BY <1>0, <1>1, <1>9 DEF Passed, NoneLeft, StartSites
<1>10. CASE Left \/ Marked
  <2>1. Met /\ \A s \in Slots : tbl'[s].pid = tbl[s].pid
    BY <1>10 DEF Left, Marked, Met
  <2>2. \A p \in Pids : os[p] = "reaped" => os'[p] = "reaped"
    BY <1>10 DEF Left, Marked, Alive
  <2> QED
    BY <1>1, <1>2, <2>1, <2>2 DEF Met, NoneLeft, SignalSites, StartSites
<1> QED
  BY <1>3, <1>4, <1>5, <1>6, <1>7, <1>8, <1>9, <1>10 DEF Effects

LEMMA FreshStep ==
  ASSUME TypeOK, TypeOK', NoUpgrade, Fresh, Effects
  PROVE  Fresh'
<1>0. last \in Nat /\ i \in Nat /\ Slots \subseteq Nat
      /\ \A s \in Slots : tbl[s].just_respawn \in BOOLEAN
  BY Numbers
<1>1. \A s \in Slots : tbl[s].just_respawn =>
        /\ s < last /\ tbl[s].pid # NoPid
        /\ pc \in Starting \/ (pc \in Telling /\ s >= i)
  BY DEF Fresh, InTable
<1>2. ASSUME \A s \in Slots : tbl'[s].just_respawn = FALSE PROVE Fresh'
  BY <1>2 DEF Fresh
<1>3. CASE Control
  <2>1. CASE pc \in Starting
    BY <1>0, <1>1, <1>3, <2>1 DEF Control, Fresh, InTable, Starting, Plain, Halts, Telling
  <2>2. CASE pc \in Telling
    <3>1. i >= last /\ tbl' = tbl
      BY <1>3, <2>2 DEF Control, Starting, Plain, Halts, Telling
    <3>2. \A s \in Slots : tbl[s].just_respawn = FALSE
      BY <1>0, <1>1, <2>2, <3>1 DEF Starting, Telling
    <3> QED
      BY <1>2, <3>1, <3>2
  <2>3. CASE pc \notin Starting \cup Telling
    BY <1>0, <1>1, <1>2, <1>3, <2>3 DEF Control
  <2> QED
    BY <2>1, <2>2, <2>3
<1>4. CASE Signalled
  <2>1. \A s \in Slots : tbl'[s].just_respawn = tbl[s].just_respawn
    BY <1>4, StatusIs DEF Signalled
  <2> QED
    BY <1>0, <1>1, <1>2, <1>4, <2>1 DEF Signalled, Starting, Telling
<1>5. CASE Background
  BY <1>1, <1>5 DEF Background, Fresh, InTable
<1>6. CASE Started
  <2>1. CASE NoChild
    BY <1>0, <1>1, <1>6, <2>1
       DEF Started, NoChild, Alike, Fresh, InTable, Starting, Telling, StartSites
  <2>2. ASSUME NEW s \in Slots, Born(s) PROVE Fresh'
    <3>1. /\ InTable(s)' /\ \A r \in Slots \ {s} : tbl'[r] = tbl[r] /\ (InTable(r)' <=> InTable(r))
      BY <2>2, BornIs
    <3>2. pc' = pc /\ pc \notin Telling
      BY <1>6 DEF Started, StartSites, Telling
    <3>3. ASSUME NEW r \in Slots, tbl'[r].just_respawn PROVE InTable(r)' /\ pc \in Starting
      <4>1. CASE r = s
        BY <2>2, <3>1, <3>3, <4>1 DEF Born
      <4>2. CASE r # s
        BY <1>1, <3>1, <3>2, <3>3, <4>2 DEF InTable
      <4> QED
        BY <4>1, <4>2
    <3> QED
      BY <3>2, <3>3 DEF Fresh
  <2> QED
    BY <1>6, <2>1, <2>2 DEF Started
<1>7. CASE Respawned \/ Removed \/ Passed
  <2>1. \A s \in Slots : tbl'[s].just_respawn = tbl[s].just_respawn
    BY <1>7 DEF Respawned, Removed, Passed, Alike, ChildIn
  <2>2. pc = "reap"
    BY <1>7 DEF Respawned, Removed, Passed
  <2> QED
    BY <1>0, <1>1, <1>2, <2>1, <2>2 DEF Starting, Telling
<1>8. CASE Left \/ Marked
  <2>1. /\ pc' = pc /\ i' = i + 1 /\ i \in Slots /\ last' = last /\ pc \in SignalSites
        /\ \A r \in Slots \ {i} : tbl'[r] = tbl[r]
    BY <1>8 DEF Left, Marked, Met
  <2>2. tbl'[i].just_respawn = FALSE
    BY <1>0, <1>1, <1>8, <2>1 DEF Left, Marked, InTable
  <2>3. pc \notin Starting
    BY <2>1 DEF SignalSites, Starting
  <2>4. ASSUME NEW r \in Slots, tbl'[r].just_respawn
        PROVE  r < last /\ tbl'[r].pid # NoPid /\ pc \in Telling /\ r >= i + 1
    <3>1. r # i /\ tbl'[r] = tbl[r]
      BY <2>1, <2>2, <2>4
    <3> QED
      BY <1>0, <1>1, <2>1, <2>3, <2>4, <3>1
  <2> QED
    BY <2>1, <2>4 DEF Fresh, InTable
<1> QED
  BY <1>3, <1>4, <1>5, <1>6, <1>7, <1>8 DEF Effects

LEMMA UnbornStep ==
  ASSUME Unborn, Effects
  PROVE  Unborn'
<1>1. ASSUME \A p \in Pids : os'[p] = "unborn" => os[p] = "unborn",
             \A p \in Pids : os[p] = "unborn" => inbox'[p] = inbox[p]
      PROVE  Unborn'
  BY <1>1 DEF Unborn
<1>2. CASE Control \/ Background \/ Passed \/ Left
  BY <1>1, <1>2 DEF Control, Background, Passed, Left
<1>3. CASE Signalled
  BY <1>1, <1>3 DEF Signalled, GetStatus
<1>4. CASE Started \/ Respawned \/ Removed
  <2>1. \A p \in Pids : os'[p] = "unborn" => os[p] = "unborn"
    BY <1>4 DEF Started, Respawned, Removed, NoChild, Born, ChildIn
  <2> QED
    BY <1>1, <1>4, <2>1 DEF Started, Respawned, Removed, Announced
<1>5. CASE Marked
  BY <1>1, <1>5 DEF Marked, Alive
<1> QED
  BY <1>2, <1>3, <1>4, <1>5 DEF Effects

LEMMA StoppedStep ==
  ASSUME Stopped, Effects
  PROVE  Stopped'
<1>1. CASE Control
  BY <1>1 DEF Control, Stopped, Halts, Telling, Starting
<1>2. CASE Signalled \/ Background \/ Started \/ Respawned \/ Removed \/ Passed \/ Left
  BY <1>2 DEF Signalled, Background, Started, Respawned, Removed, Passed, Left, Met, Stopped,
              Halts
<1>3. CASE Marked
  <2>1. pc' = pc /\ flags \subseteq flags'
    BY <1>3 DEF Marked, Met
  <2> QED
    BY <2>1 DEF Stopped
<1> QED
  BY <1>1, <1>2, <1>3 DEF Effects

-----------------------------------------------------------------------------
(* The parts that hold while no call of the system has failed.             *)

LEMMA SweptStep ==
  ASSUME TypeOK, TableInv, Swept, Effects, fails' = 0
  PROVE  Swept'
<1>0. /\ last \in Nat /\ i \in Nat /\ Slots \subseteq Nat /\ fails \in Nat
      /\ \A s \in Slots : tbl[s].exited \in BOOLEAN
  BY Numbers
<1>1. \A s \in Slots : s < last /\ tbl[s].pid # NoPid /\ tbl[s].exited =>
        \/ pc \in {"suspend", "wake"} /\ "reap" \in flags
        \/ pc = "reap" /\ s >= i
  BY DEF Swept, InTable
<1>2. CASE Control
  <2>1. UNCHANGED <<tbl, last>> /\ i' = 0
    BY <1>2 DEF Control
  <2>2. CASE pc = "wake" /\ pc' = "reap"
    <3>1. \A s \in Slots : s >= i'
      BY <1>0, <2>1
    <3> QED
      BY <2>2, <3>1 DEF Swept
  <2>3. CASE pc = "wake" /\ "reap" \notin flags
    BY <1>1, <2>1, <2>3 DEF Swept, InTable
  <2>4. CASE pc = "reap" /\ i >= last
    BY <1>0, <1>1, <2>1, <2>4 DEF Swept, InTable
  <2>5. CASE pc \notin {"wake", "suspend", "reap"}
    BY <1>1, <2>1, <2>5 DEF Swept, InTable
  <2> QED
    BY <1>2, <2>2, <2>3, <2>4, <2>5 DEF Control, Plain, Halts, Starting, Telling
<1>3. CASE Signalled
  <2>1. ASSUME NEW s \in Slots PROVE /\ tbl'[s].pid = tbl[s].pid
                                     /\ tbl'[s].exited # tbl[s].exited => "reap" \in flags'
    BY <1>3, StatusIs DEF Signalled
  <2>2. last' = last /\ pc' = "wake" /\ pc # "reap" /\ flags \subseteq flags'
    BY <1>3 DEF Signalled
  <2> QED
    BY <1>1, <2>1, <2>2 DEF Swept, InTable
<1>4. CASE Background
  BY <1>1, <1>4 DEF Background, Swept, InTable
<1>5. CASE Started
  <2>1. CASE NoChild
    <3>1. tbl' = tbl /\ last' = last /\ pc' = pc /\ flags' = flags /\ pc # "reap"
      BY <1>0, <1>5, <2>1 DEF Started, NoChild, StartSites
    <3> QED
      BY <1>1, <3>1 DEF Swept, InTable
  <2>2. ASSUME NEW s \in Slots, Born(s) PROVE Swept'
    <3>1. \A r \in Slots \ {s} : tbl'[r] = tbl[r] /\ (InTable(r)' <=> InTable(r))
      BY <2>2, BornIs
    <3>2. tbl'[s].exited = FALSE /\ pc' = pc /\ pc \notin {"suspend", "wake", "reap"}
      BY <1>5, <2>2 DEF Born, ChildIn, Started, StartSites
    <3> QED
      BY <3>1, <3>2 DEF Swept
  <2> QED
    BY <1>5, <2>1, <2>2 DEF Started
<1>6. CASE Respawned
  <2>1. /\ pc = "reap" /\ pc' = pc /\ i \in Slots /\ i' = i + 1 /\ last' = last /\ ChildIn(i)
    BY <1>0, <1>6 DEF Respawned
  <2>2. tbl'[i].exited = FALSE /\ \A r \in Slots \ {i} : tbl'[r] = tbl[r]
    BY <2>1 DEF ChildIn
  <2> QED
    <3>1. ASSUME NEW s \in Slots, InTable(s)', tbl'[s].exited PROVE s >= i + 1
      <4>1. s # i /\ tbl'[s] = tbl[s]
        BY <2>2, <3>1
      <4> QED
        BY <1>0, <1>1, <2>1, <3>1, <4>1 DEF InTable
    <3> QED
      BY <2>1, <3>1 DEF Swept
<1>7. CASE Removed
  <2>1. /\ pc = "reap" /\ pc' = pc /\ i \in Slots /\ i' = i + 1
        /\ \A r \in Slots \ {i} : tbl'[r] = tbl[r] /\ (r < last' <=> r < last)
        /\ i < last' => tbl'[i].pid = NoPid
    BY <1>7 DEF Removed
  <2> QED
    BY <1>0, <1>1, <2>1 DEF Swept, InTable
<1>8. CASE Passed
  BY <1>0, <1>1, <1>8 DEF Passed, Swept, InTable
<1>9. CASE Left \/ Marked
  <2>1. /\ Met /\ pc \notin {"suspend", "wake", "reap"}
    BY <1>9 DEF Left, Marked, Met, SignalSites
  <2>2. ASSUME NEW s \in Slots PROVE ~InTable(s) \/ tbl[s].exited = FALSE
    BY <1>0, <1>1, <2>1 DEF InTable
  <2>3. tbl'[i].exited = tbl[i].exited
    <3>1. CASE Left
      BY <3>1 DEF Left
    <3>2. CASE Marked
      <4>1. InTable(i) /\ i \in Slots
        BY <3>2 DEF Marked, Met
      <4>2. os[tbl[i].pid] # "reaped"
        BY <2>2, <4>1 DEF TableInv, Rows, InTable
      <4> QED
        BY <3>2, <4>2 DEF Marked
    <3> QED
      BY <1>9, <3>1, <3>2
  <2> QED
    BY <2>1, <2>2, <2>3 DEF Met, Swept, InTable
<1> QED
  BY <1>2, <1>3, <1>4, <1>5, <1>6, <1>7, <1>8, <1>9 DEF Effects

LEMMA ChannelsStep ==
  ASSUME TypeOK, TableInv, Channels, Effects, fails' = 0
  PROVE  Channels'
<1>0. /\ last \in Nat /\ i \in Nat /\ Slots \subseteq Nat /\ fails \in Nat
      /\ \A s \in Slots : tbl[s].chan \in Fds \cup {NoFd}
  BY Numbers
<1>1. \A s \in Slots : tbl[s].chan # NoFd =>
        s < last /\ tbl[s].pid # NoPid /\ tbl[s].pid # 0 /\ fdmap[tbl[s].chan] = tbl[s].pid
  BY DEF Channels, InTable, TableInv, Rows
<1>2. CASE Control \/ Background \/ Passed
  BY <1>1, <1>2 DEF Control, Background, Passed, Channels, InTable
<1>3. CASE Signalled
  <2>1. \A s \in Slots : tbl'[s].pid = tbl[s].pid /\ tbl'[s].chan = tbl[s].chan
    BY <1>3, StatusIs DEF Signalled
  <2> QED
    BY <1>1, <1>3, <2>1 DEF Signalled, Channels, InTable
<1>4. CASE Left \/ Marked
  <2>1. /\ \A s \in Slots : tbl'[s].pid = tbl[s].pid /\ tbl'[s].chan = tbl[s].chan
        /\ UNCHANGED <<last, fdmap>>
    BY <1>4 DEF Left, Marked, Met
  <2> QED
    BY <1>1, <2>1 DEF Channels, InTable
\* A child's new channel in slot s, whose old channel is nobody else's.
<1>5. ASSUME NEW s \in Slots, ChildIn(s), s < last', last <= last', last' \in Int,
             \A r \in Slots \ {s} : tbl[r].chan # NoFd => tbl[r].chan # tbl[s].chan
      PROVE  Channels'
  <2>1. ASSUME NEW r \in Slots, tbl'[r].chan # NoFd
        PROVE  r < last' /\ tbl'[r].pid # NoPid /\ fdmap'[tbl'[r].chan] = tbl'[r].pid
    <3>1. CASE r = s
      BY <1>0, <1>5, <3>1, Numbers DEF ChildIn, NoPid
    <3>2. CASE r # s
      <4>1. tbl'[r] = tbl[r] /\ tbl[r].chan \in Fds /\ tbl[r].chan # tbl[s].chan
        BY <1>0, <1>5, <2>1, <3>2 DEF ChildIn
      <4>2. r < last /\ tbl[r].pid # NoPid /\ tbl[r].pid # 0 /\ fdmap[tbl[r].chan] = tbl[r].pid
        BY <1>1, <2>1, <4>1
      <4>3. fdmap'[tbl[r].chan] = fdmap[tbl[r].chan]
        BY <1>5, <4>1, <4>2 DEF ChildIn
      <4>4. r < last'
        <5>1. r \in Nat /\ last \in Nat
          BY <1>0
        <5> QED
          BY <1>5, <4>2, <5>1
      <4> QED
        BY <4>1, <4>2, <4>3, <4>4
    <3> QED
      BY <3>1, <3>2
  <2> QED
    BY <2>1 DEF Channels, InTable
<1>6. CASE Started
  <2>1. CASE NoChild
    BY <1>0, <1>1, <1>6, <2>1 DEF Started, NoChild, Channels, InTable
  <2>2. ASSUME NEW s \in Slots, Born(s) PROVE Channels'
    <3>1. tbl[s].chan = NoFd
      BY <1>0, <1>1, <2>2 DEF Born
    <3>2. ChildIn(s) /\ s < last' /\ last <= last' /\ last' \in Int
      BY <1>0, <2>2 DEF Born
    <3> QED
      BY <1>5, <3>1, <3>2
  <2> QED
    BY <1>6, <2>1, <2>2 DEF Started
<1>7. ASSUME NEW s \in Slots, InTable(s)
      PROVE  \A r \in Slots \ {s} : tbl[r].chan # NoFd => tbl[r].chan # tbl[s].chan
  BY <1>1, <1>7 DEF TableInv, Distinct, InTable
<1>8. CASE Respawned
  <2>1. i \in Slots /\ InTable(i) /\ ChildIn(i) /\ i < last' /\ last <= last'
        /\ last' \in Int
    BY <1>0, <1>8 DEF Respawned, InTable
  <2> QED
    BY <1>5, <1>7, <2>1
<1>9. CASE Removed
  <2>1. /\ i \in Slots /\ InTable(i) /\ tbl'[i].chan = NoFd
        /\ \A r \in Slots \ {i} : tbl'[r] = tbl[r] /\ (r < last' <=> r < last)
        /\ \A d \in Fds : fdmap'[d] = fdmap[d] \/ d = tbl[i].chan
    BY <1>9 DEF Removed
  <2>2. ASSUME NEW r \in Slots, tbl'[r].chan # NoFd
        PROVE  r < last' /\ tbl'[r].pid # NoPid /\ fdmap'[tbl'[r].chan] = tbl'[r].pid
    <3>1. r # i /\ tbl'[r] = tbl[r] /\ tbl[r].chan \in Fds /\ tbl[r].chan # tbl[i].chan
      BY <1>0, <1>7, <2>1, <2>2
    <3> QED
      BY <1>1, <2>1, <2>2, <3>1
  <2> QED
    BY <2>2 DEF Channels, InTable
<1> QED
  BY <1>2, <1>3, <1>4, <1>6, <1>8, <1>9 DEF Effects

LEMMA SparedStep ==
  ASSUME TypeOK, TableInv, Running, Fresh, Unborn, Channels, Spared, Effects, fails' = 0
  PROVE  Spared'
<1>0. /\ last \in Nat /\ i \in Nat /\ forks \in Nat /\ Slots \subseteq Nat /\ fails \in Nat
      /\ \A s \in Slots : tbl[s].just_respawn \in BOOLEAN
  BY Numbers
<1>1. ASSUME NEW s \in Slots, tbl[s].just_respawn
      PROVE  /\ InTable(s) /\ tbl[s].pid \in Pids /\ tbl[s].pid <= forks
             /\ "quit" \notin w[tbl[s].pid] /\ NoQuit(inbox[tbl[s].pid])
             /\ pc \in Starting \cup Telling
  BY <1>1, PidIs DEF Fresh, Spared, InTable, TableInv, Rows
<1>2. CASE Control
  BY <1>2 DEF Control, Spared
<1>3. CASE Signalled
  <2>1. ASSUME NEW s \in Slots PROVE /\ tbl'[s].pid = tbl[s].pid
                                     /\ tbl'[s].just_respawn = tbl[s].just_respawn
    BY <1>3, StatusIs DEF Signalled
  <2> QED
    BY <1>3, <2>1 DEF Signalled, Spared
<1>4. CASE Background
  BY <1>1, <1>4 DEF Background, Spared
<1>5. CASE Started
  <2>0. \A p \in Pids : NoQuit(inbox[p]) => NoQuit(inbox'[p])
    BY <1>5 DEF Started, Announced
  <2>1. CASE NoChild
    <3>1. tbl' = tbl /\ w' = w
      BY <1>0, <1>5, <2>1 DEF Started, NoChild
    <3> QED
      BY <1>1, <2>0, <3>1 DEF Spared
  <2>2. ASSUME NEW s \in Slots, Born(s) PROVE Spared'
    <3>1. ChildIn(s)
      BY <2>2 DEF Born
    <3>2. ASSUME NEW r \in Slots, r # s, tbl'[r].just_respawn
          PROVE  "quit" \notin w'[tbl'[r].pid] /\ NoQuit(inbox'[tbl'[r].pid])
      <4>1. tbl'[r] = tbl[r]
        BY <3>1, <3>2 DEF ChildIn
      <4>2. tbl[r].pid \in Pids \ {forks + 1}
        <5>1. tbl[r].pid \in Pids /\ tbl[r].pid <= forks
          BY <1>1, <3>2, <4>1
        <5> QED
          BY <1>0, <5>1, ProcessCycleAssumption DEF Pids
      <4> QED
        BY <1>1, <2>0, <3>1, <3>2, <4>1, <4>2 DEF ChildIn
    <3>3. ASSUME tbl'[s].just_respawn
          PROVE  "quit" \notin w'[tbl'[s].pid] /\ NoQuit(inbox'[tbl'[s].pid])
      <4>1. pc \in Starting
        BY <2>2, <3>3 DEF Born
      <4>2. "quit" \notin flags
        BY <4>1 DEF Running, Going, Starting, Stop
      <4>3. tbl'[s].pid = forks + 1 /\ forks + 1 \in Pids /\ "quit" \notin w'[forks + 1]
        BY <3>1, <4>2 DEF ChildIn
      <4>4. os[forks + 1] = "unborn"
        BY <1>0, <4>3 DEF TableInv, Forked
      <4>5. inbox'[forks + 1] = <<>>
        BY <1>5, <4>3, <4>4 DEF Unborn, Started, Announced
      <4> QED
        BY <4>3, <4>5 DEF NoQuit
    <3> QED
      BY <3>2, <3>3 DEF Spared
  <2> QED
    BY <1>5, <2>1, <2>2 DEF Started
<1>6. CASE Respawned \/ Removed \/ Passed
  <2>1. \A s \in Slots : tbl'[s].just_respawn = tbl[s].just_respawn
    BY <1>6 DEF Respawned, Removed, Passed, Alike, ChildIn
  <2>2. pc = "reap"
    BY <1>6 DEF Respawned, Removed, Passed
  <2>3. \A s \in Slots : tbl[s].just_respawn = FALSE
    BY <1>0, <1>1, <2>2 DEF Starting, Telling
  <2> QED
    BY <2>1, <2>3 DEF Spared
<1>7. CASE Left \/ Marked
  <2>1. /\ i \in Slots /\ \A r \in Slots \ {i} : tbl'[r] = tbl[r]
        /\ tbl'[i].pid = tbl[i].pid
    BY <1>7 DEF Left, Marked, Met
  <2>2. CASE Left
    <3>1. \A r \in Slots : tbl'[r].just_respawn => tbl[r].just_respawn
      BY <1>0, <2>1, <2>2 DEF Left
    <3> QED
      BY <1>1, <2>1, <2>2, <3>1 DEF Left, Spared
  <2>3. CASE Marked
    <3>1. InTable(i) /\ tbl'[i].just_respawn = FALSE
      BY <2>3 DEF Marked
    <3>2. ASSUME NEW r \in Slots, tbl'[r].just_respawn
          PROVE  "quit" \notin w'[tbl'[r].pid] /\ NoQuit(inbox'[tbl'[r].pid])
      <4>1. r # i /\ tbl'[r] = tbl[r]
        BY <2>1, <3>1, <3>2
      <4>2. tbl[r].pid # tbl[i].pid
        BY <1>1, <2>1, <3>1, <3>2, <4>1 DEF TableInv, Distinct, InTable
      <4>3. w'[tbl[r].pid] = w[tbl[r].pid]
        BY <1>1, <2>3, <3>2, <4>1, <4>2 DEF Marked
      <4>4. inbox'[tbl[r].pid] = inbox[tbl[r].pid]
        BY <1>1, <2>1, <2>3, <3>2, <4>1, <4>2 DEF Marked, Channels
      <4> QED
        BY <1>1, <3>2, <4>1, <4>3, <4>4
    <3> QED
      BY <3>2 DEF Spared
  <2> QED
    BY <1>7, <2>2, <2>3
<1> QED
  BY <1>2, <1>3, <1>4, <1>5, <1>6, <1>7 DEF Effects

-----------------------------------------------------------------------------
(* How many workers are meant to go on, and that one of them is served by.  *)

LEMMA CountedFinite == IsFiniteSet(Counted) /\ IsFiniteSet(Counted')
<1>1. IsFiniteSet(Slots)
  BY FS_Interval, ProcessCycleAssumption DEF Slots
<1>2. Counted \subseteq Slots /\ Counted' \subseteq Slots
  BY DEF Counted, Staying
<1> QED
  BY <1>1, <1>2, FS_Subset

LEMMA FewerCounted ==
  ASSUME Counted' \subseteq Counted
  PROVE  Cardinality(Counted') <= Cardinality(Counted)
         /\ Cardinality(Counted) \in Nat /\ Cardinality(Counted') \in Nat
BY CountedFinite, FS_Subset, FS_CardinalityType

LEMMA OneMoreCounted ==
  ASSUME NEW s, Counted' \subseteq Counted \cup {s}
  PROVE  Cardinality(Counted') <= Cardinality(Counted) + 1
         /\ Cardinality(Counted) \in Nat /\ Cardinality(Counted') \in Nat
<1>1. IsFiniteSet(Counted) /\ IsFiniteSet(Counted')
  BY CountedFinite
<1>2. /\ IsFiniteSet(Counted \cup {s}) /\ Cardinality(Counted) \in Nat
      /\ Cardinality(Counted') \in Nat
      /\ Cardinality(Counted \cup {s}) <= Cardinality(Counted) + 1
  <2>1. IsFiniteSet(Counted \cup {s})
        /\ Cardinality(Counted \cup {s}) =
             IF s \in Counted THEN Cardinality(Counted) ELSE Cardinality(Counted) + 1
    BY <1>1, FS_AddElement
  <2>2. Cardinality(Counted) \in Nat /\ Cardinality(Counted') \in Nat
    BY <1>1, FS_CardinalityType
  <2> QED
    BY <2>1, <2>2
<1>3. Cardinality(Counted') <= Cardinality(Counted \cup {s})
      /\ Cardinality(Counted \cup {s}) \in Nat
  BY <1>2, FS_Subset, FS_CardinalityType
<1> QED
  BY <1>2, <1>3

\* Slot s is counted.
In(s) == /\ s < last /\ tbl[s].pid # NoPid /\ ~tbl[s].detached /\ ~tbl[s].exiting
         /\ pc \in Starting => tbl[s].just_respawn
         /\ pc \in Telling => tbl[s].just_respawn \/ s < i

LEMMA CountedIs ==
  /\ Counted = {s \in Slots : In(s)} /\ Counted' = {s \in Slots : In(s)'}
BY DEF Counted, Staying, InTable, In

\* Outside a start of workers no slot becomes counted.
LEMMA CountShrinks ==
  ASSUME TypeOK, TypeOK', NoUpgrade, TableInv, Fresh, Swept, Effects, fails' = 0, ~Started,
         ~(pc' \in Starting /\ pc \notin Starting)
  PROVE  Counted' \subseteq Counted
<1>0. last \in Nat /\ i \in Nat /\ Slots \subseteq Nat /\ fails \in Nat
  BY Numbers
<1> SUFFICES ASSUME NEW s \in Slots, In(s)' PROVE In(s)
  BY CountedIs
<1>1. CASE Control
  <2>1. UNCHANGED <<tbl, last>> /\ i' = 0
    BY <1>1 DEF Control
  <2>2. s >= i' /\ (i >= last => (s < last => s < i))
    BY <1>0, <2>1
  <2> QED
    <3>1. CASE pc \in Starting
      <4>1. pc' \in Telling
        BY <1>1, <3>1 DEF Control, Starting, Telling, Plain, Halts
      <4>2. pc' \in Telling => ~(s < i')
        BY <1>0, <2>1
      <4> QED
        BY <2>1, <3>1, <4>1, <4>2 DEF In, Starting, Telling
    <3>2. CASE pc \in Telling
      <4>1. i >= last
        BY <1>1, <3>2 DEF Control, Starting, Telling, Plain, Halts
      <4> QED
        BY <2>1, <2>2, <3>2, <4>1 DEF In, Starting, Telling
    <3>3. CASE pc \notin Starting \cup Telling
      BY <2>1, <3>3 DEF In
    <3> QED
      BY <3>1, <3>2, <3>3
<1>2. CASE Signalled
  <2>1. /\ tbl'[s].pid = tbl[s].pid /\ tbl'[s].detached = tbl[s].detached
        /\ tbl'[s].exiting = tbl[s].exiting
    BY <1>2, StatusIs DEF Signalled
  <2> QED
    BY <1>2, <2>1 DEF Signalled, In, Starting, Telling
<1>3. CASE Background
  BY <1>3 DEF Background, In
<1>4. CASE Respawned
  BY <1>0, <1>4, Numbers DEF Respawned, ChildIn, InTable, In, Starting, Telling
<1>5. CASE Removed
  <2>1. s # i
    BY <1>5 DEF Removed, In
  <2> QED
    BY <1>5, <2>1 DEF Removed, In, Starting, Telling
<1>6. CASE Passed
  BY <1>6 DEF Passed, In, Starting, Telling
<1>7. CASE Left \/ Marked
  <2>1. /\ pc \in SignalSites /\ pc' = pc /\ last' = last /\ i' = i + 1 /\ i \in Slots
        /\ pc \notin Starting
        /\ \A r \in Slots \ {i} : tbl'[r] = tbl[r]
        /\ tbl'[i].pid = tbl[i].pid /\ tbl'[i].detached = tbl[i].detached
    BY <1>7 DEF Left, Marked, Met, SignalSites, Starting
  <2>2. CASE s # i
    <3>1. s < i + 1 => s < i
      BY <1>0, <2>1, <2>2
    <3> QED
      BY <2>1, <2>2, <3>1 DEF In
  <2>3. CASE s = i /\ Left
    <3>1. InTable(i) /\ tbl'[i].exiting = tbl[i].exiting
          /\ (tbl[i].just_respawn \/ (tbl[i].exiting /\ pc # "reopen_signal"))
      BY <2>1, <2>3 DEF Left, In, InTable
    <3> QED
      BY <2>1, <2>3, <3>1 DEF In, InTable
  <2>4. CASE s = i /\ Marked
    <3>1. InTable(i) /\ os[tbl[i].pid] # "reaped"
      <4>1. InTable(i) /\ pc \notin {"suspend", "wake", "reap"}
        BY <2>1, <2>4 DEF Marked, SignalSites
      <4> QED
        BY <2>1, <4>1 DEF Swept, TableInv, Rows, InTable
    <3>2. tbl'[i].exiting = (tbl[i].exiting \/ pc # "reopen_signal")
      BY <2>4, <3>1 DEF Marked
    <3> QED
      BY <2>1, <2>4, <3>2 DEF In, Telling
  <2> QED
    BY <1>7, <2>2, <2>3, <2>4
<1> QED
  BY <1>1, <1>2, <1>3, <1>4, <1>5, <1>6, <1>7 DEF Effects

LEMMA IndexStep ==
  ASSUME TypeOK, NoUpgrade, Effects, pc \in StartSites => i <= Workers
  PROVE  (pc \in StartSites => i <= Workers)'
<1>0. i \in Nat /\ Workers \in Nat
  BY Numbers, ProcessCycleAssumption
<1>1. CASE Control
  BY <1>0, <1>1 DEF Control
<1>2. CASE Signalled \/ Background \/ Respawned \/ Removed \/ Passed \/ Left \/ Marked
  BY <1>2 DEF Signalled, Background, Respawned, Removed, Passed, Left, Marked, Met,
              StartSites, SignalSites
<1>3. CASE Started
  BY <1>0, <1>3 DEF Started
<1> QED
  BY <1>1, <1>2, <1>3 DEF Effects

LEMMA FewStep ==
  ASSUME TypeOK, TypeOK', NoUpgrade, NoUpgrade', TableInv, Fresh, Fresh', Swept, Few, Effects,
         pc \in StartSites => i <= Workers, fails' = 0
  PROVE  Few'
<1>0. last \in Nat /\ i \in Nat /\ Slots \subseteq Nat /\ fails \in Nat /\ Workers \in Nat
  BY Numbers, ProcessCycleAssumption
<1> DEFINE S == Starting \cup {"boot"}
<1>1. CASE Started
  <2>1. pc \in S /\ pc' = pc /\ i' = i + 1
    BY <1>1 DEF Started, NoUpgrade, StartSites, Starting
  <2>2. ASSUME NEW s, Counted' \subseteq Counted \cup {s} PROVE Few'
    <3>1. /\ Cardinality(Counted') <= Cardinality(Counted) + 1
          /\ Cardinality(Counted) \in Nat /\ Cardinality(Counted') \in Nat
      BY <2>2, OneMoreCounted
    <3> QED
      BY <1>0, <2>1, <3>1 DEF Few
  <2>3. CASE NoChild
    <3>1. tbl' = tbl /\ last' = last
      BY <1>0, <1>1, <2>3 DEF Started, NoChild
    <3>2. \A s \in Slots : In(s)' => In(s)
      BY <2>1, <3>1 DEF In, Starting, Telling
    <3>3. Counted' \subseteq Counted \cup {0}
      BY <3>2, CountedIs
    <3> QED
      BY <2>2, <3>3
  <2>4. ASSUME NEW s \in Slots, Born(s) PROVE Few'
    <3>1. \A r \in Slots \ {s} : tbl'[r] = tbl[r] /\ (InTable(r)' <=> InTable(r))
      BY <2>4, BornIs
    <3>2. pc \notin Telling
      BY <2>1 DEF Starting, Telling
    <3>3. \A r \in Slots : In(r)' => In(r) \/ r = s
      BY <2>1, <3>1, <3>2 DEF In, InTable
    <3>4. Counted' \subseteq Counted \cup {s}
      BY <3>3, CountedIs
    <3> QED
      BY <2>2, <3>4
  <2> QED
    BY <1>1, <2>3, <2>4 DEF Started
<1>2. CASE pc' \in Starting /\ pc \notin Starting
  <2>1. Control
    BY <1>2 DEF Effects, Control, Signalled, Background, Started, Respawned, Removed, Passed,
                Left, Marked, Met, Starting
  <2>2. pc \notin Telling /\ tbl' = tbl /\ i' = 0
    BY <1>2, <2>1 DEF Control, Starting, Telling, Plain, Halts
  <2>3. \A s \in Slots : ~In(s)'
    BY <1>2, <2>2 DEF In, Fresh
  <2>4. Counted' = {}
    BY <2>3, CountedIs
  <2> QED
    BY <1>2, <2>2, <2>4, FS_EmptySet DEF Few
<1>3. CASE ~Started /\ ~(pc' \in Starting /\ pc \notin Starting)
  <2>1. Counted' \subseteq Counted
    BY <1>3, CountShrinks
  <2>2. /\ Cardinality(Counted') <= Cardinality(Counted)
        /\ Cardinality(Counted) \in Nat /\ Cardinality(Counted') \in Nat
    BY <2>1, FewerCounted
  <2>3. \/ pc \in S /\ pc' = pc /\ i' = i
        \/ pc \in S /\ i = Workers /\ pc' \notin S
        \/ pc \notin S /\ pc' \notin S
    BY <1>3 DEF Effects, Control, Signalled, Background, Respawned, Removed, Passed,
                Left, Marked, Met, Starting, Plain, Halts, SignalSites, Telling
  <2> QED
    BY <1>0, <2>2, <2>3 DEF Few
<1> QED
  BY <1>1, <1>2, <1>3

\* The worker that serves stays in the table and is not told to quit.
Serv(s) ==
  /\ s < last /\ tbl[s].pid # NoPid /\ ~tbl[s].detached /\ ~tbl[s].exiting
  /\ tbl[s].respawn

Someone == \E s \in Slots : Serv(s)
Counts  == \E s \in Slots : Serv(s) /\ In(s)

\* Serves, in terms of single slots.
Served ==
  fatal = {} /\ flags \cap Halting = {} =>
    /\ pc = "boot" => i = 0 \/ Someone
    /\ pc # "boot" => Someone
    /\ pc \in Starting => i = 0 \/ Counts
    /\ pc \in Telling => Counts

LEMMA ServesIs == (Serves <=> Served) /\ (Serves' <=> Served')
<1>1. (Serving # {} <=> Someone) /\ (Serving' # {} <=> Someone')
  BY DEF Serving, Staying, Serv, InTable, Someone
<1>2. (Serving \cap Counted # {} <=> Counts) /\ (Serving' \cap Counted' # {} <=> Counts')
  BY CountedIs DEF Serving, Staying, Serv, InTable, Counts
<1> QED
  BY <1>1, <1>2 DEF Serves, Served

LEMMA NobodyStops ==
  ASSUME Effects, fatal' = {}, flags' \cap Halting = {}
  PROVE  fatal = {} /\ flags \cap Halting = {}
<1>1. fatal \subseteq fatal'
  BY DEF Effects, Control, Signalled, Background, Started, Respawned, Removed, Passed, Left,
         Marked, Met
<1>2. flags \cap Halting \subseteq flags'
  BY DEF Effects, Control, Signalled, Background, Started, Respawned, Removed, Passed, Left,
         Marked, Met
<1> QED
  BY <1>1, <1>2

LEMMA ServKeeps ==
  ASSUME TypeOK, TypeOK', TableInv, Stopped, Swept, Effects, fails' = 0,
         fatal = {}, flags \cap Halting = {},
         NEW s \in Slots, Serv(s), pc \in Telling => In(s)
  PROVE  Serv(s)'
<1>0. last \in Nat /\ i \in Nat /\ Slots \subseteq Nat /\ fails \in Nat /\ forks \in Nat
  BY Numbers
<1>1. CASE Control \/ Background \/ Passed
  BY <1>1 DEF Control, Background, Passed, Serv
<1>2. CASE Signalled
  <2>1. /\ tbl'[s].pid = tbl[s].pid /\ tbl'[s].detached = tbl[s].detached
        /\ tbl'[s].exiting = tbl[s].exiting /\ tbl'[s].respawn = tbl[s].respawn
    BY <1>2, StatusIs DEF Signalled
  <2> QED
    BY <1>2, <2>1 DEF Signalled, Serv
<1>3. CASE Started
  <2>1. CASE NoChild
    <3>1. tbl' = tbl /\ last' = last
      BY <1>0, <1>3, <2>1 DEF Started, NoChild
    <3> QED
      BY <3>1 DEF Serv
  <2>2. ASSUME NEW r \in Slots, Born(r) PROVE Serv(s)'
    <3>1. s # r /\ tbl'[s] = tbl[s] /\ InTable(s)'
      BY <2>2, BornIs DEF Serv, InTable
    <3> QED
      BY <3>1 DEF Serv, InTable
  <2> QED
    BY <1>3, <2>1, <2>2 DEF Started
<1>4. CASE Respawned
  <2>1. ChildIn(i) /\ last' = last
    BY <1>0, <1>4 DEF Respawned
  <2>2. CASE s = i
    <3>1. tbl'[s].pid # NoPid
      BY <1>0, <2>1, <2>2 DEF ChildIn, NoPid
    <3>2. /\ tbl'[s].exiting = tbl[s].exiting /\ tbl'[s].respawn = tbl[s].respawn
          /\ tbl'[s].detached = tbl[s].detached
      BY <1>0, <1>4, <2>2 DEF Respawned
    <3> QED
      BY <2>1, <3>1, <3>2 DEF Serv
  <2>3. CASE s # i
    BY <2>1, <2>3 DEF ChildIn, Serv
  <2> QED
    BY <2>2, <2>3
<1>5. CASE Removed
  <2>1. s # i
    BY <1>5 DEF Removed, Respawnable, Serv, Halting
  <2> QED
    BY <1>5, <2>1 DEF Removed, Serv
<1>6. CASE Left \/ Marked
  <2>1. Met
    BY <1>6 DEF Left, Marked
  <2>2. CASE s # i
    BY <2>1, <2>2 DEF Met, Serv
  <2>3. CASE s = i /\ Left
    BY <2>1, <2>3 DEF Met, Left, Serv
  <2>4. CASE s = i /\ Marked
    <3>1. InTable(i) /\ i \in Slots /\ pc \in SignalSites /\ tbl[i].just_respawn = FALSE
      BY <2>1, <2>4 DEF Marked, Met
    <3>2. os[tbl[i].pid] # "reaped"
      BY <3>1 DEF Swept, TableInv, Rows, InTable, SignalSites
    <3>3. pc \notin Halts
      BY DEF Stopped
    <3>4. pc \notin Telling
      BY <1>0, <2>4, <3>1 DEF In, Telling, Starting
    <3>5. pc = "reopen_signal"
      BY <3>1, <3>3, <3>4 DEF SignalSites, Halts, Telling
    <3>6. tbl'[i].exiting = tbl[i].exiting
      BY <2>4, <3>2, <3>5, Numbers DEF Marked
    <3> QED
      BY <2>1, <2>4, <3>6 DEF Met, Serv
  <2> QED
    BY <1>6, <2>2, <2>3, <2>4
<1> QED
  BY <1>1, <1>2, <1>3, <1>4, <1>5, <1>6 DEF Effects

LEMMA InKeeps ==
  ASSUME TypeOK, TypeOK', Effects, fails' = 0, NEW s \in Slots, In(s), Serv(s)',
         pc \in Starting \/ (pc \in Telling /\ pc' = pc)
  PROVE  In(s)'
<1>0. last \in Nat /\ i \in Nat /\ Slots \subseteq Nat /\ fails \in Nat
  BY Numbers
<1> SUFFICES /\ pc' \in Starting => tbl'[s].just_respawn
             /\ pc' \in Telling => tbl'[s].just_respawn \/ s < i'
  BY DEF In, Serv
<1>1. CASE Control
  BY <1>1 DEF Control, In, Starting, Telling, Plain, Halts
<1>2. CASE Background
  BY <1>2 DEF Background, In
<1>3. CASE Started
  <2>1. CASE NoChild
    <3>1. tbl' = tbl
      BY <1>0, <1>3, <2>1 DEF Started, NoChild
    <3> QED
      BY <1>0, <1>3, <3>1 DEF Started, In, StartSites, Telling
  <2>2. ASSUME NEW r \in Slots, Born(r)
        PROVE  tbl'[s] = tbl[s]
    BY <2>2, BornIs DEF In, InTable
  <2> QED
    BY <1>0, <1>3, <2>1, <2>2 DEF Started, In, StartSites, Telling
<1>4. CASE Left \/ Marked
  <2>1. /\ Met /\ pc \in Telling /\ pc \notin Starting
    BY <1>4 DEF Left, Marked, Met, SignalSites, Starting
  <2>2. CASE s # i
    BY <1>0, <2>1, <2>2 DEF Met, In
  <2>3. CASE s = i
    BY <1>0, <2>1, <2>3 DEF Met
  <2> QED
    BY <2>2, <2>3
<1> QED
  BY <1>1, <1>2, <1>3, <1>4
     DEF Effects, Signalled, Respawned, Removed, Passed, Starting, Telling

LEMMA ServesStep ==
  ASSUME TypeOK, TypeOK', NoUpgrade, TableInv, Stopped, Swept, Serves, Room, Effects,
         fails' = 0
  PROVE  Serves'
<1>0. last \in Nat /\ i \in Nat /\ Slots \subseteq Nat /\ fails \in Nat /\ Workers \in Nat \ {0}
      /\ forks \in Nat
  BY Numbers, ProcessCycleAssumption
<1> SUFFICES ASSUME fatal' = {}, flags' \cap Halting = {}
             PROVE  /\ pc' = "boot" => i' = 0 \/ Someone'
                    /\ pc' # "boot" => Someone'
                    /\ pc' \in Starting => i' = 0 \/ Counts'
                    /\ pc' \in Telling => Counts'
  BY ServesIs DEF Served
<1>1. fatal = {} /\ flags \cap Halting = {}
  BY NobodyStops
<1>2. /\ pc = "boot" => i = 0 \/ Someone
      /\ pc # "boot" => Someone
      /\ pc \in Starting => i = 0 \/ Counts
      /\ pc \in Telling => Counts
  BY <1>1, ServesIs DEF Served
<1>3. Someone /\ pc \notin Telling => Someone'
  <2> SUFFICES ASSUME NEW s \in Slots, Serv(s), pc \notin Telling PROVE Someone'
    BY DEF Someone
  <2>1. Serv(s)'
    BY <1>1, ServKeeps
  <2> QED
    BY <2>1 DEF Someone
<1>4. Counts => Someone'
  <2> SUFFICES ASSUME NEW s \in Slots, Serv(s), In(s) PROVE Someone'
    BY DEF Counts
  <2>1. Serv(s)'
    BY <1>1, ServKeeps
  <2> QED
    BY <2>1 DEF Someone
<1>5. Counts /\ (pc \in Starting \/ (pc \in Telling /\ pc' = pc)) => Counts'
  <2> SUFFICES ASSUME NEW s \in Slots, Serv(s), In(s),
                      pc \in Starting \/ (pc \in Telling /\ pc' = pc)
               PROVE  Counts'
    BY DEF Counts
  <2>1. Serv(s)'
    BY <1>1, ServKeeps
  <2>2. In(s)'
    BY <2>1, InKeeps
  <2> QED
    BY <2>1, <2>2 DEF Counts
<1>6. CASE Started
  <2>1. pc \in Starting \cup {"boot"} /\ pc' = pc /\ i' = i + 1
    BY <1>6 DEF Started, NoUpgrade, StartSites, Starting
  <2>2. CASE NoChild
    <3>1. i # 0
      BY <1>0, <1>6, <2>2 DEF Room, NoChild, Started
    <3> QED
      BY <1>2, <1>3, <1>5, <2>1, <3>1 DEF Starting, Telling
  <2>3. ASSUME NEW s \in Slots, Born(s) PROVE Someone' /\ (pc \in Starting => Counts')
    <3>1. InTable(s)' /\ tbl'[s].detached = FALSE /\ tbl'[s].exiting = FALSE
          /\ tbl'[s].respawn = TRUE /\ (pc \in Starting => tbl'[s].just_respawn = TRUE)
      BY <2>3, BornIs DEF Born
    <3>2. Serv(s)'
      BY <3>1 DEF Serv, InTable
    <3>3. pc \in Starting => In(s)'
      BY <2>1, <3>1 DEF In, InTable, Starting, Telling
    <3> QED
      BY <3>2, <3>3 DEF Someone, Counts
  <2> QED
    BY <1>6, <2>1, <2>2, <2>3 DEF Started, Starting, Telling
<1>7. CASE ~Started
  <2>1. \/ pc' = pc /\ i' = i /\ pc \in Starting \cup {"boot"}
        \/ pc' = pc /\ pc \notin Starting \cup {"boot"}
        \/ pc \in Starting /\ i = Workers /\ pc' \in Telling
        \/ pc = "boot" /\ i = Workers /\ pc' = "top"
        \/ pc \in Telling /\ pc' \notin Starting \cup Telling \cup {"boot"}
        \/ pc \notin Starting \cup Telling \cup {"boot"} /\ i' = 0 /\ pc' \in Starting
        \/ /\ pc \notin Starting \cup Telling \cup {"boot"}
           /\ pc' \notin Starting \cup Telling \cup {"boot"}
    BY <1>7 DEF Effects, Control, Signalled, Background, Respawned, Removed, Passed,
                Left, Marked, Met, Starting, Plain, Halts, SignalSites, Telling
  <2>2. "boot" \notin Starting \cup Telling /\ "top" \notin Starting \cup Telling
        /\ Starting \cap Telling = {}
    BY DEF Starting, Telling
  <2> QED
    BY <1>0, <1>2, <1>3, <1>4, <1>5, <2>1, <2>2
<1> QED
  BY <1>6, <1>7

-----------------------------------------------------------------------------
(* The invariant and the three theorems.                                   *)

LEMMA GenInit ==
  ASSUME "change_binary" \notin Early, Init
  PROVE  IInv /\ Serves
<1>1. TypeOK /\ TableInv
  BY TypeInit, TableInit
<1>2. \A s \in Slots : tbl[s] = Unused
  BY DEF Init
<1>3. /\ last = 0 /\ pc = "boot" /\ i = 0 /\ new_binary = 0 /\ pending = {}
      /\ inbox = [p \in Pids |-> <<>>] /\ live = TRUE
      /\ "change_binary" \notin flags /\ "restart" \notin flags
  BY ProcessCycleAssumption DEF Init, AdminSignals
<1>4. ASSUME NEW s \in Slots
      PROVE  /\ tbl[s].detached = FALSE /\ tbl[s].just_respawn = FALSE /\ tbl[s].chan = NoFd
             /\ ~(s < last)
  BY <1>2, <1>3 DEF Unused, Slots
<1>5. Running /\ NoUpgrade /\ NoneLeft /\ Fresh /\ Unborn /\ Stopped
  BY <1>3, <1>4 DEF Running, Going, NoUpgrade, NoneLeft, Fresh, Unborn, Stopped, StartSites,
                    Halts
<1>6. Swept /\ Channels /\ Spared
  BY <1>4 DEF Swept, Channels, Spared, InTable
<1>7. Counted = {}
  BY <1>4 DEF Counted, Staying, InTable
<1>8. Few /\ (pc \in StartSites => i <= Workers)
  BY <1>3, <1>7, FS_EmptySet, ProcessCycleAssumption DEF Few
<1>9. Serves
  BY <1>3 DEF Serves, Starting, Telling
<1> QED
  BY <1>1, <1>5, <1>6, <1>8, <1>9 DEF IInv, FailFree

LEMMA FailsGrow ==
  ASSUME TypeOK, Effects, fails' = 0
  PROVE  fails = 0
<1>1. fails' = fails \/ fails' = fails + 1
  BY DEF Effects, Control, Signalled, Background, Started, NoChild, Born, ChildIn, Respawned,
         Removed, Passed, Left, Marked, Met
<1>2. fails \in Nat
  BY Numbers
<1> QED
  BY <1>1, <1>2

LEMMA GenStep ==
  ASSUME "change_binary" \notin Requests, IInv, [Next]_vars
  PROVE  IInv'
<1>1. TypeOK /\ TableInv /\ Running /\ NoUpgrade /\ NoneLeft /\ Fresh /\ Unborn /\ Stopped
      /\ (fails = 0 => FailFree)
  BY DEF IInv
<1>2. TypeOK' /\ TableInv' /\ Running'
  BY <1>1, TypeStep, TableStep, RunningStep
<1>3. Effects
  BY <1>1, StepIs
<1>4. NoUpgrade'
  BY <1>1, NoUpgradeStep
<1>5. NoneLeft' /\ Unborn' /\ Stopped'
  BY <1>1, <1>3, NoneLeftStep, UnbornStep, StoppedStep
<1>6. Fresh'
  BY <1>1, <1>2, <1>3, FreshStep
<1>7. ASSUME fails' = 0 PROVE FailFree'
  <2>1. Swept /\ Channels /\ Spared /\ (pc \in StartSites => i <= Workers) /\ Few
    BY <1>1, <1>3, <1>7, FailsGrow DEF FailFree
  <2>2. Swept' /\ Channels'
    BY <1>1, <1>3, <1>7, <2>1, SweptStep, ChannelsStep
  <2>3. Spared'
    BY <1>1, <1>3, <1>7, <2>1, SparedStep
  <2>4. (pc \in StartSites => i <= Workers)'
    BY <1>1, <1>3, <2>1, IndexStep
  <2>5. Few'
    BY <1>1, <1>2, <1>3, <1>4, <1>6, <1>7, <2>1, FewStep
  <2> QED
    BY <2>2, <2>3, <2>4, <2>5 DEF FailFree
<1> QED
  BY <1>2, <1>4, <1>5, <1>6, <1>7 DEF IInv

LEMMA GenAlways ==
  ASSUME "change_binary" \notin Requests \cup Early
  PROVE  Spec => []IInv
<1>1. Init => IInv
  BY GenInit
<1>2. IInv /\ [Next]_vars => IInv'
  BY GenStep
<1> QED
  BY <1>1, <1>2, PTL DEF Spec

\* A master that nobody tells to change its binary exits only when it has
\* waited for every worker it started: live is computed anew by each
\* ngx_reap_childs, and between two of them no child can become one.
THEOREM ExitsLast ==
  ASSUME "change_binary" \notin Requests \cup Early
  PROVE  Spec => []ExitsAfterWorkers
<1>1. IInv => ExitsAfterWorkers
  <2> SUFFICES ASSUME IInv, pc = "exited", NEW p \in Pids,
                      os[p] \in {"starting", "running"}
               PROVE  FALSE
    BY DEF ExitsAfterWorkers
  <2>1. TableInv /\ NoneLeft
    BY DEF IInv
  <2>2. PICK s \in Slots : s < last /\ tbl[s].pid = p
    BY <2>1 DEF TableInv, Tracked
  <2>3. p # NoPid
    BY ProcessCycleAssumption DEF Pids, NoPid
  <2>4. live = FALSE /\ pc \notin StartSites
    BY <2>1 DEF NoneLeft, StartSites
  <2> QED
    BY <2>1, <2>2, <2>3, <2>4 DEF NoneLeft
<1> QED
  BY <1>1, GenAlways, PTL

\* While no spawn fails, the workers a reload starts are not told to quit by
\* the very call that stops the old ones, and no generation adds to their
\* number: channels of the table lead to the children of their own slots.
THEOREM GenerationsReplaced ==
  ASSUME "change_binary" \notin Requests \cup Early
  PROVE  Spec => [](fails = 0 => WorkersReplaced)
<1>1. IInv => (fails = 0 => WorkersReplaced)
  <2> SUFFICES ASSUME IInv, fails = 0 PROVE NewWorkersSpared /\ WorkersBounded
    BY DEF WorkersReplaced
  <2>1. Spared /\ Few
    BY DEF IInv, FailFree
  <2>2. NewWorkersSpared
    BY <2>1 DEF NewWorkersSpared, Spared, NoQuit
  <2>3. pc = "suspend" => Counted = Staying
    BY DEF Counted, Starting, Telling
  <2>4. WorkersBounded
    BY <2>1, <2>3 DEF WorkersBounded, Few, Starting
  <2> QED
    BY <2>2, <2>4
<1> QED
  BY <1>1, GenAlways, PTL

\* A sleeping master that was not told to stop has a worker that stays,
\* whatever dies and however reloads and ten-day restarts follow each other,
\* provided the table has a free slot whenever a generation is started.
THEOREM ServiceGoesOn ==
  ASSUME "change_binary" \notin Requests \cup Early
  PROVE  Spec /\ []Room => []ServiceContinuity
<1> DEFINE SInv == fails = 0 => Serves
<1>1. Init => SInv
  BY GenInit
<1>2. IInv /\ SInv /\ Room /\ [Next]_vars => SInv'
  <2> SUFFICES ASSUME IInv, SInv, Room, [Next]_vars, fails' = 0 PROVE Serves'
    OBVIOUS
  <2>1. TypeOK /\ NoUpgrade /\ TableInv /\ Stopped /\ (fails = 0 => Swept)
    BY DEF IInv, FailFree
  <2>2. TypeOK'
    BY <2>1, TypeStep
  <2>3. Effects
    BY <2>1, StepIs
  <2>4. fails = 0
    BY <2>1, <2>3, FailsGrow
  <2> QED
    BY <2>1, <2>2, <2>3, <2>4, ServesStep
<1>3. SInv => ServiceContinuity
  BY DEF ServiceContinuity, Serves, Serving, Halting
<1> HIDE DEF SInv
<1>4. Spec => []IInv
  BY GenAlways
<1> QED
  BY <1>1, <1>2, <1>3, <1>4, PTL DEF Spec

=============================================================================
