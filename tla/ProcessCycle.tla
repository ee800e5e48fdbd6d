---------------------------- MODULE ProcessCycle ----------------------------
(***************************************************************************)
(* The master process: its table of children, its signal loop, the         *)
(* channels it writes commands to, and the worker processes that read them *)
(* (os/unix/ngx_process_cycle.c, ngx_process.c, ngx_posix_init.c).         *)
(*                                                                         *)
(* The master is a sequential program that receives signals only inside    *)
(* sigsuspend(), so its loop is a program counter pc whose values name the *)
(* places of the source, with one step per iteration of its inner loops.   *)
(* A call of ngx_start_worker_processes or ngx_signal_worker_processes is  *)
(* named after its call site; After[site] is where that call returns to.   *)
(* Workers, the kernel and the administrator interleave with these steps.  *)
(***************************************************************************)
EXTENDS Integers, Sequences, FiniteSets

CONSTANTS
  MaxProcesses,   \* NGX_MAX_PROCESSES, the length of ngx_processes[]
  Workers,        \* ccf->worker_processes
  ChannelCap,     \* messages a channel holds before sendmsg() says EAGAIN
  Requests,       \* the signals the administrator may send
  Early,          \* flags a signal may have set before the master blocks them
  MaxPid,         \* bound: processes ever forked
  MaxRequests,    \* bound: administrator signals and ten-day alarms
  MaxCrashes,     \* bound: workers that die by themselves
  MaxFails        \* bound: socketpair(), fork() and ngx_init_cycle failures

Commands == {"quit", "terminate", "reopen", "open", "close"}
AdminSignals ==
  {"quit", "terminate", "noaccept", "reconfigure", "reopen", "change_binary"}

ASSUME ProcessCycleAssumption ==
  /\ MaxProcesses \in Nat \ {0}
  /\ Workers \in Nat \ {0}
  /\ ChannelCap \in Nat \ {0}
  /\ Requests \subseteq AdminSignals
  /\ Early \subseteq AdminSignals
  /\ MaxPid \in Nat
  /\ MaxRequests \in Nat
  /\ MaxCrashes \in Nat
  /\ MaxFails \in Nat

Slots == 0 .. MaxProcesses - 1
Pids  == 1 .. MaxPid
Fds   == 1 .. MaxProcesses     \* one pair of descriptors per channel
NoFd  == 0                     \* channel[0] == channel[1] == -1
NoPid == -1
MaxDelay == 1600               \* bound: past 1000 doubling has no effect

VARIABLES
  tbl,         \* ngx_processes[]
  last,        \* ngx_last_process
  slot,        \* ngx_process_slot
  flags,       \* the ngx_reap, ngx_quit ... flags that are set
  new_binary,  \* ngx_new_binary: 0, the pid, or -1 (NGX_ERROR)
  live, delay, \* the locals of ngx_master_process_cycle
  pc, i,       \* where the master is, and its loop index
  fdmap,       \* the master's open channels: the child at the other end
  os,          \* the kernel's view of each child
  fatal,       \* children that exited with status 2
  pending,     \* signals blocked until the master's sigsuspend()
  alarm,       \* the one ITIMER_REAL timer
  w,           \* a worker's own flags
  inbox,       \* commands in a worker's channel
  forks, requests, crashes, fails

master == <<tbl, last, slot, flags, new_binary, live, delay, pc, i>>
kernel == <<fdmap, os, fatal, pending, alarm>>
worker == <<w, inbox>>
bounds == <<forks, requests, crashes, fails>>
vars   == <<master, kernel, worker, bounds>>

StartSites == {"boot", "timer_start", "binary_start", "reconf_start",
               "restart_start"}
SignalSites == {"term_signal", "kill_signal", "quit_signal", "timer_signal",
                "reconf_signal", "reopen_signal", "noaccept_signal"}
Stages == {"top", "suspend", "wake", "reap", "exit_test", "timer",
           "reconfigure", "restart", "reopen", "change_binary", "noaccept",
           "exited"}

\* Mutant: a reload does not shut the old workers down.
AfterKeepsOld ==
  [ boot          |-> "top",           term_signal     |-> "top",
    timer_start   |-> "timer_signal",  kill_signal     |-> "top",
    binary_start  |-> "top",           quit_signal     |-> "top",
    reconf_start  |-> "restart",       timer_signal    |-> "reconfigure",
    restart_start |-> "reopen",        reconf_signal   |-> "restart",
    reopen_signal |-> "change_binary", noaccept_signal |-> "top" ]

After == [ boot          |-> "top",           term_signal     |-> "top",
           timer_start   |-> "timer_signal",  kill_signal     |-> "top",
           binary_start  |-> "top",           quit_signal     |-> "top",
           reconf_start  |-> "reconf_signal", timer_signal    |-> "reconfigure",
           restart_start |-> "reopen",        reconf_signal   |-> "restart",
           reopen_signal |-> "change_binary", noaccept_signal |-> "top" ]

\* Mutant: a reload starts its workers as NGX_PROCESS_RESPAWN.
JustRespawnTimerOnly == {"timer_start"}

JustRespawn == {"timer_start", "reconf_start"}

\* ch.command of ngx_signal_worker_processes; SIGKILL has none
Command == [ term_signal |-> "terminate", kill_signal |-> "none",
             quit_signal |-> "quit",      timer_signal |-> "quit",
             reconf_signal |-> "quit",    noaccept_signal |-> "quit",
             reopen_signal |-> "reopen" ]

Unused == [ pid |-> 0, exited |-> FALSE, exiting |-> FALSE, respawn |-> FALSE,
            just_respawn |-> FALSE, detached |-> FALSE, chan |-> NoFd ]

Alive(p)   == os[p] \in {"starting", "running", "binary"}
InTable(s) == s < last /\ tbl[s].pid # NoPid

\* The first slot whose pid is -1, else ngx_last_process.
FreeSlot ==
  LET free == {s \in Slots : s < last /\ tbl[s].pid = NoPid}
  IN  IF free = {} THEN last
      ELSE CHOOSE s \in free : \A r \in free : s <= r

\* socketpair() returns the lowest unused descriptors.
FreeFd(f) ==
  LET free == {d \in Fds : f[d] = 0}
  IN  IF free = {} THEN NoFd ELSE CHOOSE d \in free : \A e \in free : d <= e

CanFork == forks < MaxPid

Init ==
  /\ tbl = [s \in Slots |-> Unused]
  /\ last = 0 /\ slot = 0
  /\ flags \in {{}} \cup {{f} : f \in Early}
  /\ new_binary = 0 /\ live = TRUE /\ delay = 0
  /\ pc = "boot" /\ i = 0
  /\ fdmap = [d \in Fds |-> 0]
  /\ os = [p \in Pids |-> "unborn"]
  /\ fatal = {} /\ pending = {} /\ alarm = "off"
  /\ w = [p \in Pids |-> {}]
  /\ inbox = [p \in Pids |-> <<>>]
  /\ forks = 0 /\ requests = 0 /\ crashes = 0 /\ fails = 0

-----------------------------------------------------------------------------
(* Channels.                                                               *)

\* ngx_write_channel(d, ...) == NGX_OK: the descriptor is open and the
\* channel has room. (A dead reader is not noticed: the master keeps both
\* ends of the pair open until it reaps the child.)
WriteOK(d) ==
  /\ d # NoFd /\ fdmap[d] # 0
  /\ Alive(fdmap[d]) => Len(inbox[fdmap[d]]) < ChannelCap

Written(box, p, m) ==
  IF Alive(p) THEN [box EXCEPT ![p] = Append(@, m)] ELSE box

\* m written to the channel of every slot in "to", in tables t and f. What
\* does not fit is lost (the source's "TODO: NGX_AGAIN"), and so is a write
\* to a closed descriptor.
Broadcast(t, f, to, m) ==
  [p \in Pids |->
     LET copies == Cardinality({s \in to : t[s].chan # NoFd /\ f[t[s].chan] = p})
         room   == ChannelCap - Len(inbox[p])
         sent   == IF copies < room THEN copies ELSE room
     IN  IF Alive(p) THEN inbox[p] \o [k \in 1 .. sent |-> m] ELSE inbox[p]]

Closed(f, d) == IF d = NoFd THEN f ELSE [f EXCEPT ![d] = 0]

-----------------------------------------------------------------------------
(* ngx_spawn_process, from tables t and f, into slot s.                    *)

\* Mutant: a respawned slot keeps its exited mark.
FilledStillExited(t, s, kind, p, d) ==
  LET new == [t[s] EXCEPT !.pid = p, !.chan = d]
  IN  IF kind = "same" THEN new
      ELSE [new EXCEPT !.exited = FALSE, !.exiting = FALSE,
                       !.respawn = kind # "detached",
                       !.just_respawn = kind = "just_respawn",
                       !.detached = kind = "detached"]

\* How each kind of child fills its slot; a respawn keeps the old fields.
Filled(t, s, kind, p, d) ==
  LET new == [t[s] EXCEPT !.pid = p, !.exited = FALSE, !.chan = d]
  IN  IF kind = "same" THEN new
      ELSE [new EXCEPT !.exiting = FALSE,
                       !.respawn = kind # "detached",
                       !.just_respawn = kind = "just_respawn",
                       !.detached = kind = "detached"]

\* fork() succeeds. The child inherits the flags that are set right now.
SpawnOK(t, f, s, kind) ==
  LET p == forks + 1
      d == IF kind = "detached" THEN NoFd ELSE FreeFd(f)
  IN  /\ CanFork
      /\ kind # "detached" => d # NoFd
      /\ tbl' = [t EXCEPT ![s] = Filled(t, s, kind, p, d)]
      /\ fdmap' = IF d = NoFd THEN f ELSE [f EXCEPT ![d] = p]
      /\ last' = IF s = last /\ kind # "same" THEN last + 1 ELSE last
      /\ slot' = s
      /\ os' = [os EXCEPT ![p] = IF kind = "detached" THEN "binary"
                                                      ELSE "starting"]
      /\ w' = [w EXCEPT ![p] = flags \cap {"quit", "terminate", "reopen"}]
      /\ forks' = forks + 1
      /\ UNCHANGED fails

\* NGX_ERROR: the table is full or socketpair() failed, which leaves the
\* slot alone, or a later call failed, before or after ngx_process_slot is
\* set, and leaves in it the numbers of two descriptors that are closed again.
SpawnFailed(t, f, s, kind) ==
  /\ \/ /\ s = MaxProcesses
        /\ tbl' = t /\ UNCHANGED <<slot, fails>>
     \/ /\ s # MaxProcesses /\ kind # "detached" /\ fails < MaxFails
        /\ tbl' = t /\ UNCHANGED slot
        /\ fails' = fails + 1
     \/ /\ s # MaxProcesses /\ fails < MaxFails
        /\ tbl' = [t EXCEPT ![s].chan = IF kind = "detached" THEN NoFd
                                                             ELSE FreeFd(f)]
        /\ slot' \in IF kind = "detached" THEN {s} ELSE {slot, s}
        /\ fails' = fails + 1
  /\ fdmap' = f
  /\ UNCHANGED <<last, os, w, forks>>

-----------------------------------------------------------------------------
(* ngx_start_worker_processes.                                             *)

\* The table entry of ngx_process_slot is announced to the other slots,
\* whether or not the spawn before it succeeded.
Announce ==
  LET to   == {s \in Slots : s < last' /\ s # slot' /\ tbl'[s].pid # NoPid}
      d    == tbl'[slot'].chan
      sent == d = NoFd \/ fdmap'[d] # 0
  IN  inbox' = IF sent THEN Broadcast(tbl', fdmap', to, "open") ELSE inbox

StartWorker ==
  LET kind == IF pc \in JustRespawn THEN "just_respawn" ELSE "respawn"
      s    == FreeSlot
  IN  /\ pc \in StartSites /\ i < Workers
      /\ \/ s # MaxProcesses /\ SpawnOK(tbl, fdmap, s, kind)
         \/ SpawnFailed(tbl, fdmap, s, kind)
      /\ Announce
      /\ i' = i + 1
      /\ UNCHANGED <<flags, new_binary, live, delay, pc, fatal, pending, alarm,
                     requests, crashes>>

\* The ten-day timer is armed and the call returns; every caller but one
\* then sets live, and that one clears ngx_noaccepting.
StartDone ==
  /\ pc \in StartSites /\ i = Workers
  /\ alarm' = "long"
  /\ pc' = After[pc] /\ i' = 0
  /\ live' = IF pc = "binary_start" THEN live ELSE TRUE
  /\ flags' = IF pc = "binary_start" THEN flags \ {"noaccepting"} ELSE flags
  /\ UNCHANGED <<tbl, last, slot, new_binary, delay, fdmap, os, fatal, pending,
                 worker, bounds>>

-----------------------------------------------------------------------------
(* ngx_signal_worker_processes, one slot per step.                         *)

\* Mutant: workers that have just been started are not skipped.
SkippedNotJustStarted(s) ==
  \/ tbl[s].detached \/ tbl[s].pid = NoPid
  \/ tbl[s].exiting /\ Command[pc] = "quit"

Skipped(s) ==
  \/ tbl[s].detached \/ tbl[s].pid = NoPid
  \/ tbl[s].just_respawn
  \/ tbl[s].exiting /\ Command[pc] = "quit"

\* kill(): a signal handler sets the worker's flag; SIGKILL ends it.
Kill(p) ==
  IF pc = "kill_signal"
  THEN /\ os' = [os EXCEPT ![p] = IF Alive(p) THEN "zombie" ELSE @]
       /\ pending' = IF Alive(p) THEN pending \cup {"CHLD"} ELSE pending
       /\ UNCHANGED w
  ELSE /\ w' = [w EXCEPT ![p] = IF Alive(p) THEN @ \cup {Command[pc]} ELSE @]
       /\ UNCHANGED <<os, pending>>

Exiting(s) == tbl' = [tbl EXCEPT ![s].exiting = @ \/ pc # "reopen_signal"]

SkipSlot ==
  /\ pc \in SignalSites /\ i < last /\ Skipped(i)
  /\ i' = i + 1
  /\ tbl' = [tbl EXCEPT ![i].just_respawn =
               @ /\ (tbl[i].detached \/ tbl[i].pid = NoPid)]
  /\ UNCHANGED <<last, slot, flags, new_binary, live, delay, pc, kernel, worker,
                 bounds>>

CommandSlot ==
  /\ pc \in SignalSites /\ i < last /\ ~Skipped(i)
  /\ Command[pc] # "none" /\ WriteOK(tbl[i].chan)
  /\ inbox' = Written(inbox, fdmap[tbl[i].chan], Command[pc])
  /\ Exiting(i)
  /\ i' = i + 1
  /\ UNCHANGED <<last, slot, flags, new_binary, live, delay, pc, kernel, w,
                 bounds>>

KillSlot ==
  LET p == tbl[i].pid IN
  /\ pc \in SignalSites /\ i < last /\ ~Skipped(i)
  /\ Command[pc] = "none" \/ ~WriteOK(tbl[i].chan)
  /\ IF os[p] # "reaped"
     THEN Kill(p) /\ Exiting(i) /\ UNCHANGED flags
     ELSE /\ tbl' = [tbl EXCEPT ![i].exited = TRUE, ![i].exiting = FALSE]
          /\ flags' = flags \cup {"reap"}
          /\ UNCHANGED <<os, pending, w>>
  /\ i' = i + 1
  /\ UNCHANGED <<last, slot, new_binary, live, delay, pc, fdmap, fatal, alarm,
                 inbox, bounds>>

SignalDone ==
  /\ pc \in SignalSites /\ i >= last
  /\ pc' = After[pc] /\ i' = 0
  /\ UNCHANGED <<tbl, last, slot, flags, new_binary, live, delay, kernel,
                 worker, bounds>>

-----------------------------------------------------------------------------
(* ngx_reap_childs, one slot per step.                                     *)

\* The slot's channel is closed, whatever its numbers now stand for, and the
\* other children are told so.
ClosedTbl(s) ==
  IF tbl[s].detached THEN tbl ELSE [tbl EXCEPT ![s].chan = NoFd]
ClosedMap(s) == IF tbl[s].detached THEN fdmap ELSE Closed(fdmap, tbl[s].chan)
TellClosed(s) ==
  LET to == {n \in Slots : InTable(n) /\ ~tbl[n].exited}
  IN  inbox' = IF tbl[s].detached THEN inbox
               ELSE Broadcast(ClosedTbl(s), ClosedMap(s), to, "close")

\* Mutant: the tests of ngx_terminate and ngx_quit are missing.
RespawnableStopping(s) == tbl[s].respawn /\ ~tbl[s].exiting

Respawnable(s) ==
  /\ tbl[s].respawn /\ ~tbl[s].exiting
  /\ flags \cap {"terminate", "quit"} = {}

\* Mutant: a child that is exiting does not keep the master alive.
ReapSkipExiting ==
  /\ pc = "reap" /\ i < last
  /\ tbl[i].pid = NoPid \/ ~tbl[i].exited
  /\ live' = (live \/ (tbl[i].pid # NoPid
                       /\ ~tbl[i].exiting /\ ~tbl[i].detached))
  /\ i' = i + 1
  /\ UNCHANGED <<tbl, last, slot, flags, new_binary, delay, pc, kernel, worker,
                 bounds>>

ReapSkip ==
  /\ pc = "reap" /\ i < last
  /\ tbl[i].pid = NoPid \/ ~tbl[i].exited
  /\ live' = (live \/ (tbl[i].pid # NoPid
                       /\ (tbl[i].exiting \/ ~tbl[i].detached)))
  /\ i' = i + 1
  /\ UNCHANGED <<tbl, last, slot, flags, new_binary, delay, pc, kernel, worker,
                 bounds>>

ReapRespawn ==
  /\ pc = "reap" /\ i < last /\ tbl[i].pid # NoPid /\ tbl[i].exited
  /\ Respawnable(i)
  /\ TellClosed(i)
  /\ \/ SpawnOK(ClosedTbl(i), ClosedMap(i), i, "same") /\ live' = TRUE
     \/ SpawnFailed(ClosedTbl(i), ClosedMap(i), i, "same") /\ UNCHANGED live
  /\ i' = i + 1
  /\ UNCHANGED <<flags, new_binary, delay, pc, fatal, pending, alarm, requests,
                 crashes>>

\* Mutant: the table shrinks whichever slot is freed.
AlwaysShrink(s) == last' = last - 1 /\ tbl' = ClosedTbl(s)

\* Only the last slot can shrink the table; another is marked free.
FreeOrShrink(s) ==
  IF s = last - 1
  THEN last' = last - 1 /\ tbl' = ClosedTbl(s)
  ELSE tbl' = [ClosedTbl(s) EXCEPT ![s].pid = NoPid] /\ UNCHANGED last

ReapRemove ==
  /\ pc = "reap" /\ i < last /\ tbl[i].pid # NoPid /\ tbl[i].exited
  /\ ~Respawnable(i)
  /\ TellClosed(i)
  /\ fdmap' = ClosedMap(i)
  /\ IF tbl[i].pid = new_binary
     THEN /\ new_binary' = 0
          /\ flags' = IF "noaccepting" \in flags
                      THEN (flags \ {"noaccepting"}) \cup {"restart"}
                      ELSE flags
     ELSE UNCHANGED <<new_binary, flags>>
  /\ FreeOrShrink(i)
  /\ i' = i + 1
  /\ UNCHANGED <<slot, live, delay, pc, os, fatal, pending, alarm, w, bounds>>

ReapDone ==
  /\ pc = "reap" /\ i >= last
  /\ pc' = "exit_test" /\ i' = 0
  /\ UNCHANGED <<tbl, last, slot, flags, new_binary, live, delay, kernel,
                 worker, bounds>>

-----------------------------------------------------------------------------
(* Signals: ngx_signal_handler and ngx_process_get_status.                 *)

\* waitpid() until no zombie is left: the children's slots are marked, and
\* one that exited with status 2 loses its respawn.
GetStatus ==
  LET dead == {p \in Pids : os[p] = "zombie"} IN
  /\ os' = [p \in Pids |-> IF p \in dead THEN "reaped" ELSE os[p]]
  /\ tbl' = [s \in Slots |->
       IF s < last /\ tbl[s].pid \in dead
       THEN [tbl[s] EXCEPT !.exited = TRUE,
                           !.respawn = @ /\ tbl[s].pid \notin fatal]
       ELSE tbl[s]]
  /\ flags' = flags \cup {"reap"}

Deliver(sig) ==
  /\ pc \in {"suspend", "wake"} /\ sig \in pending
  /\ pending' = pending \ {sig}
  /\ pc' = "wake"
  /\ CASE sig = "CHLD" -> GetStatus
       [] sig = "ALRM" ->
            /\ flags' = IF "terminate" \in flags THEN flags
                                                 ELSE flags \cup {"timer"}
            /\ UNCHANGED <<os, tbl>>
       [] sig = "change_binary" ->
            /\ flags' = IF new_binary > 0 THEN flags ELSE flags \cup {sig}
            /\ UNCHANGED <<os, tbl>>
       [] OTHER -> flags' = flags \cup {sig} /\ UNCHANGED <<os, tbl>>
  /\ UNCHANGED <<last, slot, new_binary, live, delay, i, fdmap, fatal, alarm,
                 worker, bounds>>

-----------------------------------------------------------------------------
(* ngx_master_process_cycle.                                               *)

Goto(stage) == pc' = stage /\ i' = 0

\* Mutant: the delay is not doubled.
LoopTopSameDelay ==
  /\ pc = "top"
  /\ Goto("suspend")
  /\ alarm' = IF delay > 0 THEN "short" ELSE alarm
  /\ UNCHANGED <<tbl, last, slot, flags, new_binary, live, delay, fdmap, os,
                 fatal, pending, worker, bounds>>

LoopTop ==
  /\ pc = "top"
  /\ Goto("suspend")
  /\ delay' = IF 2 * delay > MaxDelay THEN MaxDelay ELSE 2 * delay
  /\ alarm' = IF delay > 0 THEN "short" ELSE alarm
  /\ UNCHANGED <<tbl, last, slot, flags, new_binary, live, fdmap, os, fatal,
                 pending, worker, bounds>>

\* Mutant: live is not recomputed when children are reaped.
WakeKeepsLive ==
  /\ pc = "wake" /\ pending = {}
  /\ Goto(IF "reap" \in flags THEN "reap" ELSE "exit_test")
  /\ flags' = flags \ {"reap"}
  /\ UNCHANGED <<tbl, last, slot, new_binary, live, delay, kernel, worker, bounds>>

Wake ==
  /\ pc = "wake" /\ pending = {}
  /\ IF "reap" \in flags THEN Goto("reap") /\ live' = FALSE
                         ELSE Goto("exit_test") /\ UNCHANGED live
  /\ flags' = flags \ {"reap"}
  /\ UNCHANGED <<tbl, last, slot, new_binary, delay, kernel, worker, bounds>>

ExitTest ==
  LET d == IF delay = 0 THEN 50 ELSE delay IN
  /\ pc = "exit_test"
  /\ \/ /\ ~live /\ flags \cap {"terminate", "quit"} # {}
        /\ Goto("exited") /\ UNCHANGED delay
     \/ /\ live /\ "terminate" \in flags
        /\ delay' = d
        /\ Goto(IF d > 1000 THEN "kill_signal" ELSE "term_signal")
     \/ /\ live /\ "terminate" \notin flags /\ "quit" \in flags
        /\ Goto("quit_signal") /\ UNCHANGED delay
     \/ /\ flags \cap {"terminate", "quit"} = {}
        /\ Goto("timer") /\ UNCHANGED delay
  /\ UNCHANGED <<tbl, last, slot, flags, new_binary, live, kernel, worker,
                 bounds>>

\* A stage whose flag is set clears it and goes to "then", else to "else".
Stage(flag, then, else) ==
  /\ pc = flag
  /\ flags' = flags \ {flag}
  /\ Goto(IF flag \in flags THEN then ELSE else)

TimerStage ==
  /\ Stage("timer", "timer_start", "reconfigure")
  /\ UNCHANGED <<tbl, last, slot, new_binary, live, delay, kernel, worker,
                 bounds>>

\* ngx_init_cycle may refuse the new configuration: the master goes back to
\* sleep and whatever the later stages had to do waits for another signal.
ReconfigureStage ==
  /\ \/ /\ Stage("reconfigure", IF new_binary # 0 THEN "binary_start"
                                                  ELSE "reconf_start", "restart")
        /\ UNCHANGED fails
     \/ /\ new_binary = 0 /\ "reconfigure" \in flags /\ fails < MaxFails
        /\ Stage("reconfigure", "top", "restart")
        /\ fails' = fails + 1
  /\ UNCHANGED <<tbl, last, slot, new_binary, live, delay, kernel, worker,
                 forks, requests, crashes>>

RestartStage ==
  /\ Stage("restart", "restart_start", "reopen")
  /\ UNCHANGED <<tbl, last, slot, new_binary, live, delay, kernel, worker,
                 bounds>>

ReopenStage ==
  /\ Stage("reopen", "reopen_signal", "change_binary")
  /\ UNCHANGED <<tbl, last, slot, new_binary, live, delay, kernel, worker,
                 bounds>>

\* ngx_exec_new_binary: the pid of the new master, or NGX_ERROR, is stored.
ChangeBinaryStage ==
  /\ Stage("change_binary", "noaccept", "noaccept")
  /\ IF "change_binary" \notin flags
     THEN UNCHANGED <<tbl, last, slot, new_binary, fdmap, os, w, forks, fails>>
     ELSE \/ /\ FreeSlot # MaxProcesses
             /\ SpawnOK(tbl, fdmap, FreeSlot, "detached")
             /\ new_binary' = forks + 1
          \/ /\ SpawnFailed(tbl, fdmap, FreeSlot, "detached")
             /\ new_binary' = -1
  /\ UNCHANGED <<live, delay, fatal, pending, alarm, inbox, requests, crashes>>

NoAcceptStage ==
  /\ pc = "noaccept"
  /\ IF "noaccept" \in flags
     THEN /\ flags' = (flags \ {"noaccept"}) \cup {"noaccepting"}
          /\ Goto("noaccept_signal")
     ELSE Goto("top") /\ UNCHANGED flags
  /\ UNCHANGED <<tbl, last, slot, new_binary, live, delay, kernel, worker,
                 bounds>>

-----------------------------------------------------------------------------
(* ngx_worker_process_cycle and ngx_channel_handler.                       *)

Dies(p, status) ==
  /\ os' = [os EXCEPT ![p] = "zombie"]
  /\ pending' = pending \cup {"CHLD"}
  /\ fatal' = IF status = 2 THEN fatal \cup {p} ELSE fatal
  /\ w' = [w EXCEPT ![p] = {}]
  /\ inbox' = [inbox EXCEPT ![p] = <<>>]
  /\ UNCHANGED <<master, fdmap, alarm, forks, requests, fails>>

WorkerReady(p) ==
  /\ os[p] = "starting"
  /\ os' = [os EXCEPT ![p] = "running"]
  /\ UNCHANGED <<master, fdmap, fatal, pending, alarm, worker, bounds>>

\* setuid(), a module's init_process or ngx_add_channel_event failed.
WorkerFatal(p) ==
  /\ os[p] = "starting" /\ crashes < MaxCrashes
  /\ crashes' = crashes + 1
  /\ Dies(p, 2)

\* A worker, or the new binary's master, is killed or crashes.
Crash(p) ==
  /\ Alive(p) /\ crashes < MaxCrashes
  /\ crashes' = crashes + 1
  /\ Dies(p, 1)

\* Mutant: every command sets a flag, the bookkeeping ones too.
ChannelHandlerAllFlags(p) ==
  /\ os[p] = "running" /\ inbox[p] # <<>>
  /\ inbox' = [inbox EXCEPT ![p] = Tail(@)]
  /\ w' = [w EXCEPT ![p] = @ \cup {Head(inbox[p])}]
  /\ UNCHANGED <<master, kernel, bounds>>

ChannelHandler(p) ==
  /\ os[p] = "running" /\ inbox[p] # <<>>
  /\ inbox' = [inbox EXCEPT ![p] = Tail(@)]
  /\ w' = [w EXCEPT ![p] = @ \cup ({Head(inbox[p])} \ {"open", "close"})]
  /\ UNCHANGED <<master, kernel, bounds>>

\* exit(0), on ngx_terminate or when exiting with no timer left.
WorkerExit(p) ==
  /\ os[p] = "running"
  /\ "terminate" \in w[p] \/ "exiting" \in w[p]
  /\ UNCHANGED crashes
  /\ Dies(p, 0)

WorkerQuit(p) ==
  /\ os[p] = "running" /\ "quit" \in w[p] /\ "terminate" \notin w[p]
  /\ w' = [w EXCEPT ![p] = (@ \ {"quit"}) \cup {"exiting"}]
  /\ UNCHANGED <<master, kernel, inbox, bounds>>

WorkerReopen(p) ==
  /\ os[p] = "running" /\ "reopen" \in w[p] /\ "terminate" \notin w[p]
  /\ w' = [w EXCEPT ![p] = @ \ {"reopen"}]
  /\ UNCHANGED <<master, kernel, inbox, bounds>>

-----------------------------------------------------------------------------
(* The administrator and the clock.                                        *)

Request(sig) ==
  /\ pc # "exited" /\ requests < MaxRequests /\ sig \notin pending
  /\ requests' = requests + 1
  /\ pending' = pending \cup {sig}
  /\ UNCHANGED <<master, fdmap, os, fatal, alarm, worker, forks, crashes, fails>>

ShortAlarm ==
  /\ pc # "exited" /\ alarm = "short"
  /\ alarm' = "off" /\ pending' = pending \cup {"ALRM"}
  /\ UNCHANGED <<master, fdmap, os, fatal, worker, bounds>>

TenDays ==
  /\ pc # "exited" /\ alarm = "long" /\ requests < MaxRequests
  /\ requests' = requests + 1
  /\ alarm' = "off" /\ pending' = pending \cup {"ALRM"}
  /\ UNCHANGED <<master, fdmap, os, fatal, worker, forks, crashes, fails>>

-----------------------------------------------------------------------------
MasterStep ==
  \/ StartWorker \/ StartDone
  \/ SkipSlot \/ CommandSlot \/ KillSlot \/ SignalDone
  \/ ReapSkip \/ ReapRespawn \/ ReapRemove \/ ReapDone
  \/ LoopTop \/ Wake \/ ExitTest \/ TimerStage \/ ReconfigureStage
  \/ RestartStage \/ ReopenStage \/ ChangeBinaryStage \/ NoAcceptStage
  \/ \E sig \in AdminSignals \cup {"CHLD", "ALRM"} : Deliver(sig)

WorkerLoop(p) ==
  WorkerReady(p) \/ ChannelHandler(p) \/ WorkerExit(p) \/ WorkerQuit(p)
                 \/ WorkerReopen(p)

Next ==
  \/ MasterStep
  \/ \E p \in Pids : WorkerLoop(p) \/ WorkerFatal(p) \/ Crash(p)
  \/ \E sig \in Requests : Request(sig)
  \/ ShortAlarm \/ TenDays

Spec == Init /\ [][Next]_vars

\* The kernel schedules the master and delivers its armed timer; workers may
\* hang for ever.
FairSpec == Spec /\ WF_vars(MasterStep) /\ WF_vars(ShortAlarm)

\* The workers run, and the timers of their clients all end.
WorkersRun ==
  \E p \in Pids :
    WorkerReady(p) \/ ChannelHandler(p) \/ WorkerExit(p) \/ WorkerQuit(p)

-----------------------------------------------------------------------------
(* Properties.                                                             *)

SlotType ==
  [ pid : Pids \cup {0, NoPid}, exited : BOOLEAN, exiting : BOOLEAN,
    respawn : BOOLEAN, just_respawn : BOOLEAN, detached : BOOLEAN,
    chan : Fds \cup {NoFd} ]
FlagNames == AdminSignals \cup {"reap", "timer", "restart", "noaccepting"}
OsStates == {"unborn", "starting", "running", "binary", "zombie", "reaped"}

\* The state has the shape the C declarations give it.
TypeOK ==
  /\ tbl \in [Slots -> SlotType]
  /\ last \in 0 .. MaxProcesses /\ slot \in Slots
  /\ flags \subseteq FlagNames
  /\ new_binary \in Pids \cup {0, -1} /\ live \in BOOLEAN
  /\ delay \in 0 .. MaxDelay
  /\ pc \in StartSites \cup SignalSites \cup Stages
  /\ i \in Nat
  /\ fdmap \in [Fds -> Pids \cup {0}]
  /\ os \in [Pids -> OsStates]
  /\ fatal \subseteq Pids
  /\ pending \subseteq AdminSignals \cup {"CHLD", "ALRM"}
  /\ alarm \in {"off", "short", "long"}
  /\ w \in [Pids -> SUBSET {"quit", "terminate", "reopen", "exiting"}]
  /\ inbox \in [Pids -> Seq(Commands)]
  /\ forks \in 0 .. MaxPid
  /\ requests \in Nat /\ crashes \in Nat /\ fails \in Nat

\* The master never loses a child: every process it forked and has not yet
\* waited for is the pid of one slot below ngx_last_process that is not marked
\* exited. ngx_reap_childs shrinks and reuses the table while it walks it.
ChildrenTracked ==
  \A p \in Pids : os[p] \notin {"unborn", "reaped"} =>
    \E s \in Slots :
      /\ s < last /\ tbl[s].pid = p /\ ~tbl[s].exited
      /\ \A r \in Slots : r < last /\ tbl[r].pid = p => r = s

\* A slot says "exited" exactly of the children that were waited for, so no
\* command and no SIGKILL is ever aimed at a pid the kernel may have reused
\* without the slot being marked first.
ExitedMeansReaped ==
  \A s \in Slots : InTable(s) => (tbl[s].exited <=> os[tbl[s].pid] = "reaped")

\* No process is forked once the master has been told to stop.
NoSpawnWhileStopping ==
  [][forks' # forks => pc = "boot" \/ flags \cap {"quit", "terminate"} = {}]_vars

\* The master exits only when no worker is left (the comment at the test:
\* told to exit, and the workers have all exited).
ExitsAfterWorkers ==
  pc = "exited" => \A p \in Pids : os[p] \notin {"starting", "running"}

\* A reconfiguration tells the old workers to quit, never the ones it has
\* just started.
NewWorkersSpared ==
  pc \in {"reconf_signal", "timer_signal"} =>
    \A s \in Slots : s < last /\ tbl[s].just_respawn /\ Alive(tbl[s].pid) =>
      LET p == tbl[s].pid IN
        /\ "quit" \notin w[p]
        /\ \A k \in 1 .. Len(inbox[p]) : inbox[p][k] # "quit"

\* When the master sleeps, at most worker_processes of the workers in its
\* table are meant to go on: a reload or a ten-day restart does not add to them.
Staying == {s \in Slots : InTable(s) /\ ~tbl[s].detached /\ ~tbl[s].exiting}
WorkersBounded == pc = "suspend" => Cardinality(Staying) <= Workers

\* A reload changes neither the fate of its new workers nor their number.
WorkersReplaced == NewWorkersSpared /\ WorkersBounded

\* Service continuity: while nobody asked for a stop and neither fork() nor
\* a worker's start failed, the sleeping master has a worker that stays.
ServiceContinuity ==
  pc = "suspend" /\ flags \cap {"quit", "terminate", "noaccepting"} = {}
  /\ fails = 0 /\ fatal = {} => Staying # {}

\* A terminate request ends the master even if no worker ever reacts: the
\* doubling timer reaches SIGKILL. (A master none of whose workers could be
\* forked has no child to reap: live stays set, and it does not exit.)
TerminateExits == "terminate" \in flags ~> pc = "exited" \/ fails > 0

\* A graceful quit ends the master once the workers' clients are gone.
QuitExits ==
  WF_vars(WorkersRun) => ("quit" \in flags ~> pc = "exited" \/ fails > 0)

\* Both requests to stop end the master.
StopExits == TerminateExits /\ QuitExits

=============================================================================
