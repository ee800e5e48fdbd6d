-------------------------------- MODULE Cycle --------------------------------
(***************************************************************************)
(* The configuration cycle of a master process: how ngx_init_cycle turns   *)
(* the running configuration into the next one, keeps the sockets both     *)
(* have, opens and closes the others, moves the pid file, and rolls back   *)
(* when a step fails (core/ngx_cycle.c, ngx_open_listening_sockets() and   *)
(* ngx_set_inherited_sockets() in core/ngx_connection.c); and how a new    *)
(* binary inherits the sockets of the old one (core/nginx.c).              *)
(*                                                                         *)
(* Masters are numbered as they start; each after the first was executed   *)
(* by another that may still run. A descriptor table maps numbers to what  *)
(* is open: two masters have the same socket iff both have its address. A  *)
(* descriptor that the code forgets in an error path is "lost".            *)
(***************************************************************************)
EXTENDS Integers, Sequences, FiniteSets, SequencesExt

CONSTANTS
  Confs,        \* configuration files: [listen, files, pid]
  Rotated,      \* log files the administrator moves away
  Tries,        \* the STUB 5 of ngx_open_listening_sockets
  Connections,  \* cycle->connection_n, the same in all of them
  FirstPart,    \* elements in the first part of the first open_files
  MaxFd,        \* the limit of descriptors of a process
  MaxMasters,   \* bound: masters
  MaxRequests,  \* bound: reloads, reopens and upgrades asked for
  MaxFails      \* bound: system calls that fail

Addrs    == UNION {Range(c.listen) : c \in Confs}
Files    == UNION {Range(c.files) : c \in Confs}
PidFiles == {c.pid : c \in Confs} \X BOOLEAN  \* TRUE: with NGX_NEWPID_EXT

ASSUME CycleAssumption ==
  /\ \A c \in Confs : /\ DOMAIN c = {"listen", "files", "pid"}
                      /\ c.listen \in Seq(Range(c.listen)) /\ c.files \in Seq(Range(c.files))
                      /\ IsInjective(c.listen) /\ IsInjective(c.files)
                      /\ c.listen # <<>> /\ c.files # <<>>
  /\ Addrs \cap Files = {} /\ {"free", "lost"} \cap (Addrs \cup Files) = {}
  /\ Rotated \subseteq Files
  /\ Tries \in Nat \ {0} /\ Connections \in Nat /\ FirstPart \in Nat \ {0}
  /\ MaxFd \in Nat /\ MaxMasters \in Nat \ {0}
  /\ MaxRequests \in Nat /\ MaxFails \in Nat

Masters == 1 .. MaxMasters
Fds  == 1 .. MaxFd
NoFd == -1

VARIABLES
  pc,       \* where each master is
  cyc,      \* its ngx_cycle
  new,      \* the cycle that ngx_init_cycle is building
  fds,      \* its descriptors
  stale,    \* descriptors of files that were moved away since they were opened
  parent,   \* the master that executed it
  pidfile,  \* the master whose pid is in a pid file, or 0
  foreign,  \* addresses other processes listen on: a program, or old workers
  moved,    \* masters whose pid file was moved for a cycle that never came
  requests, fails

disk   == <<pidfile, moved>>
bounds == <<requests, fails>>
vars   == <<pc, cyc, new, fds, stale, parent, pidfile, foreign, moved, bounds>>

\* ls: listening, files: open_files, part: nalloc of that list, remain: the
\* old sockets to keep; i, tries, failed: of ngx_open_listening_sockets.
NoConf    == [listen |-> <<>>, files |-> <<>>, pid |-> "none"]
InitCycle == [conf |-> NoConf, ls |-> <<>>, files |-> <<>>, part |-> 0,
              remain |-> {}, i |-> 1, tries |-> Tries, failed |-> FALSE]

Init ==
  /\ pc = [m \in Masters |-> IF m = 1 THEN "parse" ELSE "unborn"]
  /\ cyc = [m \in Masters |-> InitCycle]
  /\ new = [m \in Masters |-> InitCycle]
  /\ fds = [m \in Masters |-> [d \in Fds |-> "free"]]
  /\ stale = [m \in Masters |-> {}]
  /\ parent = [m \in Masters |-> 0]
  /\ pidfile = [f \in PidFiles |-> 0]
  /\ foreign \in SUBSET Addrs
  /\ moved = {}
  /\ requests = 0 /\ fails = 0

Goto(m, label) == pc' = [pc EXCEPT ![m] = label]
Fault == fails < MaxFails /\ fails' = fails + 1

\* A call that opens a descriptor fails by itself or for want of a number.
OpenFault(t) ==
  IF \E d \in Fds : t[d] = "free" THEN Fault ELSE UNCHANGED fails

Alive(m) == m \in Masters /\ pc[m] \notin {"unborn", "exited"}

\* The first ngx_init_cycle of a process, on the cycle main() made up.
First(m) == cyc[m].conf = NoConf

\* A descriptor is the lowest free number.
FreeFd(t) == CHOOSE d \in Fds : t[d] = "free" /\ \A e \in 1 .. d - 1 : t[e] # "free"
CanOpen(t) == \E d \in Fds : t[d] = "free"
Opened(t, what)  == [t EXCEPT ![FreeFd(t)] = what]
Closed(t, gone)  == [d \in Fds |-> IF d \in gone THEN "free" ELSE t[d]]
FdsOf(list)      == {list[k].fd : k \in DOMAIN list} \ {NoFd}

\* exit(): the kernel closes everything; the pid file stays.
Exit(m) ==
  /\ Goto(m, "exited")
  /\ fds' = [fds EXCEPT ![m] = [d \in Fds |-> "free"]]
  /\ stale' = [stale EXCEPT ![m] = {}]
  /\ new' = [new EXCEPT ![m] = InitCycle]
  /\ cyc' = [cyc EXCEPT ![m] = InitCycle]

-----------------------------------------------------------------------------
(* Reading the configuration.                                              *)

\* A SIGHUP, obeyed unless a new binary runs.
Reload(m) ==
  /\ pc[m] = "rest" /\ requests < MaxRequests
  /\ ~\E n \in Masters : parent[n] = m /\ Alive(n)
  /\ requests' = requests + 1
  /\ Goto(m, "parse")
  /\ UNCHANGED <<cyc, new, fds, stale, parent, disk, foreign, fails>>

ListSize(old) == IF old.files = <<>> THEN FirstPart ELSE Len(old.files)

Parse(m) ==
  /\ pc[m] = "parse"
  /\ \E c \in Confs :
       new' = [new EXCEPT ![m] =
         [InitCycle EXCEPT
            !.conf = c,
            !.ls = [k \in DOMAIN c.listen |->
                      [addr |-> c.listen[k], fd |-> NoFd, new |-> FALSE,
                       ignore |-> FALSE]],
            !.files = [k \in DOMAIN c.files |-> [name |-> c.files[k], fd |-> NoFd]],
            !.part = ListSize(cyc[m])]]
  /\ Goto(m, IF First(m) THEN "files" ELSE "pid")
  /\ UNCHANGED <<cyc, fds, stale, parent, disk, foreign, bounds>>

\* A syntax error, or no memory.
ParseFails(m) ==
  /\ pc[m] = "parse" /\ Fault
  /\ IF First(m) THEN Exit(m)
                 ELSE Goto(m, "rest") /\ UNCHANGED <<cyc, new, fds, stale>>
  /\ UNCHANGED <<parent, disk, foreign, requests>>

-----------------------------------------------------------------------------
(* The pid file.                                                           *)

\* Mutant: the new binary uses the pid file of the old one.
PidNameAlways(m, conf) == <<conf.pid, FALSE>>

\* ngx_inherited and getppid() > 1 choose the name with the extension.
PidName(m, conf) == <<conf.pid, parent[m] # 0 /\ Alive(parent[m])>>

\* ngx_create_pidfile from ngx_init_cycle; the same name is left alone.
KeepPid(m) ==
  /\ pc[m] = "pid" /\ new[m].conf.pid = cyc[m].conf.pid
  /\ Goto(m, "files")
  /\ UNCHANGED <<cyc, new, fds, stale, parent, disk, foreign, bounds>>

CreatePid(m) ==
  /\ pc[m] = "pid" /\ new[m].conf.pid # cyc[m].conf.pid /\ CanOpen(fds[m])
  /\ pidfile' = [pidfile EXCEPT ![PidName(m, new[m].conf)] = m]
  /\ Goto(m, "delete_pid")
  /\ UNCHANGED <<cyc, new, fds, stale, parent, foreign, moved, bounds>>

\* ngx_delete_pidfile(old_cycle), which asks getppid() again.
DeletePid(m) ==
  /\ pc[m] = "delete_pid"
  /\ pidfile' = [pidfile EXCEPT ![PidName(m, cyc[m].conf)] = 0]
  /\ Goto(m, "files")
  /\ moved' = moved \cup {m}
  /\ UNCHANGED <<cyc, new, fds, stale, parent, foreign, bounds>>

\* open() fails, or write() does: then the file is empty and stays open.
CreatePidFails(m) ==
  /\ pc[m] = "pid" /\ new[m].conf.pid # cyc[m].conf.pid /\ OpenFault(fds[m])
  /\ \/ UNCHANGED <<fds, pidfile>>
     \/ /\ CanOpen(fds[m])
        /\ fds' = [fds EXCEPT ![m] = Opened(@, "lost")]
        /\ pidfile' = [pidfile EXCEPT ![PidName(m, new[m].conf)] = 0]
  /\ Goto(m, "rollback")
  /\ UNCHANGED <<cyc, new, stale, parent, foreign, moved, requests>>

\* main() writes the first pid file when the cycle is there.
StartPid(m) ==
  /\ pc[m] = "start" /\ CanOpen(fds[m])
  /\ pidfile' = [pidfile EXCEPT ![PidName(m, cyc[m].conf)] = m]
  /\ Goto(m, "rest")
  /\ UNCHANGED <<cyc, new, fds, stale, parent, foreign, moved, bounds>>

StartPidFails(m) ==
  /\ pc[m] = "start" /\ OpenFault(fds[m])
  /\ Exit(m)
  /\ \/ UNCHANGED pidfile
     \/ /\ CanOpen(fds[m])
        /\ pidfile' = [pidfile EXCEPT ![PidName(m, cyc[m].conf)] = 0]
  /\ UNCHANGED <<parent, foreign, moved, requests>>

-----------------------------------------------------------------------------
(* Files and sockets of the new cycle.                                     *)

\* The files of the list are opened one by one.
File(m)   == new[m].files[new[m].i]
AtFile(m) == pc[m] = "files" /\ new[m].i <= Len(new[m].files)
FileOpened(m) ==
  /\ CanOpen(fds[m])
  /\ fds' = [fds EXCEPT ![m] = Opened(@, File(m).name)]

OpenFile(m) ==
  /\ AtFile(m) /\ FileOpened(m)
  /\ new' = [new EXCEPT ![m].files[new[m].i].fd = FreeFd(fds[m]), ![m].i = @ + 1]
  /\ UNCHANGED <<pc, cyc, stale, parent, disk, foreign, bounds>>

\* open() fails, or fcntl() after it, which leaves the descriptor to the rollback.
OpenFileFails(m) ==
  /\ AtFile(m) /\ OpenFault(fds[m])
  /\ \/ UNCHANGED <<fds, new>>
     \/ /\ FileOpened(m)
        /\ new' = [new EXCEPT ![m].files[new[m].i].fd = FreeFd(fds[m])]
  /\ Goto(m, "rollback")
  /\ UNCHANGED <<cyc, stale, parent, disk, foreign, requests>>

FilesDone(m) ==
  /\ pc[m] = "files" /\ new[m].i > Len(new[m].files)
  /\ new' = [new EXCEPT ![m].i = 1]
  /\ Goto(m, "match")
  /\ UNCHANGED <<cyc, fds, stale, parent, disk, foreign, bounds>>

\* The old socket with the address of a new one, unless it is to be ignored.
OldOf(m, k) ==
  {j \in DOMAIN cyc[m].ls : /\ ~cyc[m].ls[j].ignore
                            /\ cyc[m].ls[j].addr = new[m].ls[k].addr}
TooHigh(m, k) == \E j \in OldOf(m, k) : cyc[m].ls[j].fd >= Connections

\* Mutant: every old socket is taken for one to be closed.
MatchNoRemain(m) ==
  LET old  == cyc[m].ls
      kept == {k \in DOMAIN new[m].ls : OldOf(m, k) # {} /\ ~TooHigh(m, k)}
      fd(k) == IF k \in kept THEN old[CHOOSE j \in OldOf(m, k) : TRUE].fd ELSE NoFd
  IN  /\ pc[m] = "match"
      /\ new' = [new EXCEPT
           ![m].ls = [k \in DOMAIN @ |->
                        [@[k] EXCEPT !.fd = fd(k), !.new = fd(k) = NoFd]]]
      /\ Goto(m, IF \E k \in DOMAIN new[m].ls : TooHigh(m, k) THEN "rollback"
                                                              ELSE "open")
      /\ UNCHANGED <<cyc, fds, stale, parent, disk, foreign, bounds>>

\* A socket both cycles have is handed over; one whose number is no index of
\* the connections fails the reload.
Match(m) ==
  LET old  == cyc[m].ls
      kept == {k \in DOMAIN new[m].ls : OldOf(m, k) # {} /\ ~TooHigh(m, k)}
      fd(k) == IF k \in kept THEN old[CHOOSE j \in OldOf(m, k) : TRUE].fd ELSE NoFd
  IN  /\ pc[m] = "match"
      /\ new' = [new EXCEPT
           ![m].ls = [k \in DOMAIN @ |->
                        [@[k] EXCEPT !.fd = fd(k), !.new = fd(k) = NoFd]],
           ![m].remain = UNION {OldOf(m, k) : k \in kept}]
      /\ Goto(m, IF \E k \in DOMAIN new[m].ls : TooHigh(m, k) THEN "rollback"
                                                              ELSE "open")
      /\ UNCHANGED <<cyc, fds, stale, parent, disk, foreign, bounds>>

\* ngx_open_listening_sockets, one socket per step.
InUse(a) == a \in foreign \/ \E m \in Masters : \E d \in Fds : fds[m][d] = a
Current(m) == new[m].ls[new[m].i]
AtSocket(m) == pc[m] = "open" /\ new[m].i <= Len(new[m].ls)

HasSocket(m) ==
  /\ AtSocket(m) /\ Current(m).fd # NoFd
  /\ new' = [new EXCEPT ![m].i = @ + 1]
  /\ UNCHANGED <<pc, cyc, fds, stale, parent, disk, foreign, bounds>>

OpenSocket(m) ==
  /\ AtSocket(m) /\ Current(m).fd = NoFd /\ ~InUse(Current(m).addr)
  /\ CanOpen(fds[m])
  /\ fds' = [fds EXCEPT ![m] = Opened(@, Current(m).addr)]
  /\ new' = [new EXCEPT ![m].ls[new[m].i].fd = FreeFd(fds[m]), ![m].i = @ + 1]
  /\ UNCHANGED <<pc, cyc, stale, parent, disk, foreign, bounds>>

AddressInUse(m) ==
  /\ AtSocket(m) /\ Current(m).fd = NoFd /\ InUse(Current(m).addr)
  /\ new' = [new EXCEPT ![m].failed = TRUE, ![m].i = @ + 1]
  /\ UNCHANGED <<pc, cyc, fds, stale, parent, disk, foreign, bounds>>

\* socket() fails, or a later call does, and the socket is forgotten.
OpenSocketFails(m) ==
  /\ AtSocket(m) /\ Current(m).fd = NoFd /\ OpenFault(fds[m])
  /\ \/ UNCHANGED fds
     \/ CanOpen(fds[m]) /\ fds' = [fds EXCEPT ![m] = Opened(@, "lost")]
  /\ Goto(m, "rollback")
  /\ UNCHANGED <<cyc, new, stale, parent, disk, foreign, requests>>

\* Mutant: the tries are not counted.
PassDoneAgain(m) ==
  LET again == new[m].failed IN
  /\ pc[m] = "open" /\ new[m].i > Len(new[m].ls)
  /\ new' = [new EXCEPT ![m].i = 1, ![m].failed = FALSE]
  /\ Goto(m, IF again THEN "open" ELSE "commit")
  /\ UNCHANGED <<cyc, fds, stale, parent, disk, foreign, bounds>>

\* Mutant: the last try is followed by another.
PassDoneLate(m) ==
  LET again == new[m].failed /\ new[m].tries >= 0 IN
  /\ pc[m] = "open" /\ new[m].i > Len(new[m].ls)
  /\ new' = [new EXCEPT ![m].i = 1, ![m].failed = FALSE, ![m].tries = @ - 1]
  /\ Goto(m, IF again THEN "open" ELSE IF new[m].failed THEN "rollback" ELSE "commit")
  /\ UNCHANGED <<cyc, fds, stale, parent, disk, foreign, bounds>>

PassDone(m) ==
  LET again == new[m].failed /\ new[m].tries > 1 IN
  /\ pc[m] = "open" /\ new[m].i > Len(new[m].ls)
  /\ new' = [new EXCEPT ![m].i = 1, ![m].failed = FALSE, ![m].tries = @ - 1]
  /\ Goto(m, IF again THEN "open" ELSE IF new[m].failed THEN "rollback" ELSE "commit")
  /\ UNCHANGED <<cyc, fds, stale, parent, disk, foreign, bounds>>

-----------------------------------------------------------------------------
(* Rollback and commit.                                                    *)

\* Mutant: the sockets taken over from the old cycle are closed as well.
OpenedSocketsAll(n) == FdsOf(n.ls)

\* What the rollback closes of listening: only what was opened anew.
OpenedSockets(n) == {n.ls[k].fd : k \in {j \in DOMAIN n.ls : n.ls[j].new}} \ {NoFd}

Rollback(m) ==
  /\ pc[m] = "rollback"
  /\ IF First(m)
     THEN Exit(m)
     ELSE /\ fds' = [fds EXCEPT ![m] =
                       Closed(@, FdsOf(new[m].files) \cup OpenedSockets(new[m]))]
          /\ new' = [new EXCEPT ![m] = InitCycle]
          /\ Goto(m, "rest")
          /\ UNCHANGED <<cyc, stale>>
  /\ UNCHANGED <<parent, disk, foreign, bounds>>

\* The unneeded listening sockets and the open files of the old cycle.
Unneeded(m) ==
  {cyc[m].ls[j].fd : j \in DOMAIN cyc[m].ls \ new[m].remain}
  \cup FdsOf(cyc[m].files)

\* Workers have the sockets they were forked with until they shut down.
WithWorkers(m, gone) ==
  {cyc[m].ls[j].addr : j \in {k \in DOMAIN cyc[m].ls : cyc[m].ls[k].fd \in gone}}

Commit(m) ==
  /\ pc[m] = "commit"
  /\ fds' = [fds EXCEPT ![m] = Closed(@, Unneeded(m))]
  /\ stale' = [stale EXCEPT ![m] = @ \ Unneeded(m)]
  /\ cyc' = [cyc EXCEPT ![m] = [InitCycle EXCEPT
               !.conf = new[m].conf, !.ls = new[m].ls, !.files = new[m].files,
               !.part = new[m].part]]
  /\ new' = [new EXCEPT ![m] = InitCycle]
  /\ Goto(m, IF First(m) THEN "start" ELSE "rest")
  /\ IF First(m) THEN UNCHANGED <<foreign, moved>>
     ELSE /\ foreign' = foreign \cup WithWorkers(m, Unneeded(m))
          /\ moved' = IF new[m].conf.pid # cyc[m].conf.pid THEN moved \ {m}
                                                           ELSE moved
  /\ UNCHANGED <<parent, pidfile, bounds>>

\* dup2() or a module's init_module fails: exit(1). The workers live on.
CommitFails(m) ==
  /\ pc[m] = "commit" /\ Fault
  /\ Exit(m)
  /\ foreign' = IF First(m) THEN foreign ELSE foreign \cup WithWorkers(m, Fds)
  /\ UNCHANGED <<parent, disk, requests>>

-----------------------------------------------------------------------------
(* Between reloads.                                                        *)

\* ngx_reopen_files walks the list of open files, but goes on in the first
\* part when it comes to another: the k-th visit is to this element.
Visited(m, k) == 1 + ((k - 1) % cyc[m].part)

\* The new descriptor is opened before the old one is closed; a file that
\* cannot be opened, chowned or made close-on-exec is kept as it is.
ReopenFile(m, s, k) ==
  LET f == s.l[Visited(m, k)] IN
  [t |-> Closed(Opened(s.t, f.name), {f.fd}),
   l |-> [s.l EXCEPT ![Visited(m, k)].fd = FreeFd(s.t)],
   stale |-> s.stale \ {f.fd}]

\* After the k-th visit, when the visits of kept met an error.
Reopened(m, kept) ==
  LET after[k \in 0 .. Len(cyc[m].files)] ==
        IF k = 0 THEN [t |-> fds[m], l |-> cyc[m].files, stale |-> stale[m]]
        ELSE IF k \in kept THEN after[k - 1]
        ELSE ReopenFile(m, after[k - 1], k)
  IN  after[Len(cyc[m].files)]

Reopen(m) ==
  /\ pc[m] = "rest" /\ requests < MaxRequests
  /\ requests' = requests + 1
  /\ \E kept \in SUBSET DOMAIN cyc[m].files :
       /\ IF ~CanOpen(fds[m]) THEN kept = DOMAIN cyc[m].files /\ UNCHANGED fails
          ELSE IF kept = {} THEN UNCHANGED fails ELSE Fault
       /\ fds' = [fds EXCEPT ![m] = Reopened(m, kept).t]
       /\ cyc' = [cyc EXCEPT ![m].files = Reopened(m, kept).l]
       /\ stale' = [stale EXCEPT ![m] = Reopened(m, kept).stale]
  /\ UNCHANGED <<pc, new, parent, disk, foreign>>

\* The administrator moves a log file away.
Rotate(f) ==
  /\ stale' = [m \in Masters |-> stale[m] \cup {d \in Fds : fds[m][d] = f}]
  /\ UNCHANGED <<pc, cyc, new, fds, parent, disk, foreign, bounds>>

\* ngx_exec_new_binary: the sockets are not closed on exec, the files are. The
\* list of the init cycle is not cleared memory, so a socket may be ignored.
\* A master whose own parent still runs ignores the signal.
ExecNewBinary(m) ==
  /\ pc[m] = "rest" /\ requests < MaxRequests /\ ~Alive(parent[m])
  /\ ~\E n \in Masters : parent[n] = m /\ Alive(n)
  /\ \E n \in Masters :
       /\ pc[n] = "unborn" /\ \A k \in 1 .. n - 1 : pc[k] # "unborn"
       /\ parent' = [parent EXCEPT ![n] = m]
       /\ Goto(n, "parse")
       /\ fds' = [fds EXCEPT ![n] =
                    [d \in Fds |-> IF fds[m][d] \in Files THEN "free" ELSE fds[m][d]]]
       /\ \E ignored \in SUBSET DOMAIN cyc[m].ls :
            cyc' = [cyc EXCEPT ![n] = [InitCycle EXCEPT
                      !.ls = [k \in DOMAIN cyc[m].ls |->
                                [cyc[m].ls[k] EXCEPT !.new = FALSE,
                                                     !.ignore = k \in ignored]]]]
  /\ requests' = requests + 1
  /\ UNCHANGED <<new, stale, disk, foreign, fails>>

\* ngx_master_exit.
MasterExit(m) ==
  /\ pc[m] = "rest"
  /\ pidfile' = [pidfile EXCEPT ![PidName(m, cyc[m].conf)] = 0]
  /\ Exit(m)
  /\ UNCHANGED <<parent, foreign, moved, bounds>>

Killed(m) ==
  /\ Alive(m) /\ Fault
  /\ Exit(m)
  /\ foreign' = IF First(m) THEN foreign ELSE foreign \cup WithWorkers(m, Fds)
  /\ UNCHANGED <<parent, disk, requests>>

ForeignLeaves(a) ==
  /\ a \in foreign
  /\ foreign' = foreign \ {a}
  /\ UNCHANGED <<pc, cyc, new, fds, stale, parent, disk, bounds>>

-----------------------------------------------------------------------------
Starting(m) ==
  \/ Parse(m) \/ ParseFails(m) \/ KeepPid(m) \/ CreatePid(m) \/ DeletePid(m)
  \/ CreatePidFails(m) \/ StartPid(m) \/ StartPidFails(m)
Opening(m) ==
  \/ OpenFile(m) \/ OpenFileFails(m) \/ FilesDone(m) \/ Match(m) \/ HasSocket(m) \/ OpenSocket(m)
  \/ AddressInUse(m) \/ OpenSocketFails(m) \/ PassDone(m)
InitStep(m) == Starting(m) \/ Opening(m) \/ Rollback(m) \/ Commit(m) \/ CommitFails(m)

Next ==
  \/ \E m \in Masters : \/ InitStep(m) \/ Reload(m) \/ Reopen(m)
                        \/ ExecNewBinary(m) \/ MasterExit(m) \/ Killed(m)
  \/ \E f \in Rotated : Rotate(f)
  \/ \E a \in Addrs : ForeignLeaves(a)

Spec == Init /\ [][Next]_vars

\* ngx_init_cycle is a function call: it runs on.
FairSpec == Spec /\ \A m \in Masters : WF_vars(InitStep(m))

-----------------------------------------------------------------------------
(* Properties.                                                             *)

Labels == {"unborn", "parse", "pid", "delete_pid", "files", "match", "open",
           "rollback", "commit", "start", "rest", "exited"}
FdOrNone == Fds \cup {NoFd}
CycleType ==
  [ conf : Confs \cup {NoConf},
    ls : Seq([addr : Addrs, fd : FdOrNone, new : BOOLEAN, ignore : BOOLEAN]),
    files : Seq([name : Files, fd : FdOrNone]),
    part : Nat, remain : SUBSET Nat, i : Nat, tries : 0 .. Tries,
    failed : BOOLEAN ]

\* The state has the shape the C declarations give it.
TypeOK ==
  /\ pc \in [Masters -> Labels]
  /\ cyc \in [Masters -> CycleType] /\ new \in [Masters -> CycleType]
  /\ fds \in [Masters -> [Fds -> Addrs \cup Files \cup {"free", "lost"}]]
  /\ stale \in [Masters -> SUBSET Fds]
  /\ parent \in [Masters -> Masters \cup {0}]
  /\ pidfile \in [PidFiles -> Masters \cup {0}]
  /\ foreign \subseteq Addrs /\ moved \subseteq Masters
  /\ requests \in 0 .. MaxRequests /\ fails \in 0 .. MaxFails

\* Between reloads a master's descriptors are those its cycle names, each once,
\* and the ones a known error path forgot: whatever combination of sockets
\* was kept, opened and closed, committed or rolled back, and inherited.
FdsConserved ==
  TypeOK /\ \A m \in Masters : pc[m] = "rest" =>
    LET named == FdsOf(cyc[m].ls) \cup FdsOf(cyc[m].files)
    IN  /\ {d \in Fds : fds[m][d] \notin {"free", "lost"}} = named
        /\ Cardinality(named) = Len(cyc[m].ls) + Len(cyc[m].files)

\* The running cycle is served at every step of a reload, one that fails too:
\* its sockets and its files are open until the next cycle has replaced it.
ServedThroughout ==
  \A m \in Masters : Alive(m) /\ ~First(m) =>
    /\ \A k \in DOMAIN cyc[m].ls : fds[m][cyc[m].ls[k].fd] = cyc[m].ls[k].addr
    /\ \A k \in DOMAIN cyc[m].files : fds[m][cyc[m].files[k].fd] = cyc[m].files[k].name

\* An administrator finds the pid of a running master in the pid file of its
\* configuration, or in that with the extension, although two masters of an
\* upgrade share the name. (Two exceptions: a reload that was rolled back after
\* the file was moved does not move it back; and a new binary whose parent is
\* gone keeps the name with the extension, which its own new binary takes.)
PidFileThere ==
  \A m \in Masters :
    pc[m] = "rest" /\ m \notin moved /\ ~(parent[m] # 0 /\ \E n \in Masters : parent[n] = m) =>
      \E ext \in BOOLEAN : pidfile[<<cyc[m].conf.pid, ext>>] = m

\* A reload, one that fails too, takes nothing from a running master that its
\* clients or its administrator use.
ReloadHarmless == ServedThroughout /\ PidFileThere

\* A reload ends, although an address may stay in use.
EveryReloadEnds ==
  \A m \in Masters :
    pc[m] \notin {"unborn", "rest", "exited"} ~> pc[m] \in {"rest", "exited"}

\* After a reopen that met no error no descriptor refers to a file that was
\* moved away: the walk over open_files is the one that ngx_list.h describes.
ReopenedAll ==
  [][\A m \in Masters : CanOpen(fds[m]) /\ Reopen(m) /\ UNCHANGED fails => stale'[m] = {}]_vars

=============================================================================
