---------------------------- MODULE Cycle_proofs -----------------------------
(***************************************************************************)
(* Proofs about Cycle: a reload, whatever it keeps, opens, closes or rolls *)
(* back, neither loses a descriptor nor takes a socket, a file or the pid  *)
(* file from the running cycle, also when a new binary runs beside it.     *)
(***************************************************************************)
EXTENDS Cycle, FiniteSetTheorems, SequenceTheorems, WellFoundedInduction, TLAPS

-----------------------------------------------------------------------------
(* The inductive invariant. A master is judged by where it is (l), its      *)
(* running cycle (c), the one it builds (n) and its descriptors (t).        *)

\* Every record of a list names an open descriptor, and no two are alike.
SocketsOpen(ls, t) ==
  \A k \in DOMAIN ls : ls[k].fd \in Fds /\ t[ls[k].fd] = ls[k].addr
FilesOpen(fs, t) ==
  \A k \in DOMAIN fs : fs[k].fd \in Fds /\ t[fs[k].fd] = fs[k].name
SocketsDiffer(ls) ==
  \A j, k \in DOMAIN ls : ls[j].addr = ls[k].addr => j = k
FilesDiffer(fs) ==
  \A j, k \in DOMAIN fs : fs[j].name = fs[k].name => j = k

Idle      == {"parse", "start", "rest"}
Naming    == {"pid", "delete_pid"}
Preparing == Naming \cup {"files", "match", "open"}
Later     == {"match", "open", "commit"}

\* What is running is open.
Running(l, c, t) ==
  /\ SocketsOpen(c.ls, t) /\ SocketsDiffer(c.ls)
  /\ FilesOpen(c.files, t) /\ FilesDiffer(c.files)
  /\ IF c.conf = NoConf
     THEN c.files = <<>> /\ l \notin {"start", "rest", "pid", "delete_pid"}
     ELSE c.part >= 1

\* A descriptor of the new cycle is open, and is new, but for a socket that it
\* takes over: remain has just these.
OwnFile(c, f, t) ==
  f.fd # NoFd => f.fd \in Fds /\ t[f.fd] = f.name /\ f.fd \notin FdsOf(c.files)
OwnSocket(c, s, t) ==
  s.fd # NoFd /\ s.new = TRUE => s.fd \in Fds /\ t[s.fd] = s.addr /\ s.fd \notin FdsOf(c.ls)
Kept(c, n, s) ==
  s.fd # NoFd /\ s.new = FALSE =>
    \E j \in n.remain : c.ls[j].fd = s.fd /\ c.ls[j].addr = s.addr
Coming(c, n, t) ==
  /\ SocketsDiffer(n.ls) /\ FilesDiffer(n.files)
  /\ \A k \in DOMAIN n.files : OwnFile(c, n.files[k], t)
  /\ \A k \in DOMAIN n.ls : OwnSocket(c, n.ls[k], t) /\ Kept(c, n, n.ls[k])
  /\ n.remain \subseteq DOMAIN c.ls

\* What is done of the new cycle at each stage.
Staged(l, c, n) ==
  /\ l \in Idle => n = InitCycle
  /\ l \notin Idle => n.conf \in Confs /\ n.part >= 1
  /\ l \in Preparing => n.tries >= 1
  /\ l \in Naming => n.i = 1
  /\ l = "delete_pid" => n.conf.pid # c.conf.pid
  /\ l \in Naming \cup {"files"} =>
       \A k \in DOMAIN n.files : n.files[k].fd # NoFd <=> k < n.i
  /\ l \in Naming \cup {"files", "match"} =>
       n.remain = {} /\ \A k \in DOMAIN n.ls : n.ls[k].fd = NoFd
  /\ l \in Later => \A k \in DOMAIN n.files : n.files[k].fd # NoFd
  /\ l \in {"files", "match", "open"} => n.i >= 1
  /\ l = "match" => n.i = 1
  /\ l \in Naming \cup {"files", "match"} => n.failed = FALSE
  /\ l \in {"open", "commit"} =>
       \A j \in n.remain : \E k \in DOMAIN n.ls : n.ls[k].fd = c.ls[j].fd
  /\ l = "open" => \A k \in DOMAIN n.ls : n.ls[k].fd = NoFd => n.ls[k].new = TRUE
  /\ l = "open" /\ n.failed = FALSE =>
       \A k \in DOMAIN n.ls : k < n.i => n.ls[k].fd # NoFd
  /\ l = "commit" => \A k \in DOMAIN n.ls : n.ls[k].fd # NoFd

\* What is open has a name, but for what an error path forgot.
Named(c, n, t) ==
  \A d \in Fds : t[d] \notin {"free", "lost"} =>
    d \in FdsOf(c.ls) \cup FdsOf(c.files) \cup FdsOf(n.ls) \cup FdsOf(n.files)

Sound(l, c, n, t) ==
  Running(l, c, t) /\ Coming(c, n, t) /\ Staged(l, c, n) /\ Named(c, n, t)
AllSound == \A m \in Masters : Alive(m) => Sound(pc[m], cyc[m], new[m], fds[m])

\* At most two masters run: one and the binary that it executed.
Family ==
  /\ \A m \in Masters : pc[m] = "unborn" => parent[m] = 0 /\ new[m] = InitCycle
  /\ \A m \in Masters : Alive(m) => parent[m] = 0 \/ pc[parent[m]] # "unborn"
  /\ \A m, n \in Masters : Alive(m) /\ Alive(n) /\ m # n => parent[m] = n \/ parent[n] = m
  /\ \A m \in Masters : Alive(m) /\ Alive(parent[m]) => ~Alive(parent[parent[m]])

\* Where the pid of a master is: in the file of its own name if nobody executed
\* it, in the other while the one that did runs, and later in one of them.
Exempt(m) == parent[m] # 0 /\ \E n \in Masters : parent[n] = m
There(m, pid) ==
  /\ parent[m] = 0 => pidfile[<<pid, FALSE>>] = m
  /\ Alive(parent[m]) => pidfile[<<pid, TRUE>>] = m
  /\ \E ext \in BOOLEAN : pidfile[<<pid, ext>>] = m
Moving == {"delete_pid", "files", "match", "open", "commit"}
PidKeptOf(m) ==
  Alive(m) /\ cyc[m].conf # NoConf /\ ~Exempt(m) =>
    /\ pc[m] # "start" /\ m \notin moved => There(m, cyc[m].conf.pid)
    /\ pc[m] \in Moving /\ new[m].conf.pid # cyc[m].conf.pid => There(m, new[m].conf.pid)
PidKept == \A m \in Masters : PidKeptOf(m)

IInv == TypeOK /\ AllSound /\ Family /\ PidKept

-----------------------------------------------------------------------------
(* Types.                                                                  *)

Sockets == [addr : Addrs, fd : FdOrNone, new : BOOLEAN, ignore : BOOLEAN]
Records == [name : Files, fd : FdOrNone]
Whats   == Addrs \cup Files \cup {"free", "lost"}

Typed(l, c, n, t) ==
  l \in Labels /\ c \in CycleType /\ n \in CycleType /\ t \in [Fds -> Whats]
Right(l, c, n, t) ==
  /\ Typed(l, c, n, t)
  /\ l \notin {"unborn", "exited"} => Sound(l, c, n, t)

LEMMA Numbers ==
  ASSUME CycleAssumption
  PROVE  /\ NoFd \notin Fds /\ "free" \notin Addrs /\ "free" \notin Files
         /\ "lost" \notin Addrs /\ "lost" \notin Files /\ Addrs \cap Files = {}
         /\ Tries \in Nat /\ Tries >= 1 /\ FirstPart \in Nat /\ FirstPart >= 1
         /\ NoConf \notin Confs
<1>1. NoFd \notin Fds
  BY DEF CycleAssumption, NoFd, Fds
<1>2. NoConf \notin Confs
  BY DEF CycleAssumption, NoConf
<1> QED
  BY <1>1, <1>2 DEF CycleAssumption

LEMMA ConfIs ==
  ASSUME CycleAssumption, NEW conf \in Confs
  PROVE  /\ conf.listen \in Seq(Addrs) /\ conf.files \in Seq(Files)
         /\ conf.files # <<>>
         /\ \A j, k \in DOMAIN conf.listen : conf.listen[j] = conf.listen[k] => j = k
         /\ \A j, k \in DOMAIN conf.files : conf.files[j] = conf.files[k] => j = k
<1>1. Range(conf.listen) \subseteq Addrs /\ Range(conf.files) \subseteq Files
  BY DEF Addrs, Files
<1>2. conf.listen \in Seq(Range(conf.listen)) /\ conf.files \in Seq(Range(conf.files))
  BY DEF CycleAssumption
<1>3. conf.listen \in Seq(Addrs) /\ conf.files \in Seq(Files)
  BY <1>1, <1>2
<1> QED
  BY <1>3 DEF CycleAssumption, IsInjective

LEMMA FieldsOf ==
  ASSUME NEW c \in CycleType
  PROVE  /\ c.ls \in Seq(Sockets) /\ c.files \in Seq(Records)
         /\ DOMAIN c.ls = 1 .. Len(c.ls) /\ DOMAIN c.files = 1 .. Len(c.files)
         /\ Len(c.ls) \in Nat /\ Len(c.files) \in Nat
         /\ \A k \in DOMAIN c.ls : c.ls[k] \in Sockets
         /\ \A k \in DOMAIN c.files : c.files[k] \in Records
         /\ c.conf \in Confs \cup {NoConf} /\ c.part \in Nat /\ c.remain \subseteq Nat
         /\ c.i \in Nat /\ c.tries \in 0 .. Tries /\ c.failed \in BOOLEAN
<1>1. /\ c.ls \in Seq(Sockets) /\ c.files \in Seq(Records)
      /\ c.conf \in Confs \cup {NoConf} /\ c.part \in Nat /\ c.remain \subseteq Nat
      /\ c.i \in Nat /\ c.tries \in 0 .. Tries /\ c.failed \in BOOLEAN
  BY DEF CycleType, Sockets, Records
<1> QED
  BY <1>1

LEMMA InitTyped ==
  ASSUME CycleAssumption
  PROVE  InitCycle \in CycleType
BY Numbers DEF InitCycle, CycleType, NoConf

LEMMA ArrayIsSeq ==
  ASSUME NEW S, NEW k \in Nat, NEW f \in [1 .. k -> S]
  PROVE  f \in Seq(S)
<1>1. Seq(S) = UNION {[1 .. n -> S] : n \in Nat}
  BY SeqDef, Zenon
<1> QED
  BY <1>1, Zenon

LEMMA LeastExists ==
  ASSUME NEW T, T \subseteq Nat, T # {}
  PROVE  \E x \in T : \A y \in T : x <= y
<1>1. PICK x \in T : \A y \in T : <<y, x>> \notin OpToRel(<, Nat)
  BY WFMin, NatLessThanWellFounded, Zenon
<1>2. \A y \in T : ~(y < x)
  BY <1>1, Zenon DEF OpToRel
<1> QED
  BY <1>2

LEMMA FreeFdIs ==
  ASSUME CycleAssumption, NEW t \in [Fds -> Whats], CanOpen(t)
  PROVE  FreeFd(t) \in Fds /\ t[FreeFd(t)] = "free"
<1> DEFINE T == {d \in Fds : t[d] = "free"}
<1>1. T # {} /\ T \subseteq Nat
  BY DEF CanOpen, Fds
<1>3. PICK d \in T : \A e \in T : d <= e
  BY <1>1, LeastExists
<1>4. d \in Fds /\ t[d] = "free" /\ \A e \in 1 .. d - 1 : t[e] # "free"
  BY <1>3 DEF Fds, CycleAssumption
<1> QED
  BY <1>4 DEF FreeFd
-----------------------------------------------------------------------------
(* Opening a descriptor.                                                   *)

LEMMA FreeNotNamed ==
  ASSUME CycleAssumption, NEW l, NEW c, NEW n, NEW t, Typed(l, c, n, t),
         Running(l, c, t), Coming(c, n, t), NEW d \in Fds, t[d] = "free"
  PROVE  d \notin FdsOf(c.ls) \cup FdsOf(c.files) \cup FdsOf(n.ls) \cup FdsOf(n.files)
<1>1. \A k \in DOMAIN c.ls : c.ls[k].addr \in Addrs
  BY FieldsOf DEF Typed, Sockets
<1>2. \A k \in DOMAIN c.files : c.files[k].name \in Files
  BY FieldsOf DEF Typed, Records
<1>3. \A k \in DOMAIN n.ls : n.ls[k].addr \in Addrs /\ n.ls[k].new \in BOOLEAN
  BY FieldsOf DEF Typed, Sockets
<1>4. \A k \in DOMAIN n.files : n.files[k].name \in Files
  BY FieldsOf DEF Typed, Records
<1>5. \A k \in DOMAIN c.ls : c.ls[k].fd # d
  BY <1>1, Numbers DEF Running, SocketsOpen
<1>6. \A k \in DOMAIN c.files : c.files[k].fd # d
  BY <1>2, Numbers DEF Running, FilesOpen
<1>7. \A k \in DOMAIN n.files : n.files[k].fd # d
  BY <1>4, Numbers DEF Coming, OwnFile
<1>8. ASSUME NEW k \in DOMAIN n.ls PROVE n.ls[k].fd # d
  <2>1. CASE n.ls[k].fd = NoFd
    BY <2>1, Numbers
  <2>2. CASE n.ls[k].fd # NoFd /\ n.ls[k].new = TRUE
    BY <2>2, <1>3, Numbers DEF Coming, OwnSocket
  <2>3. CASE n.ls[k].fd # NoFd /\ n.ls[k].new = FALSE
    BY <2>3, <1>5 DEF Coming, Kept
  <2> QED
    BY <2>1, <2>2, <2>3, <1>3
<1> QED
  BY <1>5, <1>6, <1>7, <1>8 DEF FdsOf

LEMMA OpenedKeeps ==
  ASSUME CycleAssumption, NEW l, NEW c, NEW n, NEW t, Typed(l, c, n, t),
         Running(l, c, t), Coming(c, n, t), CanOpen(t), NEW what \in Whats
  PROVE  /\ Opened(t, what) \in [Fds -> Whats]
         /\ Running(l, c, Opened(t, what)) /\ Coming(c, n, Opened(t, what))
<1> DEFINE d == FreeFd(t)
           u == Opened(t, what)
<1>1. d \in Fds /\ t[d] = "free" /\ u = [t EXCEPT ![d] = what]
  BY FreeFdIs DEF Opened, Typed
<1>2. u \in [Fds -> Whats] /\ \A e \in Fds : t[e] # "free" => u[e] = t[e]
  BY <1>1 DEF Typed
<1> HIDE DEF u, d
<1>3. SocketsOpen(c.ls, u)
  <2> SUFFICES ASSUME NEW k \in DOMAIN c.ls
               PROVE  c.ls[k].fd \in Fds /\ u[c.ls[k].fd] = c.ls[k].addr
    BY DEF SocketsOpen
  <2>1. c.ls[k].addr \in Addrs
    BY FieldsOf DEF Typed, Sockets
  <2> QED
    BY <2>1, <1>2, Numbers DEF Running, SocketsOpen
<1>4. FilesOpen(c.files, u)
  <2> SUFFICES ASSUME NEW k \in DOMAIN c.files
               PROVE  c.files[k].fd \in Fds /\ u[c.files[k].fd] = c.files[k].name
    BY DEF FilesOpen
  <2>1. c.files[k].name \in Files
    BY FieldsOf DEF Typed, Records
  <2> QED
    BY <2>1, <1>2, Numbers DEF Running, FilesOpen
<1>5. ASSUME NEW k \in DOMAIN n.files PROVE OwnFile(c, n.files[k], u)
  <2>1. n.files[k].name \in Files
    BY FieldsOf DEF Typed, Records
  <2> QED
    BY <2>1, <1>2, Numbers DEF Coming, OwnFile
<1>6. ASSUME NEW k \in DOMAIN n.ls PROVE OwnSocket(c, n.ls[k], u)
  <2>1. n.ls[k].addr \in Addrs
    BY FieldsOf DEF Typed, Sockets
  <2> QED
    BY <2>1, <1>2, Numbers DEF Coming, OwnSocket
<1>7. Running(l, c, u)
  BY <1>3, <1>4 DEF Running
<1>8. Coming(c, n, u)
  BY <1>5, <1>6 DEF Coming
<1> QED
  BY <1>2, <1>7, <1>8 DEF u

\* A descriptor that an error path forgets.
LEMMA LostIsSound ==
  ASSUME CycleAssumption, NEW l, NEW c, NEW n, NEW t, Right(l, c, n, t),
         l \notin {"unborn", "exited"}, CanOpen(t)
  PROVE  Right(l, c, n, Opened(t, "lost"))
<1> DEFINE u == Opened(t, "lost")
<1>1. Typed(l, c, n, t) /\ Sound(l, c, n, t)
  BY DEF Right
<1>2. Running(l, c, t) /\ Coming(c, n, t) /\ "lost" \in Whats
  BY <1>1 DEF Sound, Whats
<1>3. u \in [Fds -> Whats] /\ Running(l, c, u) /\ Coming(c, n, u)
  BY <1>1, <1>2, OpenedKeeps
<1>4. FreeFd(t) \in Fds /\ u = [t EXCEPT ![FreeFd(t)] = "lost"]
  BY <1>1, FreeFdIs DEF Opened, Typed
<1>5. Named(c, n, u)
  BY <1>1, <1>4 DEF Sound, Named, Typed
<1> HIDE DEF u
<1>6. Sound(l, c, n, u) /\ Typed(l, c, n, u)
  BY <1>1, <1>3, <1>5 DEF Sound, Typed
<1>7. Right(l, c, n, u)
  BY <1>6 DEF Right
<1> QED
  BY <1>7 DEF u

-----------------------------------------------------------------------------
(* The files of the new cycle.                                             *)

LEMMA FileSet ==
  ASSUME NEW fs \in Seq(Records), NEW i \in DOMAIN fs, NEW d \in Fds
  PROVE  LET gs == [fs EXCEPT ![i].fd = d]
         IN  /\ gs \in Seq(Records) /\ DOMAIN gs = DOMAIN fs /\ Len(gs) = Len(fs)
             /\ \A k \in DOMAIN fs : gs[k].name = fs[k].name
             /\ gs[i].fd = d
             /\ \A k \in DOMAIN fs : k # i => gs[k] = fs[k]
<1>1. fs[i] \in Records /\ d \in FdOrNone
  BY DEF FdOrNone
<1>2. [fs[i] EXCEPT !.fd = d] \in Records
  BY <1>1 DEF Records
<1>3. [fs EXCEPT ![i].fd = d] \in Seq(Records)
  BY <1>2
<1>4. [fs[i] EXCEPT !.fd = d].name = fs[i].name /\ [fs[i] EXCEPT !.fd = d].fd = d
  BY <1>1 DEF Records
<1>5. DOMAIN fs = 1 .. Len(fs) /\ Len(fs) \in Nat
  OBVIOUS
<1> DEFINE gs == [fs EXCEPT ![i].fd = d]
<1>6. DOMAIN gs = DOMAIN fs /\ gs[i] = [fs[i] EXCEPT !.fd = d]
      /\ \A k \in DOMAIN fs : k # i => gs[k] = fs[k]
  OBVIOUS
<1>7. gs \in Seq(Records)
  BY <1>3
<1> HIDE DEF gs
<1>8. Len(gs) = Len(fs)
  BY <1>5, <1>6, <1>7
<1> QED
  BY <1>4, <1>6, <1>7, <1>8 DEF gs

\* The current file of the new cycle gets the descriptor that was opened.
LEMMA FileAdded ==
  ASSUME CycleAssumption, NEW l, NEW c, NEW n, NEW t, NEW n2,
         Typed(l, c, n, t), Running(l, c, t), Coming(c, n, t), Named(c, n, t), CanOpen(t),
         n.i \in DOMAIN n.files, n2 \in CycleType,
         n2.files = [n.files EXCEPT ![n.i].fd = FreeFd(t)],
         n.files[n.i].fd = NoFd,
         n2.ls = n.ls, n2.remain = n.remain
  PROVE  LET u == Opened(t, n.files[n.i].name)
         IN  u \in [Fds -> Whats] /\ Running(l, c, u) /\ Coming(c, n2, u) /\ Named(c, n2, u)
<1> DEFINE d == FreeFd(t)
           what == n.files[n.i].name
           u == Opened(t, what)
<1>1. n.files \in Seq(Records) /\ \A k \in DOMAIN n.files : n.files[k] \in Records
  BY FieldsOf DEF Typed
<1>2. what \in Whats
  BY <1>1 DEF Records, Whats
<1>3. u \in [Fds -> Whats] /\ Running(l, c, u) /\ Coming(c, n, u)
  BY <1>2, OpenedKeeps
<1>4. d \in Fds /\ t[d] = "free" /\ u = [t EXCEPT ![d] = what]
  BY FreeFdIs DEF Opened, Typed
<1>5. d \notin FdsOf(c.files) /\ u[d] = what
  BY <1>4, FreeNotNamed DEF Typed
<1>6. /\ DOMAIN n2.files = DOMAIN n.files
      /\ \A k \in DOMAIN n.files : n2.files[k].name = n.files[k].name
      /\ n2.files[n.i].fd = d
      /\ \A k \in DOMAIN n.files : k # n.i => n2.files[k] = n.files[k]
  BY SMTT(30), <1>1, <1>4, FileSet
<1> HIDE DEF u, d
<1>7. OwnFile(c, n2.files[n.i], u)
  BY <1>4, <1>5, <1>6 DEF OwnFile
<1>8. \A k \in DOMAIN n2.files : OwnFile(c, n2.files[k], u)
  BY <1>3, <1>6, <1>7 DEF Coming
<1>9. FilesDiffer(n2.files)
  BY <1>3, <1>6 DEF Coming, FilesDiffer
<1>10. Coming(c, n2, u)
  BY <1>3, <1>8, <1>9 DEF Coming, Kept
<1>11. FdsOf(n.files) \cup {d} \subseteq FdsOf(n2.files)
  <2>1. ASSUME NEW k \in DOMAIN n.files, n.files[k].fd # NoFd
        PROVE  n.files[k].fd \in FdsOf(n2.files)
    <3>1. k # n.i
      BY <2>1
    <3> QED
      BY <3>1, <2>1, <1>6 DEF FdsOf
  <2>2. d \in FdsOf(n2.files)
    BY <1>4, <1>6, Numbers DEF FdsOf
  <2> QED
    BY <2>1, <2>2 DEF FdsOf
<1>12. Named(c, n2, u)
  BY <1>4, <1>11 DEF Named, Typed
<1> QED
  BY <1>3, <1>10, <1>12 DEF u

LEMMA FileOpenedRight ==
  ASSUME CycleAssumption, NEW c, NEW n, NEW t, Right("files", c, n, t),
         n.i <= Len(n.files), CanOpen(t)
  PROVE  LET u == Opened(t, n.files[n.i].name)
         IN  /\ Right("files", c, [n EXCEPT !.files[n.i].fd = FreeFd(t), !.i = @ + 1], u)
             /\ Right("rollback", c, [n EXCEPT !.files[n.i].fd = FreeFd(t)], u)
<1> DEFINE d == FreeFd(t)
           u == Opened(t, n.files[n.i].name)
           gs == [n.files EXCEPT ![n.i].fd = d]
           n2 == [n EXCEPT !.files[n.i].fd = d, !.i = @ + 1]
           n3 == [n EXCEPT !.files[n.i].fd = d]
<1>1. Typed("files", c, n, t) /\ Sound("files", c, n, t)
  BY DEF Right
<1>2. Running("files", c, t) /\ Coming(c, n, t) /\ Named(c, n, t) /\ Staged("files", c, n)
  BY <1>1 DEF Sound
<1>3. /\ n \in CycleType /\ c \in CycleType /\ t \in [Fds -> Whats]
  BY <1>1 DEF Typed
<1>4. /\ n.files \in Seq(Records) /\ DOMAIN n.files = 1 .. Len(n.files)
      /\ Len(n.files) \in Nat /\ n.i \in Nat
  BY <1>3, FieldsOf
<1>5. n.i \in DOMAIN n.files /\ n.files[n.i].fd = NoFd
  BY <1>2, <1>4 DEF Staged
<1>6. d \in Fds
  BY <1>3, FreeFdIs
<1> HIDE DEF d
<1>7. /\ gs \in Seq(Records) /\ DOMAIN gs = DOMAIN n.files /\ gs[n.i].fd = d
      /\ \A k \in DOMAIN n.files : k # n.i => gs[k] = n.files[k]
  BY <1>4, <1>5, <1>6, FileSet
<1>9. /\ n3 \in CycleType /\ n3.files = gs
      /\ n3.conf = n.conf /\ n3.ls = n.ls /\ n3.part = n.part /\ n3.remain = n.remain
      /\ n3.tries = n.tries /\ n3.failed = n.failed
  BY <1>3, <1>4, <1>7 DEF CycleType, Records
<1>80. n2 = [n3 EXCEPT !.i = n.i + 1] /\ n.i + 1 \in Nat
  BY SMTT(30), <1>3, <1>4 DEF CycleType
<1> HIDE DEF n2, n3
<1>8. /\ n2 \in CycleType /\ n2.files = gs /\ n2.i = n.i + 1
      /\ n2.conf = n.conf /\ n2.ls = n.ls /\ n2.part = n.part /\ n2.remain = n.remain
      /\ n2.tries = n.tries /\ n2.failed = n.failed
  BY <1>9, <1>80 DEF CycleType
<1> HIDE DEF gs
<1>10. u \in [Fds -> Whats] /\ Running("files", c, u) /\ Coming(c, n2, u) /\ Named(c, n2, u)
  BY <1>1, <1>2, <1>5, <1>8, FileAdded DEF gs, d
<1>11. Coming(c, n3, u) /\ Named(c, n3, u)
  BY <1>1, <1>2, <1>5, <1>9, FileAdded DEF gs, d
<1> HIDE DEF u
<1>12. \A k \in DOMAIN gs : gs[k].fd # NoFd <=> k < n.i + 1
  <2>1. ASSUME NEW k \in DOMAIN n.files PROVE gs[k].fd # NoFd <=> k < n.i + 1
    <3>1. CASE k = n.i
      BY <3>1, <1>4, <1>6, <1>7, Numbers
    <3>2. CASE k # n.i
      BY <3>2, <1>2, <1>4, <1>7 DEF Staged
    <3> QED
      BY <3>1, <3>2
  <2> QED
    BY <2>1, <1>7
<1>13. Staged("files", c, n2)
  BY <1>2, <1>4, <1>8, <1>12 DEF Staged, Idle, Naming, Preparing, Later
<1>14. Staged("rollback", c, n3)
  BY <1>2, <1>9 DEF Staged, Idle, Naming, Preparing, Later
<1>15. Running("rollback", c, u)
  BY <1>10 DEF Running
<1>16. Sound("files", c, n2, u) /\ Sound("rollback", c, n3, u)
  BY <1>10, <1>11, <1>13, <1>14, <1>15 DEF Sound
<1>17. Typed("files", c, n2, u) /\ Typed("rollback", c, n3, u)
  BY <1>3, <1>8, <1>9, <1>10 DEF Typed, Labels
<1>18. Right("files", c, n2, u) /\ Right("rollback", c, n3, u)
  BY <1>16, <1>17 DEF Right
<1> QED
  BY <1>18 DEF n2, n3, u, d

-----------------------------------------------------------------------------
(* Steps that open and close nothing.                                      *)

LEMMA Restaged ==
  ASSUME NEW l, NEW l2, NEW c, NEW n, NEW n2, NEW t, Right(l, c, n, t),
         l \notin {"unborn", "exited"}, l2 \in Labels, n2 \in CycleType,
         n2.ls = n.ls, n2.files = n.files, n2.remain = n.remain, Staged(l2, c, n2),
         c.conf = NoConf => l2 \notin {"start", "rest", "pid", "delete_pid"}
  PROVE  Right(l2, c, n2, t)
<1>1. Typed(l, c, n, t) /\ Sound(l, c, n, t)
  BY DEF Right
<1>2. Running(l, c, t) /\ Coming(c, n, t) /\ Named(c, n, t)
  BY <1>1 DEF Sound
<1>3. Running(l2, c, t)
  BY <1>2 DEF Running
<1>4. Coming(c, n2, t)
  BY <1>2 DEF Coming, Kept
<1>5. Named(c, n2, t)
  BY <1>2 DEF Named
<1>6. Sound(l2, c, n2, t) /\ Typed(l2, c, n2, t)
  BY <1>1, <1>3, <1>4, <1>5 DEF Sound, Typed
<1> QED
  BY <1>6 DEF Right

LEMMA ListSizeIs ==
  ASSUME CycleAssumption, NEW c \in CycleType
  PROVE  ListSize(c) \in Nat /\ ListSize(c) >= 1
<1>1. c.files \in Seq(Records) /\ Len(c.files) \in Nat
  BY FieldsOf
<1>2. CASE c.files = <<>>
  BY <1>2, Numbers DEF ListSize
<1>3. CASE c.files # <<>>
  <2>1. Len(c.files) # 0
    BY <1>1, <1>3, EmptySeq
  <2> QED
    BY <2>1, <1>1, <1>3 DEF ListSize
<1> QED
  BY <1>2, <1>3

\* The new cycle as the configuration file makes it.
Read(c, conf) ==
  [InitCycle EXCEPT
     !.conf = conf,
     !.ls = [k \in DOMAIN conf.listen |->
               [addr |-> conf.listen[k], fd |-> NoFd, new |-> FALSE, ignore |-> FALSE]],
     !.files = [k \in DOMAIN conf.files |-> [name |-> conf.files[k], fd |-> NoFd]],
     !.part = ListSize(c)]

IsRead(n, c, conf) ==
  /\ n \in CycleType /\ n.conf = conf /\ n.remain = {} /\ n.i = 1
  /\ n.tries = Tries /\ n.part = ListSize(c) /\ n.failed = FALSE
  /\ DOMAIN n.ls = DOMAIN conf.listen /\ DOMAIN n.files = DOMAIN conf.files
  /\ \A k \in DOMAIN n.ls : n.ls[k].addr = conf.listen[k] /\ n.ls[k].fd = NoFd
  /\ \A k \in DOMAIN n.files : n.files[k].name = conf.files[k] /\ n.files[k].fd = NoFd

LEMMA ReadIs ==
  ASSUME CycleAssumption, NEW c \in CycleType, NEW conf \in Confs
  PROVE  IsRead(Read(c, conf), c, conf)
<1> DEFINE ls == [k \in DOMAIN conf.listen |->
                    [addr |-> conf.listen[k], fd |-> NoFd, new |-> FALSE, ignore |-> FALSE]]
           fs == [k \in DOMAIN conf.files |-> [name |-> conf.files[k], fd |-> NoFd]]
           n  == Read(c, conf)
<1>1. conf.listen \in Seq(Addrs) /\ conf.files \in Seq(Files)
  BY ConfIs
<1>2. ls \in [1 .. Len(conf.listen) -> Sockets] /\ Len(conf.listen) \in Nat
  BY <1>1 DEF Sockets, FdOrNone
<1>3. fs \in [1 .. Len(conf.files) -> Records] /\ Len(conf.files) \in Nat
  BY <1>1 DEF Records, FdOrNone
<1>50. n = [InitCycle EXCEPT !.conf = conf, !.ls = ls, !.files = fs, !.part = ListSize(c)]
  BY DEF Read
<1> HIDE DEF ls, fs, n
<1>4. ls \in Seq(Sockets) /\ fs \in Seq(Records)
  BY <1>2, <1>3, ArrayIsSeq
<1>5. n = [conf |-> conf, ls |-> ls, files |-> fs, part |-> ListSize(c), remain |-> {},
           i |-> 1, tries |-> Tries, failed |-> FALSE]
  BY <1>50 DEF InitCycle
<1>6. ListSize(c) \in Nat
  BY ListSizeIs
<1>7. n \in CycleType
  BY <1>4, <1>5, <1>6, Numbers DEF CycleType, Sockets, Records
<1>8. /\ DOMAIN ls = DOMAIN conf.listen /\ DOMAIN fs = DOMAIN conf.files
      /\ \A k \in DOMAIN ls : ls[k].addr = conf.listen[k] /\ ls[k].fd = NoFd
      /\ \A k \in DOMAIN fs : fs[k].name = conf.files[k] /\ fs[k].fd = NoFd
  BY DEF ls, fs
<1>9. n.conf = conf /\ n.remain = {} /\ n.i = 1 /\ n.tries = Tries
      /\ n.part = ListSize(c) /\ n.ls = ls /\ n.files = fs /\ n.failed = FALSE
  BY <1>5
<1> QED
  BY <1>7, <1>8, <1>9 DEF n, IsRead

LEMMA ReadRight ==
  ASSUME CycleAssumption, NEW c, NEW n, NEW t, Right("parse", c, n, t), NEW conf \in Confs,
         NEW l \in {"files", "pid"}, c.conf = NoConf => l = "files"
  PROVE  Right(l, c, Read(c, conf), t)
<1> DEFINE v == Read(c, conf)
<1>1. Typed("parse", c, n, t) /\ Sound("parse", c, n, t)
  BY DEF Right
<1>2. Running("parse", c, t) /\ Named(c, n, t) /\ n = InitCycle
  BY <1>1 DEF Sound, Staged, Idle
<1>3. c \in CycleType
  BY <1>1 DEF Typed
<1>40. IsRead(v, c, conf)
  BY <1>3, ReadIs
<1> HIDE DEF v
<1>4. /\ v \in CycleType /\ v.conf = conf /\ v.remain = {} /\ v.i = 1
      /\ v.tries = Tries /\ v.part = ListSize(c) /\ v.failed = FALSE
      /\ DOMAIN v.ls = DOMAIN conf.listen /\ DOMAIN v.files = DOMAIN conf.files
      /\ \A k \in DOMAIN v.ls : v.ls[k].addr = conf.listen[k] /\ v.ls[k].fd = NoFd
      /\ \A k \in DOMAIN v.files : v.files[k].name = conf.files[k] /\ v.files[k].fd = NoFd
  BY <1>40 DEF IsRead
<1>5. SocketsDiffer(v.ls) /\ FilesDiffer(v.files)
  BY <1>4, ConfIs DEF SocketsDiffer, FilesDiffer
<1>6. Coming(c, v, t)
  BY <1>4, <1>5 DEF Coming, OwnFile, OwnSocket, Kept
<1>7. Named(c, v, t)
  BY <1>2 DEF Named, InitCycle, FdsOf
<1>8. Running(l, c, t)
  BY <1>2 DEF Running
<1>9. \A k \in DOMAIN v.files : v.files[k].fd # NoFd <=> k < v.i
  <2>1. DOMAIN v.files = 1 .. Len(v.files) /\ Len(v.files) \in Nat
    BY <1>4, FieldsOf
  <2> QED
    BY <2>1, <1>4
<1>10. ListSize(c) >= 1 /\ Tries >= 1
  BY <1>3, ListSizeIs, Numbers
<1>11. Staged(l, c, v)
  BY <1>4, <1>9, <1>10 DEF Staged, Idle, Naming, Preparing, Later
<1>12. Sound(l, c, v, t)
  BY <1>6, <1>7, <1>8, <1>11 DEF Sound
<1>13. Typed(l, c, v, t)
  BY <1>1, <1>4 DEF Typed, Labels
<1>14. Right(l, c, v, t)
  BY <1>12, <1>13 DEF Right
<1> QED
  BY <1>14 DEF v

-----------------------------------------------------------------------------
(* The sockets of the new cycle.                                           *)

\* A record of a socket that takes over a descriptor, or takes none.
Matched(s, d) == [s EXCEPT !.fd = d, !.new = d = NoFd]
LEMMA MatchedSocket ==
  ASSUME NEW s \in Sockets, NEW d \in FdOrNone
  PROVE  /\ Matched(s, d) \in Sockets /\ Matched(s, d).addr = s.addr
         /\ Matched(s, d).fd = d
         /\ d = NoFd => Matched(s, d).new = TRUE
         /\ d # NoFd => Matched(s, d).new = FALSE
<1> DEFINE b == d = NoFd
           r == [s EXCEPT !.fd = d, !.new = b]
<1>1. /\ b \in BOOLEAN
      /\ d = NoFd => b = TRUE
      /\ d # NoFd => b = FALSE
  BY Zenon
<1>3. r = Matched(s, d)
  BY DEF Matched
<1> HIDE DEF b
<1>2. r \in Sockets /\ r.addr = s.addr /\ r.fd = d /\ r.new = b
  BY <1>1 DEF Sockets
<1> HIDE DEF r
<1>4. (d = NoFd => r.new = TRUE) /\ (d # NoFd => r.new = FALSE)
  BY <1>1, <1>2
<1> QED
  BY <1>2, <1>3, <1>4, Zenon

With(n, ls, rem) == [n EXCEPT !.ls = ls, !.remain = rem]
LEMMA WithIs ==
  ASSUME NEW n \in CycleType, NEW ls \in Seq(Sockets), NEW rem \in SUBSET Nat
  PROVE  /\ With(n, ls, rem) \in CycleType
         /\ With(n, ls, rem).ls = ls /\ With(n, ls, rem).remain = rem
         /\ With(n, ls, rem).conf = n.conf /\ With(n, ls, rem).i = n.i
         /\ With(n, ls, rem).files = n.files /\ With(n, ls, rem).part = n.part
         /\ With(n, ls, rem).tries = n.tries /\ With(n, ls, rem).failed = n.failed
BY DEF CycleType, Sockets, With

LEMMA MatchRight ==
  ASSUME CycleAssumption, NEW m \in Masters, Right(pc[m], cyc[m], new[m], fds[m]),
         pc \in [Masters -> Labels], new \in [Masters -> CycleType], Match(m)
  PROVE  Right(pc'[m], cyc[m], new'[m], fds[m])
<1> DEFINE c == cyc[m]
           n == new[m]
           t == fds[m]
           kept == {k \in DOMAIN n.ls : OldOf(m, k) # {} /\ ~TooHigh(m, k)}
           fd(k) == IF k \in kept THEN c.ls[CHOOSE j \in OldOf(m, k) : TRUE].fd ELSE NoFd
           ls == [k \in DOMAIN n.ls |-> Matched(n.ls[k], fd(k))]
           rem == UNION {OldOf(m, k) : k \in kept}
           v == With(n, ls, rem)
<1>1. Typed("match", c, n, t) /\ Sound("match", c, n, t) /\ pc[m] = "match"
  BY DEF Right, Match
<1>2. Running("match", c, t) /\ Coming(c, n, t) /\ Named(c, n, t) /\ Staged("match", c, n)
  BY <1>1 DEF Sound
<1>3. n \in CycleType /\ c \in CycleType /\ t \in [Fds -> Whats]
  BY <1>1 DEF Typed
<1>4. /\ n.ls \in Seq(Sockets) /\ DOMAIN n.ls = 1 .. Len(n.ls) /\ Len(n.ls) \in Nat
      /\ \A k \in DOMAIN n.ls : n.ls[k] \in Sockets
      /\ DOMAIN c.ls = 1 .. Len(c.ls) /\ Len(c.ls) \in Nat
      /\ \A k \in DOMAIN c.ls : c.ls[k] \in Sockets
  BY <1>3, FieldsOf
<1>5. new'[m] = v
  BY DEF Match, Matched, With
<1>6. pc'[m] \in {"open", "rollback"}
  BY DEF Match, Goto
\* There is at most one old socket with the address.
<1>7. ASSUME NEW k \in kept
      PROVE  \E j \in DOMAIN c.ls : /\ OldOf(m, k) = {j} /\ fd(k) = c.ls[j].fd
                                    /\ c.ls[j].addr = n.ls[k].addr /\ fd(k) \in Fds
  <2>1. PICK j \in OldOf(m, k) : TRUE
    OBVIOUS
  <2>2. j \in DOMAIN c.ls /\ c.ls[j].addr = n.ls[k].addr
    BY <2>1 DEF OldOf
  <2>3. \A h \in OldOf(m, k) : h = j
    BY <2>2, <1>2 DEF OldOf, Running, SocketsDiffer
  <2>4. OldOf(m, k) = {j}
    BY <2>1, <2>3
  <2>5. fd(k) = c.ls[j].fd
    BY <2>4
  <2>6. c.ls[j].fd \in Fds
    BY <2>2, <1>2 DEF Running, SocketsOpen
  <2> QED
    BY <2>2, <2>4, <2>5, <2>6
<1>8. \A k \in DOMAIN n.ls : k \notin kept => fd(k) = NoFd
  OBVIOUS
<1>9. \A k \in DOMAIN n.ls : fd(k) \in FdOrNone
  BY <1>7, <1>8 DEF FdOrNone
<1>10. /\ kept \subseteq DOMAIN n.ls
       /\ \A j \in rem : \E k \in kept : j \in OldOf(m, k)
       /\ \A k \in kept : OldOf(m, k) \subseteq rem
  OBVIOUS
<1> HIDE DEF fd, kept, rem
<1>11. DOMAIN ls = DOMAIN n.ls /\ \A k \in DOMAIN n.ls : ls[k] = Matched(n.ls[k], fd(k))
  BY Zenon
<1> HIDE DEF ls
<1>12. \A k \in DOMAIN n.ls :
         /\ ls[k] \in Sockets /\ ls[k].addr = n.ls[k].addr /\ ls[k].fd = fd(k)
         /\ fd(k) = NoFd => ls[k].new = TRUE
         /\ fd(k) # NoFd => ls[k].new = FALSE
  <2> SUFFICES ASSUME NEW k \in DOMAIN n.ls
               PROVE  /\ ls[k] \in Sockets /\ ls[k].addr = n.ls[k].addr /\ ls[k].fd = fd(k)
                      /\ fd(k) = NoFd => ls[k].new = TRUE
                      /\ fd(k) # NoFd => ls[k].new = FALSE
    BY Zenon
  <2>1. n.ls[k] \in Sockets /\ fd(k) \in FdOrNone /\ ls[k] = Matched(n.ls[k], fd(k))
    BY <1>4, <1>9, <1>11, Zenon
  <2> DEFINE s == n.ls[k]
             d == fd(k)
             r == Matched(s, d)
  <2>2. s \in Sockets /\ d \in FdOrNone
    BY <2>1
  <2> HIDE DEF s, d
  <2>3. /\ r \in Sockets /\ r.addr = s.addr /\ r.fd = d
        /\ d = NoFd => r.new = TRUE
        /\ d # NoFd => r.new = FALSE
    BY <2>2, MatchedSocket
  <2> HIDE DEF r
  <2>4. r = ls[k]
    BY <2>1, Zenon DEF r, s, d
  <2> QED
    BY <2>3, <2>4, Zenon DEF s, d
<1>13. ls \in Seq(Sockets)
  <2>1. ls = [k \in 1 .. Len(n.ls) |-> ls[k]]
    BY <1>4, <1>11 DEF ls
  <2>2. ls \in [1 .. Len(n.ls) -> Sockets]
    BY <2>1, <1>4, <1>11, <1>12
  <2> QED
    BY <2>2, <1>4, ArrayIsSeq
<1>14. rem \subseteq DOMAIN c.ls
  BY <1>10 DEF OldOf
<1>15. /\ v \in CycleType /\ v.ls = ls /\ v.remain = rem /\ v.conf = n.conf /\ v.i = n.i
       /\ v.files = n.files /\ v.part = n.part /\ v.tries = n.tries /\ v.failed = n.failed
  <2>1. rem \in SUBSET Nat
    BY <1>4, <1>14
  <2> HIDE DEF n
  <2> QED
    BY <2>1, <1>3, <1>13, WithIs
<1> HIDE DEF v
<1>16. SocketsDiffer(v.ls)
  <2>1. SocketsDiffer(ls)
    BY <1>2, <1>11, <1>12 DEF Coming, SocketsDiffer
  <2> QED
    BY <2>1, <1>15
<1>17. ASSUME NEW k \in DOMAIN v.ls PROVE OwnSocket(c, v.ls[k], t) /\ Kept(c, v, v.ls[k])
  <2>1. CASE k \in kept
    <3>1. PICK j \in DOMAIN c.ls : /\ OldOf(m, k) = {j} /\ fd(k) = c.ls[j].fd
                                   /\ c.ls[j].addr = n.ls[k].addr /\ fd(k) \in Fds
      BY <1>7, <2>1
    <3>2. j \in rem
      <4>1. OldOf(m, k) \subseteq rem /\ j \in OldOf(m, k)
        BY <1>10, <2>1, <3>1, Zenon
      <4> QED
        BY <4>1
    <3>3. v.ls[k].new = FALSE /\ v.ls[k].fd = c.ls[j].fd /\ v.ls[k].addr = c.ls[j].addr
      BY <1>10, <1>12, <1>15, <2>1, <3>1, Numbers
    <3> QED
      BY <3>2, <3>3, <1>15 DEF OwnSocket, Kept
  <2>2. CASE k \notin kept
    BY <2>2, <1>8, <1>11, <1>12, <1>15 DEF OwnSocket, Kept
  <2> QED
    BY <2>1, <2>2
<1>18. Coming(c, v, t)
  BY <1>2, <1>14, <1>15, <1>16, <1>17 DEF Coming
<1>19. Named(c, v, t)
  <2>1. FdsOf(n.ls) = {}
    BY <1>2 DEF Staged, Naming, FdsOf
  <2> QED
    BY <2>1, <1>2, <1>15 DEF Named
<1>20. \A j \in rem : \E k \in DOMAIN v.ls : v.ls[k].fd = c.ls[j].fd
  <2> SUFFICES ASSUME NEW j \in rem PROVE \E k \in DOMAIN v.ls : v.ls[k].fd = c.ls[j].fd
    OBVIOUS
  <2>1. PICK k \in kept : j \in OldOf(m, k)
    BY <1>10
  <2>2. fd(k) = c.ls[j].fd
    BY <2>1, <1>7
  <2>3. k \in DOMAIN ls /\ ls[k].fd = c.ls[j].fd
    BY <2>1, <2>2, <1>10, <1>11, <1>12
  <2> QED
    BY <2>3, <1>15
<1>21. \A k \in DOMAIN v.ls : v.ls[k].fd = NoFd => v.ls[k].new = TRUE
  BY <1>11, <1>12, <1>15
<1>22. \A k \in DOMAIN v.ls : ~(k < v.i)
  <2>1. v.i = 1
    BY <1>2, <1>15 DEF Staged
  <2>2. \A k \in DOMAIN ls : k \in Nat /\ k >= 1
    BY <1>4, <1>11
  <2> QED
    BY <2>1, <2>2, <1>15
<1>23. Staged("open", c, v)
  BY <1>2, <1>15, <1>20, <1>21, <1>22 DEF Staged, Idle, Naming, Preparing, Later
<1>24. Staged("rollback", c, v)
  BY <1>2, <1>15 DEF Staged, Idle, Naming, Preparing, Later
<1>25. \A l \in {"open", "rollback"} : Running(l, c, t)
  BY <1>2 DEF Running
<1>26. \A l \in {"open", "rollback"} : Sound(l, c, v, t) /\ Typed(l, c, v, t)
  BY <1>3, <1>15, <1>18, <1>19, <1>23, <1>24, <1>25 DEF Sound, Typed, Labels
<1> QED
  BY <1>5, <1>6, <1>26 DEF Right

LEMMA SocketSet ==
  ASSUME NEW ls \in Seq(Sockets), NEW i \in DOMAIN ls, NEW d \in Fds
  PROVE  LET gs == [ls EXCEPT ![i].fd = d]
         IN  /\ gs \in Seq(Sockets) /\ DOMAIN gs = DOMAIN ls
             /\ \A k \in DOMAIN ls : gs[k].addr = ls[k].addr /\ gs[k].new = ls[k].new
             /\ gs[i].fd = d
             /\ \A k \in DOMAIN ls : k # i => gs[k] = ls[k]
<1>1. ls[i] \in Sockets /\ d \in FdOrNone
  BY DEF FdOrNone
<1> DEFINE r == [ls[i] EXCEPT !.fd = d]
           gs == [ls EXCEPT ![i].fd = d]
<1>2. r \in Sockets /\ r.addr = ls[i].addr /\ r.new = ls[i].new /\ r.fd = d
  BY <1>1 DEF Sockets
<1>3. gs \in Seq(Sockets)
  BY <1>2
<1>4. /\ DOMAIN gs = DOMAIN ls /\ gs[i] = r
      /\ \A k \in DOMAIN ls : k # i => gs[k] = ls[k]
  OBVIOUS
<1> HIDE DEF gs, r
<1> QED
  BY <1>2, <1>3, <1>4 DEF gs

LEMMA SocketOpenedRight ==
  ASSUME CycleAssumption, NEW c, NEW n, NEW t, Right("open", c, n, t),
         n.i <= Len(n.ls), n.ls[n.i].fd = NoFd, CanOpen(t)
  PROVE  Right("open", c, [n EXCEPT !.ls[n.i].fd = FreeFd(t), !.i = @ + 1],
               Opened(t, n.ls[n.i].addr))
<1> DEFINE d == FreeFd(t)
           a == n.ls[n.i].addr
           u == Opened(t, a)
           gs == [n.ls EXCEPT ![n.i].fd = d]
           n1 == [n EXCEPT !.ls[n.i].fd = d]
           n2 == [n EXCEPT !.ls[n.i].fd = d, !.i = @ + 1]
<1>1. Typed("open", c, n, t) /\ Sound("open", c, n, t)
  BY DEF Right
<1>2. Running("open", c, t) /\ Coming(c, n, t) /\ Named(c, n, t) /\ Staged("open", c, n)
  BY <1>1 DEF Sound
<1>3. n \in CycleType /\ c \in CycleType /\ t \in [Fds -> Whats]
  BY <1>1 DEF Typed
<1>4. /\ n.ls \in Seq(Sockets) /\ DOMAIN n.ls = 1 .. Len(n.ls)
      /\ Len(n.ls) \in Nat /\ n.i \in Nat
      /\ \A k \in DOMAIN n.ls : n.ls[k] \in Sockets
  BY <1>3, FieldsOf
<1>5. n.i \in DOMAIN n.ls /\ n.ls[n.i].new = TRUE
  BY <1>2, <1>4 DEF Staged
<1>6. a \in Whats
  BY <1>4, <1>5 DEF Sockets, Whats
<1>7. u \in [Fds -> Whats] /\ Running("open", c, u) /\ Coming(c, n, u)
  BY <1>1, <1>2, <1>6, OpenedKeeps
<1>8. d \in Fds /\ t[d] = "free" /\ u = [t EXCEPT ![d] = a]
  BY <1>3, FreeFdIs DEF Opened
<1>9. d \notin FdsOf(c.ls) /\ u[d] = a
  BY <1>1, <1>2, <1>3, <1>8, FreeNotNamed
<1> HIDE DEF d, u
<1>10. /\ gs \in Seq(Sockets) /\ DOMAIN gs = DOMAIN n.ls /\ gs[n.i].fd = d
       /\ \A k \in DOMAIN n.ls : gs[k].addr = n.ls[k].addr /\ gs[k].new = n.ls[k].new
       /\ \A k \in DOMAIN n.ls : k # n.i => gs[k] = n.ls[k]
  BY SMTT(30), <1>4, <1>5, <1>8, SocketSet
<1>11. n1 = With(n, gs, n.remain) /\ n2 = [n1 EXCEPT !.i = n.i + 1]
  BY <1>3 DEF With, CycleType
<1>12. n.remain \in SUBSET Nat /\ n.i + 1 \in Nat
  BY <1>3, <1>4 DEF CycleType
<1> HIDE DEF n1, n2, gs, a
<1>13. /\ n1 \in CycleType /\ n1.ls = gs /\ n1.remain = n.remain /\ n1.files = n.files
       /\ n1.conf = n.conf /\ n1.part = n.part /\ n1.tries = n.tries
       /\ n1.failed = n.failed
  BY <1>3, <1>10, <1>11, <1>12, WithIs
<1>14. /\ n2 \in CycleType /\ n2.ls = gs /\ n2.remain = n.remain /\ n2.files = n.files
       /\ n2.conf = n.conf /\ n2.part = n.part /\ n2.tries = n.tries
       /\ n2.failed = n.failed /\ n2.i = n.i + 1
  BY <1>11, <1>12, <1>13 DEF CycleType
<1>15. ASSUME NEW k \in DOMAIN gs PROVE OwnSocket(c, gs[k], u) /\ Kept(c, n2, gs[k])
  <2>1. CASE k = n.i
    BY <2>1, <1>5, <1>8, <1>9, <1>10 DEF OwnSocket, Kept, a
  <2>2. CASE k # n.i
    BY <2>2, <1>7, <1>10, <1>14 DEF Coming, Kept
  <2> QED
    BY <2>1, <2>2
<1>16. SocketsDiffer(gs)
  BY <1>2, <1>10 DEF Coming, SocketsDiffer
<1>17. Coming(c, n2, u)
  BY <1>7, <1>14, <1>15, <1>16 DEF Coming
<1>18. FdsOf(n.ls) \cup {d} \subseteq FdsOf(n2.ls)
  <2>1. ASSUME NEW k \in DOMAIN n.ls, n.ls[k].fd # NoFd
        PROVE  n.ls[k].fd \in FdsOf(gs)
    <3>1. k # n.i
      BY <2>1
    <3> QED
      BY <3>1, <2>1, <1>10 DEF FdsOf
  <2>2. d \in FdsOf(gs)
    BY <1>5, <1>8, <1>10, Numbers DEF FdsOf
  <2> QED
    BY <2>1, <2>2, <1>14 DEF FdsOf
<1>19. Named(c, n2, u)
  BY <1>2, <1>3, <1>8, <1>14, <1>18 DEF Named
<1>20. \A j \in n.remain : \E k \in DOMAIN gs : gs[k].fd = c.ls[j].fd
  <2> SUFFICES ASSUME NEW j \in n.remain PROVE \E k \in DOMAIN gs : gs[k].fd = c.ls[j].fd
    OBVIOUS
  <2>1. PICK k \in DOMAIN n.ls : n.ls[k].fd = c.ls[j].fd
    BY <1>2 DEF Staged
  <2>2. c.ls[j].fd \in Fds
    BY <1>2 DEF Coming, Running, SocketsOpen
  <2>3. k # n.i
    BY <2>1, <2>2, Numbers
  <2> QED
    BY <2>1, <2>3, <1>10
<1>21. \A k \in DOMAIN gs : gs[k].fd = NoFd => gs[k].new = TRUE
  BY <1>2, <1>10 DEF Staged
<1>22. n.failed = FALSE => \A k \in DOMAIN gs : k < n.i + 1 => gs[k].fd # NoFd
  <2> SUFFICES ASSUME n.failed = FALSE, NEW k \in DOMAIN gs, k < n.i + 1
               PROVE  gs[k].fd # NoFd
    OBVIOUS
  <2>1. CASE k = n.i
    BY <2>1, <1>8, <1>10, Numbers
  <2>2. CASE k # n.i
    <3>1. k < n.i
      BY <2>2, <1>4, <1>10
    <3> QED
      BY <3>1, <2>2, <1>2, <1>10 DEF Staged
  <2> QED
    BY <2>1, <2>2
<1>23. Staged("open", c, n2)
  BY <1>2, <1>4, <1>14, <1>20, <1>21, <1>22 DEF Staged, Idle, Naming, Preparing, Later
<1>24. Sound("open", c, n2, u) /\ Typed("open", c, n2, u)
  BY <1>1, <1>7, <1>14, <1>17, <1>19, <1>23 DEF Sound, Typed
<1>25. Right("open", c, n2, u)
  BY <1>24 DEF Right
<1> QED
  BY <1>25 DEF n2, u, d, a

-----------------------------------------------------------------------------
(* Rollback and commit.                                                    *)

LEMMA ClosedIs ==
  ASSUME NEW t \in [Fds -> Whats], NEW gone
  PROVE  /\ Closed(t, gone) \in [Fds -> Whats]
         /\ \A d \in Fds : d \in gone => Closed(t, gone)[d] = "free"
         /\ \A d \in Fds : d \notin gone => Closed(t, gone)[d] = t[d]
BY DEF Closed, Whats

LEMMA RollbackRight ==
  ASSUME CycleAssumption, NEW c, NEW n, NEW t, Right("rollback", c, n, t),
         c.conf # NoConf
  PROVE  Right("rest", c, InitCycle, Closed(t, FdsOf(n.files) \cup OpenedSockets(n)))
<1> DEFINE gone == FdsOf(n.files) \cup OpenedSockets(n)
           u == Closed(t, gone)
<1>1. Typed("rollback", c, n, t) /\ Sound("rollback", c, n, t)
  BY DEF Right
<1>2. Running("rollback", c, t) /\ Coming(c, n, t) /\ Named(c, n, t)
  BY <1>1 DEF Sound
<1>3. n \in CycleType /\ c \in CycleType /\ t \in [Fds -> Whats]
  BY <1>1 DEF Typed
<1>4. /\ \A k \in DOMAIN n.ls : n.ls[k].addr \in Addrs /\ n.ls[k].new \in BOOLEAN
      /\ \A k \in DOMAIN n.files : n.files[k].name \in Files
      /\ \A k \in DOMAIN c.ls : c.ls[k].addr \in Addrs
      /\ \A k \in DOMAIN c.files : c.files[k].name \in Files
  BY <1>3, FieldsOf DEF Sockets, Records
<1>5. /\ u \in [Fds -> Whats]
      /\ \A d \in Fds : d \in gone => u[d] = "free"
      /\ \A d \in Fds : d \notin gone => u[d] = t[d]
  BY <1>3, ClosedIs
<1>6. ASSUME NEW d \in FdsOf(n.files) PROVE d \in Fds /\ t[d] \in Files /\ d \notin FdsOf(c.files)
  BY <1>2, <1>4 DEF FdsOf, Coming, OwnFile
<1>7. ASSUME NEW d \in OpenedSockets(n) PROVE d \in Fds /\ t[d] \in Addrs /\ d \notin FdsOf(c.ls)
  <2>1. PICK k \in DOMAIN n.ls : n.ls[k].new /\ d = n.ls[k].fd /\ d # NoFd
    BY DEF OpenedSockets
  <2>2. n.ls[k].new = TRUE
    BY <2>1, <1>4
  <2> QED
    BY <2>1, <2>2, <1>2, <1>4 DEF Coming, OwnSocket
<1> HIDE DEF u, gone
<1>8. ASSUME NEW k \in DOMAIN c.ls PROVE c.ls[k].fd \notin gone
  <2>1. c.ls[k].fd \in Fds /\ t[c.ls[k].fd] \in Addrs
    BY <1>2, <1>4 DEF Running, SocketsOpen
  <2>2. c.ls[k].fd \in FdsOf(c.ls)
    BY <2>1, Numbers DEF FdsOf
  <2> QED
    BY <2>1, <2>2, <1>6, <1>7, Numbers DEF gone
<1>9. ASSUME NEW k \in DOMAIN c.files PROVE c.files[k].fd \notin gone
  <2>1. c.files[k].fd \in Fds /\ t[c.files[k].fd] \in Files
    BY <1>2, <1>4 DEF Running, FilesOpen
  <2>2. c.files[k].fd \in FdsOf(c.files)
    BY <2>1, Numbers DEF FdsOf
  <2> QED
    BY <2>1, <2>2, <1>6, <1>7, Numbers DEF gone
<1>10. Running("rest", c, u)
  BY <1>2, <1>5, <1>8, <1>9 DEF Running, SocketsOpen, FilesOpen
<1>11. FdsOf(n.ls) \subseteq gone \cup FdsOf(c.ls)
  <2> SUFFICES ASSUME NEW k \in DOMAIN n.ls, n.ls[k].fd # NoFd
               PROVE  n.ls[k].fd \in gone \cup FdsOf(c.ls)
    BY DEF FdsOf
  <2>1. CASE n.ls[k].new = TRUE
    BY <2>1 DEF gone, OpenedSockets
  <2>2. CASE n.ls[k].new = FALSE
    <3>1. PICK j \in DOMAIN c.ls : c.ls[j].fd = n.ls[k].fd
      BY <2>2, <1>2 DEF Coming, Kept
    <3> QED
      BY <3>1 DEF FdsOf
  <2> QED
    BY <2>1, <2>2, <1>4
<1>12. Named(c, InitCycle, u)
  <2> SUFFICES ASSUME NEW d \in Fds, u[d] \notin {"free", "lost"}
               PROVE  d \in FdsOf(c.ls) \cup FdsOf(c.files)
    BY DEF Named
  <2>1. d \notin gone /\ t[d] \notin {"free", "lost"}
    BY <1>5
  <2>2. FdsOf(n.files) \subseteq gone
    BY DEF gone
  <2> QED
    BY <2>1, <2>2, <1>2, <1>11 DEF Named
<1>13. Coming(c, InitCycle, u) /\ Staged("rest", c, InitCycle)
  BY DEF Coming, Staged, InitCycle, SocketsDiffer, FilesDiffer, Idle, Naming, Preparing, Later
<1>14. Sound("rest", c, InitCycle, u) /\ Typed("rest", c, InitCycle, u)
  BY <1>3, <1>5, <1>10, <1>12, <1>13, InitTyped DEF Sound, Typed, Labels
<1>15. Right("rest", c, InitCycle, u)
  BY <1>14 DEF Right
<1> QED
  BY <1>15 DEF u, gone

\* The new cycle as the running one.
Taken(n) ==
  [InitCycle EXCEPT !.conf = n.conf, !.ls = n.ls, !.files = n.files, !.part = n.part]
Surplus(c, n) ==
  {c.ls[j].fd : j \in DOMAIN c.ls \ n.remain} \cup FdsOf(c.files)

LEMMA TakenIs ==
  ASSUME CycleAssumption, NEW n \in CycleType
  PROVE  /\ Taken(n) \in CycleType /\ Taken(n).ls = n.ls /\ Taken(n).files = n.files
         /\ Taken(n).conf = n.conf /\ Taken(n).part = n.part
BY InitTyped DEF Taken, CycleType, InitCycle

LEMMA CommitRight ==
  ASSUME CycleAssumption, NEW c, NEW n, NEW t, Right("commit", c, n, t),
         NEW l \in {"start", "rest"}
  PROVE  Right(l, Taken(n), InitCycle, Closed(t, Surplus(c, n)))
<1> DEFINE gone == Surplus(c, n)
           u == Closed(t, gone)
           v == Taken(n)
<1>1. Typed("commit", c, n, t) /\ Sound("commit", c, n, t)
  BY DEF Right
<1>2. Running("commit", c, t) /\ Coming(c, n, t) /\ Named(c, n, t) /\ Staged("commit", c, n)
  BY <1>1 DEF Sound
<1>3. n \in CycleType /\ c \in CycleType /\ t \in [Fds -> Whats]
  BY <1>1 DEF Typed
<1>4. /\ \A k \in DOMAIN n.ls : n.ls[k].addr \in Addrs /\ n.ls[k].new \in BOOLEAN
      /\ \A k \in DOMAIN n.files : n.files[k].name \in Files
      /\ \A k \in DOMAIN c.ls : c.ls[k].addr \in Addrs
      /\ \A k \in DOMAIN c.files : c.files[k].name \in Files
  BY <1>3, FieldsOf DEF Sockets, Records
<1>5. /\ u \in [Fds -> Whats]
      /\ \A d \in Fds : d \in gone => u[d] = "free"
      /\ \A d \in Fds : d \notin gone => u[d] = t[d]
  BY <1>3, ClosedIs
<1>6. /\ v \in CycleType /\ v.ls = n.ls /\ v.files = n.files /\ v.conf = n.conf
      /\ v.part = n.part
  BY <1>3, TakenIs
<1>7. ASSUME NEW d \in FdsOf(c.files) PROVE d \in Fds /\ t[d] \in Files
  BY <1>2, <1>4 DEF FdsOf, Running, FilesOpen
<1>8. \A j \in DOMAIN c.ls : c.ls[j].fd \in Fds /\ t[c.ls[j].fd] = c.ls[j].addr
  BY <1>2 DEF Running, SocketsOpen
<1> HIDE DEF u, v, gone
<1>9. ASSUME NEW k \in DOMAIN n.files
      PROVE  n.files[k].fd \in Fds /\ u[n.files[k].fd] = n.files[k].name
  <2>1. n.files[k].fd # NoFd
    BY <1>2 DEF Staged, Later
  <2>2. /\ n.files[k].fd \in Fds /\ t[n.files[k].fd] = n.files[k].name
        /\ n.files[k].fd \notin FdsOf(c.files)
    BY <2>1, <1>2 DEF Coming, OwnFile
  <2>3. t[n.files[k].fd] \notin Addrs
    BY <2>2, <1>4, Numbers
  <2>4. \A j \in DOMAIN c.ls : c.ls[j].fd # n.files[k].fd
    BY <2>3, <1>4, <1>8
  <2>5. n.files[k].fd \notin gone
    BY <2>2, <2>4 DEF gone, Surplus
  <2> QED
    BY <2>2, <2>5, <1>5
<1>10. ASSUME NEW k \in DOMAIN n.ls
       PROVE  n.ls[k].fd \in Fds /\ u[n.ls[k].fd] = n.ls[k].addr
  <2>1. n.ls[k].fd # NoFd
    BY <1>2 DEF Staged
  <2>2. CASE n.ls[k].new = TRUE
    <3>1. /\ n.ls[k].fd \in Fds /\ t[n.ls[k].fd] = n.ls[k].addr
          /\ n.ls[k].fd \notin FdsOf(c.ls)
      BY <2>1, <2>2, <1>2 DEF Coming, OwnSocket
    <3>2. \A j \in DOMAIN c.ls : c.ls[j].fd # n.ls[k].fd
      BY <3>1, <2>1 DEF FdsOf
    <3>3. n.ls[k].fd \notin gone
      BY <3>1, <3>2, <1>4, <1>7, Numbers DEF gone, Surplus
    <3> QED
      BY <3>1, <3>3, <1>5
  <2>3. CASE n.ls[k].new = FALSE
    <3>1. PICK j \in n.remain : c.ls[j].fd = n.ls[k].fd /\ c.ls[j].addr = n.ls[k].addr
      BY <2>1, <2>3, <1>2 DEF Coming, Kept
    <3>2. j \in DOMAIN c.ls
      BY <1>2 DEF Coming
    <3>3. \A h \in DOMAIN c.ls \ n.remain : c.ls[h].fd # c.ls[j].fd
      BY <3>2, <1>2, <1>8 DEF Running, SocketsDiffer
    <3>4. c.ls[j].fd \notin FdsOf(c.files)
      BY <3>2, <1>4, <1>7, <1>8, Numbers
    <3>5. c.ls[j].fd \notin gone
      BY <3>3, <3>4 DEF gone, Surplus
    <3> QED
      BY <3>1, <3>2, <3>5, <1>5, <1>8
  <2> QED
    BY <2>2, <2>3, <1>4
<1>11. Running(l, v, u)
  <2>1. v.conf # NoConf /\ v.part >= 1
    BY <1>2, <1>6, Numbers DEF Staged, Idle
  <2>2. SocketsDiffer(n.ls) /\ FilesDiffer(n.files)
    BY <1>2 DEF Coming
  <2>3. SocketsOpen(n.ls, u) /\ FilesOpen(n.files, u)
    BY <1>9, <1>10 DEF SocketsOpen, FilesOpen
  <2> QED
    BY <2>1, <2>2, <2>3, <1>6 DEF Running
<1>12. Named(v, InitCycle, u)
  <2> SUFFICES ASSUME NEW d \in Fds, u[d] \notin {"free", "lost"}
               PROVE  d \in FdsOf(n.ls) \cup FdsOf(n.files)
    BY <1>6 DEF Named
  <2>1. d \notin gone /\ t[d] \notin {"free", "lost"}
    BY <1>5
  <2>2. d \notin FdsOf(c.files)
    BY <2>1 DEF gone, Surplus
  <2>3. CASE d \in FdsOf(c.ls)
    <3>1. PICK j \in DOMAIN c.ls : d = c.ls[j].fd
      BY <2>3 DEF FdsOf
    <3>2. j \in n.remain
      BY <3>1, <2>1 DEF gone, Surplus
    <3>3. PICK k \in DOMAIN n.ls : n.ls[k].fd = c.ls[j].fd
      BY <3>2, <1>2 DEF Staged
    <3> QED
      BY <3>1, <3>3, Numbers DEF FdsOf
  <2> QED
    BY <2>1, <2>2, <2>3, <1>2 DEF Named
<1>13. Coming(v, InitCycle, u) /\ Staged(l, v, InitCycle)
  BY DEF Coming, Staged, InitCycle, SocketsDiffer, FilesDiffer, Idle, Naming, Preparing, Later
<1>14. Sound(l, v, InitCycle, u) /\ Typed(l, v, InitCycle, u)
  BY <1>5, <1>6, <1>11, <1>12, <1>13, InitTyped DEF Sound, Typed, Labels
<1>15. Right(l, v, InitCycle, u)
  BY <1>14 DEF Right
<1> QED
  BY <1>15 DEF u, v, gone

-----------------------------------------------------------------------------
(* Reopening the files. The visits are a recursive function; that it exists  *)
(* and what each visit leaves go by the least counterexample.              *)

Start(m) == [t |-> fds[m], l |-> cyc[m].files, stale |-> stale[m]]
Visit(m, kept, s, k) == IF k \in kept THEN s ELSE ReopenFile(m, s, k)
IsWalk(m, kept, n, f) ==
  f = [k \in 0 .. n |-> IF k = 0 THEN Start(m) ELSE Visit(m, kept, f[k - 1], k)]

LEMMA WalkExists ==
  ASSUME NEW m, NEW kept, NEW n \in Nat
  PROVE  \E f : IsWalk(m, kept, n, f)
<1> SUFFICES ASSUME \A f : ~IsWalk(m, kept, n, f) PROVE FALSE
  OBVIOUS
<1> DEFINE T == {k \in Nat : \A f : ~IsWalk(m, kept, k, f)}
<1>1. PICK x \in T : \A y \in T : x <= y
  BY LeastExists
<1>2. CASE x = 0
  <2> DEFINE f == [k \in 0 .. 0 |-> Start(m)]
  <2>1. IsWalk(m, kept, 0, f)
    BY DEF IsWalk
  <2> QED
    BY <2>1, <1>1, <1>2
<1>3. CASE x # 0
  <2>1. x - 1 \in Nat /\ x - 1 \notin T
    BY <1>1, <1>3
  <2>2. PICK g : IsWalk(m, kept, x - 1, g)
    BY <2>1
  <2> DEFINE f == [k \in 0 .. x |-> IF k = x THEN Visit(m, kept, g[x - 1], x) ELSE g[k]]
  <2>3. \A k \in 0 .. x - 1 : f[k] = g[k]
    BY <2>1
  <2>4. \A k \in 0 .. x : f[k] = IF k = 0 THEN Start(m) ELSE Visit(m, kept, f[k - 1], k)
    <3> SUFFICES ASSUME NEW k \in 0 .. x
                 PROVE  f[k] = IF k = 0 THEN Start(m) ELSE Visit(m, kept, f[k - 1], k)
      OBVIOUS
    <3>1. CASE k = x
      BY <3>1, <1>3, <2>1, <2>3
    <3>2. CASE k # x
      <4>1. k \in 0 .. x - 1 /\ f[k] = g[k]
        BY <3>2, <2>1, <2>3
      <4>2. g[k] = IF k = 0 THEN Start(m) ELSE Visit(m, kept, g[k - 1], k)
        BY <4>1, <2>2 DEF IsWalk
      <4>3. k # 0 => f[k - 1] = g[k - 1]
        BY <4>1, <2>1, <2>3
      <4> QED
        BY <4>1, <4>2, <4>3
    <3> QED
      BY <3>1, <3>2
  <2>5. f = [k \in 0 .. x |-> f[k]]
    OBVIOUS
  <2> HIDE DEF f
  <2>6. IsWalk(m, kept, x, f)
    BY <2>4, <2>5 DEF IsWalk
  <2> QED
    BY <2>6, <1>1
<1> QED
  BY <1>2, <1>3

Walk(m, kept) == CHOOSE f : IsWalk(m, kept, Len(cyc[m].files), f)
LEMMA WalkIs ==
  ASSUME NEW m, NEW kept, Len(cyc[m].files) \in Nat
  PROVE  /\ IsWalk(m, kept, Len(cyc[m].files), Walk(m, kept))
         /\ Reopened(m, kept) = Walk(m, kept)[Len(cyc[m].files)]
<1>1. IsWalk(m, kept, Len(cyc[m].files), Walk(m, kept))
  BY WalkExists DEF Walk
<1>2. Reopened(m, kept) = Walk(m, kept)[Len(cyc[m].files)]
  BY DEF Reopened, Walk, IsWalk, Start, Visit
<1> QED
  BY <1>1, <1>2

\* What each visit leaves.
Good(c, s) ==
  /\ s.t \in [Fds -> Whats] /\ s.l \in Seq(Records) /\ s.stale \subseteq Fds
  /\ DOMAIN s.l = DOMAIN c.files
  /\ \A k \in DOMAIN s.l : s.l[k].name = c.files[k].name
  /\ SocketsOpen(c.ls, s.t) /\ FilesOpen(s.l, s.t)
  /\ \A d \in Fds : s.t[d] \notin {"free", "lost"} => d \in FdsOf(c.ls) \cup FdsOf(s.l)

LEMMA VisitedIs ==
  ASSUME NEW m, cyc[m].part \in Nat, cyc[m].part >= 1, NEW k \in Nat, k >= 1
  PROVE  Visited(m, k) \in 1 .. k
<1> DEFINE p == cyc[m].part
           r == (k - 1) % p
<1>1. r \in Nat /\ r <= k - 1
  <2>1. p \in Nat \ {0} /\ k - 1 \in Nat
    OBVIOUS
  <2> HIDE DEF p
  <2> QED
    BY <2>1
<1> QED
  BY <1>1 DEF Visited

LEMMA VisitGood ==
  ASSUME CycleAssumption, NEW m, cyc[m] \in CycleType, FilesDiffer(cyc[m].files),
         cyc[m].part >= 1, NEW s, Good(cyc[m], s), CanOpen(s.t),
         NEW k \in 1 .. Len(cyc[m].files)
  PROVE  Good(cyc[m], ReopenFile(m, s, k)) /\ CanOpen(ReopenFile(m, s, k).t)
<1> DEFINE c == cyc[m]
           v == Visited(m, k)
           f == s.l[v]
           d == FreeFd(s.t)
           t1 == Opened(s.t, f.name)
           t2 == Closed(t1, {f.fd})
           ls == [s.l EXCEPT ![v].fd = d]
<1>1. /\ c.files \in Seq(Records) /\ DOMAIN c.files = 1 .. Len(c.files)
      /\ Len(c.files) \in Nat /\ c.part \in Nat
      /\ \A j \in DOMAIN c.ls : c.ls[j] \in Sockets
  BY FieldsOf
<1>2. v \in 1 .. k
  BY <1>1, VisitedIs
<1>3. v \in DOMAIN s.l /\ s.l \in Seq(Records)
  BY <1>1, <1>2 DEF Good
<1>4. f \in Records /\ \A j \in DOMAIN s.l : s.l[j] \in Records
  BY <1>3
<1>5. f.name \in Files /\ f.fd \in Fds /\ s.t[f.fd] = f.name
  BY <1>3, <1>4 DEF Good, FilesOpen, Records
<1>6. d \in Fds /\ s.t[d] = "free" /\ t1 = [s.t EXCEPT ![d] = f.name]
  BY FreeFdIs DEF Good, Opened
<1>7. d # f.fd
  BY <1>5, <1>6, Numbers
<1>8. t1 \in [Fds -> Whats] /\ t1[d] = f.name /\ \A e \in Fds : e # d => t1[e] = s.t[e]
  BY <1>5, <1>6 DEF Good, Whats
<1> HIDE DEF v, f, d, t1
<1>9. /\ t2 \in [Fds -> Whats]
      /\ t2[f.fd] = "free" /\ t2[d] = f.name
      /\ \A e \in Fds : e # d /\ e # f.fd => t2[e] = s.t[e]
  BY <1>5, <1>6, <1>7, <1>8 DEF Closed, Whats
<1>10. /\ ls \in Seq(Records) /\ DOMAIN ls = DOMAIN s.l
       /\ \A j \in DOMAIN s.l : ls[j].name = s.l[j].name
       /\ ls[v].fd = d
       /\ \A j \in DOMAIN s.l : j # v => ls[j] = s.l[j]
  BY <1>3, <1>6, FileSet
<1>11. ReopenFile(m, s, k) = [t |-> t2, l |-> ls, stale |-> s.stale \ {f.fd}]
  BY DEF ReopenFile, v, f, d, t1
<1> HIDE DEF t2, ls
<1>12. SocketsOpen(c.ls, t2)
  <2> SUFFICES ASSUME NEW j \in DOMAIN c.ls
               PROVE  c.ls[j].fd \in Fds /\ t2[c.ls[j].fd] = c.ls[j].addr
    BY DEF SocketsOpen
  <2>1. c.ls[j].fd \in Fds /\ s.t[c.ls[j].fd] = c.ls[j].addr /\ c.ls[j].addr \in Addrs
    BY <1>1 DEF Good, SocketsOpen, Sockets
  <2>2. c.ls[j].fd # d /\ c.ls[j].fd # f.fd
    BY <2>1, <1>5, <1>6, Numbers
  <2> QED
    BY <2>1, <2>2, <1>9
<1>13. FilesOpen(ls, t2)
  <2> SUFFICES ASSUME NEW j \in DOMAIN ls
               PROVE  ls[j].fd \in Fds /\ t2[ls[j].fd] = ls[j].name
    BY DEF FilesOpen
  <2>1. CASE j = v
    BY <2>1, <1>3, <1>6, <1>9, <1>10 DEF f
  <2>2. CASE j # v
    <3>1. /\ ls[j] = s.l[j] /\ s.l[j].fd \in Fds /\ s.t[s.l[j].fd] = s.l[j].name
          /\ s.l[j].name \in Files
      BY <2>2, <1>4, <1>10 DEF Good, FilesOpen, Records
    <3>2. s.l[j].name # f.name
      BY <2>2, <1>3, <1>10 DEF Good, FilesDiffer, f
    <3>3. s.l[j].fd # f.fd /\ s.l[j].fd # d
      BY <3>1, <3>2, <1>5, <1>6, Numbers
    <3> QED
      BY <3>1, <3>3, <1>9
  <2> QED
    BY <2>1, <2>2
<1>14. ASSUME NEW e \in Fds, t2[e] \notin {"free", "lost"}
       PROVE  e \in FdsOf(c.ls) \cup FdsOf(ls)
  <2>1. CASE e = d
    BY <2>1, <1>3, <1>6, <1>10, Numbers DEF FdsOf
  <2>2. CASE e # d
    <3>1. e # f.fd /\ e \in FdsOf(c.ls) \cup FdsOf(s.l)
      BY <2>2, <1>9, <1>14 DEF Good
    <3>2. CASE e \in FdsOf(s.l)
      <4>1. PICK j \in DOMAIN s.l : e = s.l[j].fd
        BY <3>2 DEF FdsOf
      <4>2. j # v
        BY <3>1, <4>1 DEF f
      <4> QED
        BY <4>1, <4>2, <1>10, Numbers DEF FdsOf
    <3> QED
      BY <3>1, <3>2
  <2> QED
    BY <2>1, <2>2
<1>15. CanOpen(t2)
  BY <1>5, <1>9 DEF CanOpen
<1> DEFINE g == [t |-> t2, l |-> ls, stale |-> s.stale \ {f.fd}]
<1>16. g.t = t2 /\ g.l = ls /\ g.stale = s.stale \ {f.fd}
  OBVIOUS
<1> HIDE DEF g
<1>17. Good(c, g)
  BY <1>9, <1>10, <1>12, <1>13, <1>14, <1>16 DEF Good
<1> QED
  BY <1>11, <1>15, <1>16, <1>17 DEF g

LEMMA WalkGood ==
  ASSUME CycleAssumption, NEW m, cyc[m] \in CycleType, FilesDiffer(cyc[m].files),
         cyc[m].part >= 1, Good(cyc[m], Start(m)), NEW kept,
         CanOpen(fds[m]) \/ kept = DOMAIN cyc[m].files
  PROVE  Good(cyc[m], Reopened(m, kept))
<1> DEFINE n == Len(cyc[m].files)
           f == Walk(m, kept)
           Fine(k) == Good(cyc[m], f[k]) /\ (CanOpen(fds[m]) => CanOpen(f[k].t))
           T == {k \in 0 .. n : ~Fine(k)}
<1>1. n \in Nat /\ DOMAIN cyc[m].files = 1 .. n
  BY FieldsOf
<1>2. IsWalk(m, kept, n, f) /\ Reopened(m, kept) = f[n]
  BY <1>1, WalkIs
<1> HIDE DEF f, n
<1>3. f[0] = Start(m) /\ \A k \in 1 .. n : f[k] = Visit(m, kept, f[k - 1], k)
  BY <1>1, <1>2 DEF IsWalk
<1>4. Fine(0)
  BY <1>3 DEF Start
<1>5. ASSUME NEW k \in 1 .. n, Fine(k - 1) PROVE Fine(k)
  <2>1. CASE k \in kept
    BY <2>1, <1>3, <1>5 DEF Visit
  <2>2. CASE k \notin kept
    <3>1. CanOpen(fds[m]) /\ k \in 1 .. Len(cyc[m].files)
      BY <2>2, <1>1 DEF n
    <3>2. f[k] = ReopenFile(m, f[k - 1], k)
      BY <2>2, <1>3 DEF Visit
    <3>3. Good(cyc[m], f[k - 1]) /\ CanOpen(f[k - 1].t)
      BY <3>1, <1>5
    <3>4. Good(cyc[m], ReopenFile(m, f[k - 1], k)) /\ CanOpen(ReopenFile(m, f[k - 1], k).t)
      BY <3>1, <3>3, VisitGood
    <3> QED
      BY <3>2, <3>4
  <2> QED
    BY <2>1, <2>2
<1> HIDE DEF Fine
<1>6. T = {}
  <2> SUFFICES ASSUME T # {} PROVE FALSE
    OBVIOUS
  <2>0. T \subseteq Nat
    BY <1>1
  <2> HIDE DEF T
  <2>1. PICK k \in T : \A j \in T : k <= j
    BY <2>0, LeastExists
  <2> USE DEF T
  <2>2. k # 0 /\ k \in 1 .. n /\ k - 1 \in 0 .. n /\ k - 1 \notin T
    BY <2>1, <1>1, <1>4
  <2>3. Fine(k - 1)
    BY <2>2
  <2> QED
    BY <2>1, <2>2, <2>3, <1>5
<1>7. Fine(n)
  BY <1>1, <1>6
<1> QED
  BY <1>2, <1>7 DEF Fine

LEMMA ReopenRight ==
  ASSUME CycleAssumption, NEW m, Right("rest", cyc[m], new[m], fds[m]), stale[m] \subseteq Fds,
         NEW kept, CanOpen(fds[m]) \/ kept = DOMAIN cyc[m].files
  PROVE  /\ Right("rest", [cyc[m] EXCEPT !.files = Reopened(m, kept).l], new[m],
                  Reopened(m, kept).t)
         /\ Reopened(m, kept).stale \subseteq Fds
<1> DEFINE c == cyc[m]
           n == new[m]
           t == fds[m]
           s == Reopened(m, kept)
           v == [c EXCEPT !.files = s.l]
<1>1. Typed("rest", c, n, t) /\ Sound("rest", c, n, t)
  BY DEF Right
<1>2. /\ Running("rest", c, t) /\ Named(c, n, t) /\ n = InitCycle
      /\ c \in CycleType /\ t \in [Fds -> Whats]
  BY <1>1 DEF Sound, Staged, Idle, Typed
<1>3. c.files \in Seq(Records) /\ c.part \in Nat
  BY <1>2, FieldsOf
<1>4. c.conf # NoConf /\ c.part >= 1 /\ FilesDiffer(c.files)
  BY <1>2 DEF Running
<1>5. FdsOf(n.ls) = {} /\ FdsOf(n.files) = {}
  BY <1>2 DEF InitCycle, FdsOf
<1>6. Good(c, Start(m))
  <2> DEFINE b == Start(m)
  <2>1. b.t = t /\ b.l = c.files /\ b.stale = stale[m]
    BY DEF Start
  <2> HIDE DEF b
  <2>2. Good(c, b)
    BY <2>1, <1>2, <1>3, <1>5 DEF Good, Running, Named
  <2> QED
    BY <2>2 DEF b
<1>7. Good(c, s)
  BY <1>2, <1>4, <1>6, WalkGood
<1> HIDE DEF s
<1>8. v \in CycleType /\ v.ls = c.ls /\ v.files = s.l /\ v.conf = c.conf /\ v.part = c.part
  BY <1>2, <1>7 DEF Good, CycleType, Records
<1> HIDE DEF v
<1>9. FilesDiffer(s.l)
  BY <1>4, <1>7 DEF Good, FilesDiffer
<1>10. Running("rest", v, s.t)
  BY <1>2, <1>4, <1>7, <1>8, <1>9 DEF Running, Good
<1>11. Named(v, n, s.t)
  BY <1>7, <1>8 DEF Named, Good
<1>12. Coming(v, n, s.t) /\ Staged("rest", v, n)
  BY <1>2 DEF Coming, Staged, InitCycle, SocketsDiffer, FilesDiffer, Idle, Naming, Preparing, Later
<1>13. Typed("rest", v, n, s.t) /\ Sound("rest", v, n, s.t)
  BY <1>1, <1>7, <1>8, <1>10, <1>11, <1>12 DEF Typed, Sound, Good
<1>14. Right("rest", v, n, s.t) /\ s.stale \subseteq Fds
  BY <1>7, <1>13 DEF Right, Good
<1> QED
  BY <1>14 DEF s, v

-----------------------------------------------------------------------------
(* A new binary and its inherited sockets.                                 *)

InheritedSocket(s, ignore) == [s EXCEPT !.new = FALSE, !.ignore = ignore]
LEMMA InheritedSocketIs ==
  ASSUME NEW s \in Sockets, NEW b \in BOOLEAN
  PROVE  /\ InheritedSocket(s, b) \in Sockets
         /\ InheritedSocket(s, b).addr = s.addr /\ InheritedSocket(s, b).fd = s.fd
BY DEF InheritedSocket, Sockets

Inherited(c, ignored) ==
  [InitCycle EXCEPT
     !.ls = [k \in DOMAIN c.ls |-> InheritedSocket(c.ls[k], k \in ignored)]]
OnExec(t) == [d \in Fds |-> IF t[d] \in Files THEN "free" ELSE t[d]]

LEMMA InheritedIs ==
  ASSUME CycleAssumption, NEW c \in CycleType, NEW ignored
  PROVE  LET v == Inherited(c, ignored)
         IN  /\ v \in CycleType /\ v.conf = NoConf /\ v.files = <<>>
             /\ DOMAIN v.ls = DOMAIN c.ls
             /\ \A k \in DOMAIN c.ls : v.ls[k].addr = c.ls[k].addr /\ v.ls[k].fd = c.ls[k].fd
<1> DEFINE b(k) == k \in ignored
           ls == [k \in DOMAIN c.ls |-> InheritedSocket(c.ls[k], b(k))]
           v == Inherited(c, ignored)
<1>1. /\ DOMAIN c.ls = 1 .. Len(c.ls) /\ Len(c.ls) \in Nat
      /\ \A k \in DOMAIN c.ls : c.ls[k] \in Sockets
  BY FieldsOf
<1>2. ASSUME NEW k PROVE b(k) \in BOOLEAN
  <2>1. k \in ignored => b(k) = TRUE
    OBVIOUS
  <2>2. k \notin ignored => b(k) = FALSE
    OBVIOUS
  <2> HIDE DEF b
  <2> QED
    BY <2>1, <2>2
<1>3. v = [InitCycle EXCEPT !.ls = ls]
  BY DEF Inherited
<1> HIDE DEF b
<1>4. DOMAIN ls = DOMAIN c.ls /\ \A k \in DOMAIN c.ls : ls[k] = InheritedSocket(c.ls[k], b(k))
  BY Zenon
<1> HIDE DEF ls, v
<1>5. ASSUME NEW k \in DOMAIN c.ls
      PROVE  ls[k] \in Sockets /\ ls[k].addr = c.ls[k].addr /\ ls[k].fd = c.ls[k].fd
  <2> DEFINE s == c.ls[k]
             r == InheritedSocket(s, b(k))
  <2>1. s \in Sockets /\ b(k) \in BOOLEAN
    BY <1>1, <1>2
  <2> HIDE DEF s
  <2>2. r \in Sockets /\ r.addr = s.addr /\ r.fd = s.fd
    BY <2>1, InheritedSocketIs
  <2>3. r = ls[k]
    BY <1>4, Zenon DEF s
  <2> HIDE DEF r
  <2> QED
    BY <2>2, <2>3, Zenon DEF s
<1>6. ls \in Seq(Sockets)
  <2>1. ls = [k \in 1 .. Len(c.ls) |-> ls[k]]
    BY <1>1, <1>4 DEF ls
  <2>2. ls \in [1 .. Len(c.ls) -> Sockets]
    BY <2>1, <1>1, <1>4, <1>5
  <2> QED
    BY <2>2, <1>1, ArrayIsSeq
<1>7. v \in CycleType /\ v.conf = NoConf /\ v.files = <<>> /\ v.ls = ls
  BY <1>3, <1>6, InitTyped DEF InitCycle, CycleType, Sockets
<1>8. DOMAIN v.ls = DOMAIN c.ls
      /\ \A k \in DOMAIN c.ls : v.ls[k].addr = c.ls[k].addr /\ v.ls[k].fd = c.ls[k].fd
  BY <1>4, <1>5, <1>7
<1> QED
  BY <1>7, <1>8 DEF v

LEMMA ExecRight ==
  ASSUME CycleAssumption, NEW c, NEW n, NEW t, Right("rest", c, n, t), NEW ignored
  PROVE  Right("parse", Inherited(c, ignored), InitCycle, OnExec(t))
<1> DEFINE v == Inherited(c, ignored)
           u == OnExec(t)
<1>1. Typed("rest", c, n, t) /\ Sound("rest", c, n, t)
  BY DEF Right
<1>2. /\ Running("rest", c, t) /\ Named(c, n, t) /\ n = InitCycle
      /\ c \in CycleType /\ t \in [Fds -> Whats]
  BY <1>1 DEF Sound, Staged, Idle, Typed
<1>3. /\ v \in CycleType /\ v.conf = NoConf /\ v.files = <<>>
      /\ DOMAIN v.ls = DOMAIN c.ls
      /\ \A k \in DOMAIN c.ls : v.ls[k].addr = c.ls[k].addr /\ v.ls[k].fd = c.ls[k].fd
  BY <1>2, InheritedIs
<1>4. /\ u \in [Fds -> Whats]
      /\ \A d \in Fds : t[d] \in Files => u[d] = "free"
      /\ \A d \in Fds : t[d] \notin Files => u[d] = t[d]
  BY <1>2 DEF OnExec, Whats
<1>5. /\ \A k \in DOMAIN c.ls : c.ls[k].addr \in Addrs
      /\ \A k \in DOMAIN c.files : c.files[k].name \in Files
  BY <1>2, FieldsOf DEF Sockets, Records
<1> HIDE DEF u, v
<1>6. SocketsOpen(v.ls, u)
  <2> SUFFICES ASSUME NEW k \in DOMAIN c.ls
               PROVE  v.ls[k].fd \in Fds /\ u[v.ls[k].fd] = v.ls[k].addr
    BY <1>3 DEF SocketsOpen
  <2>1. c.ls[k].fd \in Fds /\ t[c.ls[k].fd] = c.ls[k].addr
    BY <1>2 DEF Running, SocketsOpen
  <2> QED
    BY <2>1, <1>3, <1>4, <1>5, Numbers
<1>7. SocketsDiffer(v.ls)
  BY <1>2, <1>3 DEF Running, SocketsDiffer
<1>8. Running("parse", v, u)
  BY <1>3, <1>6, <1>7 DEF Running, FilesOpen, FilesDiffer
<1>9. Named(v, InitCycle, u)
  <2> SUFFICES ASSUME NEW d \in Fds, u[d] \notin {"free", "lost"} PROVE d \in FdsOf(v.ls)
    BY DEF Named
  <2>1. t[d] \notin Files /\ t[d] \notin {"free", "lost"}
    BY <1>4
  <2>2. d \notin FdsOf(c.files)
    BY <2>1, <1>2, <1>5 DEF FdsOf, Running, FilesOpen
  <2>3. d \in FdsOf(c.ls)
    BY <2>1, <2>2, <1>2 DEF Named, InitCycle, FdsOf
  <2> QED
    BY <2>3, <1>3 DEF FdsOf
<1>10. Coming(v, InitCycle, u) /\ Staged("parse", v, InitCycle)
  BY DEF Coming, Staged, InitCycle, SocketsDiffer, FilesDiffer, Idle, Naming, Preparing, Later
<1>11. Sound("parse", v, InitCycle, u) /\ Typed("parse", v, InitCycle, u)
  BY <1>3, <1>4, <1>8, <1>9, <1>10, InitTyped DEF Sound, Typed, Labels
<1>12. Right("parse", v, InitCycle, u)
  BY <1>11 DEF Right
<1> QED
  BY <1>12 DEF v, u

-----------------------------------------------------------------------------
(* Every step leaves every master right.                                   *)

Arrays ==
  /\ pc \in [Masters -> Labels] /\ cyc \in [Masters -> CycleType]
  /\ new \in [Masters -> CycleType] /\ fds \in [Masters -> [Fds -> Whats]]
Others ==
  /\ stale \in [Masters -> SUBSET Fds] /\ parent \in [Masters -> Masters \cup {0}]
  /\ pidfile \in [PidFiles -> Masters \cup {0}]
  /\ foreign \subseteq Addrs /\ moved \subseteq Masters
  /\ requests \in 0 .. MaxRequests /\ fails \in 0 .. MaxFails
AllRight == \A m \in Masters : Right(pc[m], cyc[m], new[m], fds[m])

\* A step of one master.
Local(m, l, c, n, t) ==
  /\ pc' = [pc EXCEPT ![m] = l] /\ cyc' = [cyc EXCEPT ![m] = c]
  /\ new' = [new EXCEPT ![m] = n] /\ fds' = [fds EXCEPT ![m] = t]

LEMMA LocalRight ==
  ASSUME Arrays, AllRight, NEW m \in Masters, NEW l, NEW c, NEW n, NEW t,
         Right(l, c, n, t), Local(m, l, c, n, t)
  PROVE  Arrays' /\ AllRight'
<1>1. l \in Labels /\ c \in CycleType /\ n \in CycleType /\ t \in [Fds -> Whats]
  BY DEF Right, Typed
<1>2. Arrays'
  BY <1>1 DEF Arrays, Local
<1>3. /\ pc'[m] = l /\ cyc'[m] = c /\ new'[m] = n /\ fds'[m] = t
      /\ \A x \in Masters : x # m =>
           pc'[x] = pc[x] /\ cyc'[x] = cyc[x] /\ new'[x] = new[x] /\ fds'[x] = fds[x]
  BY DEF Arrays, Local
<1>4. AllRight'
  BY <1>3 DEF AllRight
<1> QED
  BY <1>2, <1>4

LEMMA ExitRight ==
  ASSUME CycleAssumption, Arrays, AllRight, NEW m \in Masters, Exit(m)
  PROVE  Arrays' /\ AllRight'
<1> DEFINE t == [d \in Fds |-> "free"]
<1>1. t \in [Fds -> Whats]
  BY DEF Whats
<1>2. Right("exited", InitCycle, InitCycle, t)
  BY <1>1, InitTyped DEF Right, Typed, Labels
<1>3. Local(m, "exited", InitCycle, InitCycle, t)
  BY DEF Exit, Goto, Local
<1> QED
  BY <1>2, <1>3, LocalRight

LEMMA Same ==
  ASSUME Arrays, NEW m \in Masters
  PROVE  /\ pc = [pc EXCEPT ![m] = pc[m]] /\ cyc = [cyc EXCEPT ![m] = cyc[m]]
         /\ new = [new EXCEPT ![m] = new[m]] /\ fds = [fds EXCEPT ![m] = fds[m]]
BY DEF Arrays

LEMMA StartingRight ==
  ASSUME CycleAssumption, Arrays, AllRight, NEW m \in Masters, Starting(m)
  PROVE  Arrays' /\ AllRight'
<1> DEFINE c == cyc[m]
           n == new[m]
           t == fds[m]
<1>1. Right(pc[m], c, n, t) /\ c \in CycleType /\ n \in CycleType
  BY DEF Arrays, AllRight
<1>2. pc[m] \notin {"unborn", "exited"} => Running(pc[m], c, t) /\ Staged(pc[m], c, n)
  BY <1>1 DEF Right, Sound
<1>3. CASE Parse(m)
  <2>1. PICK conf \in Confs :
          new' = [new EXCEPT ![m] = Read(c, conf)]
    BY <1>3 DEF Parse, Read
  <2> DEFINE l == IF First(m) THEN "files" ELSE "pid"
  <2>2. Right(l, c, Read(c, conf), t)
    BY <1>1, <1>3, ReadRight DEF Parse, First
  <2>3. Local(m, l, c, Read(c, conf), t)
    BY <1>3, <2>1, Same DEF Parse, Goto, Local
  <2> QED
    BY <2>2, <2>3, LocalRight
<1>4. CASE ParseFails(m)
  <2>1. CASE First(m)
    BY <1>4, <2>1, ExitRight DEF ParseFails
  <2>2. CASE ~First(m)
    <3>1. pc[m] = "parse" /\ Local(m, "rest", c, n, t)
      BY <1>4, <2>2, Same DEF ParseFails, Goto, Local
    <3>2. Staged("rest", c, n)
      BY <1>2, <3>1 DEF Staged, InitCycle, Idle, Naming, Preparing, Later
    <3>3. Right("rest", c, n, t)
      BY <1>1, <2>2, <3>1, <3>2, Restaged DEF First, Labels
    <3> QED
      BY <3>1, <3>3, LocalRight
  <2> QED
    BY <2>1, <2>2
<1>5. CASE KeepPid(m) \/ CreatePid(m) \/ DeletePid(m)
  <2> DEFINE l == IF CreatePid(m) THEN "delete_pid" ELSE "files"
  <2>1. pc[m] \in Naming /\ Local(m, l, c, n, t)
    BY <1>5, Same DEF KeepPid, CreatePid, DeletePid, Naming, Goto, Local
  <2>2. CreatePid(m) => n.conf.pid # c.conf.pid
    BY DEF CreatePid
  <2>3. Staged(l, c, n)
    BY <1>2, <2>1, <2>2 DEF Staged, Idle, Naming, Preparing, Later
  <2>4. c.conf # NoConf
    BY <1>2, <2>1 DEF Running, Naming
  <2>5. Right(l, c, n, t)
    BY <1>1, <2>1, <2>3, <2>4, Restaged DEF Naming, Labels
  <2> QED
    BY <2>1, <2>5, LocalRight
<1>6. CASE CreatePidFails(m)
  <2>1. pc[m] = "pid" /\ pc' = [pc EXCEPT ![m] = "rollback"] /\ UNCHANGED <<cyc, new>>
    BY <1>6 DEF CreatePidFails, Goto
  <2>2. Staged("rollback", c, n)
    BY <1>2, <2>1 DEF Staged, Idle, Naming, Preparing, Later
  <2>3. Right("rollback", c, n, t)
    BY <1>1, <2>1, <2>2, Restaged DEF Labels
  <2>4. CASE UNCHANGED fds
    <3>1. Local(m, "rollback", c, n, t)
      BY <2>1, <2>4, Same DEF Local
    <3> QED
      BY <2>3, <3>1, LocalRight
  <2>5. CASE CanOpen(t) /\ fds' = [fds EXCEPT ![m] = Opened(t, "lost")]
    <3>1. Local(m, "rollback", c, n, Opened(t, "lost"))
      BY <2>1, <2>5, Same DEF Local
    <3>2. Right("rollback", c, n, Opened(t, "lost"))
      BY <2>3, <2>5, LostIsSound
    <3> QED
      BY <3>1, <3>2, LocalRight
  <2> QED
    BY <1>6, <2>4, <2>5 DEF CreatePidFails
<1>7. CASE StartPid(m)
  <2>1. pc[m] = "start" /\ Local(m, "rest", c, n, t)
    BY <1>7, Same DEF StartPid, Goto, Local
  <2>2. Staged("rest", c, n) /\ c.conf # NoConf
    BY <1>2, <2>1 DEF Running, Staged, InitCycle, Idle, Naming, Preparing, Later
  <2>3. Right("rest", c, n, t)
    BY <1>1, <2>1, <2>2, Restaged DEF Labels
  <2> QED
    BY <2>1, <2>3, LocalRight
<1>8. CASE StartPidFails(m)
  BY <1>8, ExitRight DEF StartPidFails
<1> QED
  BY <1>3, <1>4, <1>5, <1>6, <1>7, <1>8 DEF Starting

Placed(n, i, a) == [n EXCEPT !.i = i, !.failed = a]
LEMMA PlacedIs ==
  ASSUME NEW n \in CycleType, NEW i \in Nat, NEW a \in BOOLEAN
  PROVE  /\ Placed(n, i, a) \in CycleType
         /\ Placed(n, i, a).ls = n.ls /\ Placed(n, i, a).files = n.files
         /\ Placed(n, i, a).remain = n.remain /\ Placed(n, i, a).conf = n.conf
         /\ Placed(n, i, a).part = n.part /\ Placed(n, i, a).tries = n.tries
         /\ Placed(n, i, a).i = i /\ Placed(n, i, a).failed = a
BY DEF CycleType, Placed

LEMMA OpeningRight ==
  ASSUME CycleAssumption, Arrays, AllRight, NEW m \in Masters, Opening(m)
  PROVE  Arrays' /\ AllRight'
<1> DEFINE c == cyc[m]
           n == new[m]
           t == fds[m]
<1>1. Right(pc[m], c, n, t) /\ c \in CycleType /\ n \in CycleType
  BY DEF Arrays, AllRight
<1>2. /\ pc[m] \notin {"unborn", "exited"} => Staged(pc[m], c, n)
      /\ n.i \in Nat /\ n.tries \in 0 .. Tries /\ n.failed \in BOOLEAN
      /\ DOMAIN n.ls = 1 .. Len(n.ls) /\ Len(n.ls) \in Nat
      /\ DOMAIN n.files = 1 .. Len(n.files) /\ Len(n.files) \in Nat
  BY <1>1, FieldsOf DEF Right, Sound
<1>3. CASE OpenFile(m)
  <2> DEFINE v == [n EXCEPT !.files[n.i].fd = FreeFd(t), !.i = @ + 1]
             u == Opened(t, n.files[n.i].name)
  <2>3. new' = [new EXCEPT ![m] = v]
    BY <1>3 DEF OpenFile, Arrays, CycleType
  <2>4. fds' = [fds EXCEPT ![m] = u] /\ CanOpen(t)
    BY <1>3 DEF OpenFile, FileOpened, File
  <2>5. UNCHANGED <<pc, cyc>> /\ pc[m] = "files" /\ n.i <= Len(n.files)
    BY <1>3 DEF OpenFile, AtFile
  <2>1. Local(m, "files", c, v, u)
    <3> HIDE DEF v, u
    <3> QED
      BY <2>3, <2>4, <2>5, Same DEF Local
  <2>2. Right("files", c, v, u)
    BY <1>1, <2>4, <2>5, FileOpenedRight
  <2> QED
    BY <2>1, <2>2, LocalRight
<1>4. CASE OpenFileFails(m)
  <2>1. /\ pc[m] = "files" /\ n.i <= Len(n.files)
        /\ pc' = [pc EXCEPT ![m] = "rollback"] /\ UNCHANGED cyc
    BY <1>4 DEF OpenFileFails, AtFile, Goto
  <2>2. CASE UNCHANGED <<fds, new>>
    <3>1. Local(m, "rollback", c, n, t)
      BY <2>1, <2>2, Same DEF Local
    <3>2. Staged("rollback", c, n)
      BY <1>2, <2>1 DEF Staged, Idle, Naming, Preparing, Later
    <3>3. Right("rollback", c, n, t)
      BY <1>1, <2>1, <3>2, Restaged DEF Labels
    <3> QED
      BY <3>1, <3>3, LocalRight
  <2>3. CASE FileOpened(m) /\ new' = [new EXCEPT ![m].files[new[m].i].fd = FreeFd(fds[m])]
    <3> DEFINE v == [n EXCEPT !.files[n.i].fd = FreeFd(t)]
               u == Opened(t, n.files[n.i].name)
    <3>1. Local(m, "rollback", c, v, u) /\ CanOpen(t)
      BY <2>1, <2>3, Same DEF FileOpened, File, Local
    <3>2. Right("rollback", c, v, u)
      BY <1>1, <2>1, <3>1, FileOpenedRight
    <3> QED
      BY <3>1, <3>2, LocalRight
  <2> QED
    BY <1>4, <2>2, <2>3 DEF OpenFileFails
<1>5. CASE FilesDone(m)
  <2> DEFINE v == [n EXCEPT !.i = 1]
  <2>1. Local(m, "match", c, v, t) /\ pc[m] = "files" /\ n.i > Len(n.files)
    BY <1>5, Same DEF FilesDone, Goto, Local
  <2>2. /\ v \in CycleType /\ v.ls = n.ls /\ v.files = n.files /\ v.remain = n.remain
        /\ v.i = 1 /\ v.conf = n.conf /\ v.part = n.part /\ v.tries = n.tries
        /\ v.failed = n.failed
    BY <1>1 DEF CycleType
  <2>3. Staged("files", c, n)
    BY <1>2, <2>1
  <2> HIDE DEF v
  <2>4. \A k \in DOMAIN v.files : v.files[k].fd # NoFd
    BY <1>2, <2>1, <2>2, <2>3 DEF Staged, Naming
  <2>5. Staged("match", c, v)
    BY <2>2, <2>3, <2>4 DEF Staged, Idle, Naming, Preparing, Later
  <2>6. Right("match", c, v, t)
    BY <1>1, <2>1, <2>2, <2>5, Restaged DEF Labels
  <2> QED
    BY <2>1, <2>6, LocalRight
<1>6. CASE Match(m)
  <2>1. Right(pc'[m], c, new'[m], t)
    BY <1>1, <1>6, MatchRight DEF Arrays
  <2>2. Local(m, pc'[m], c, new'[m], t)
    BY <1>6, Same DEF Match, Goto, Local, Arrays
  <2> QED
    BY <2>1, <2>2, LocalRight
<1>7. CASE HasSocket(m) \/ AddressInUse(m)
  <2> DEFINE a == IF HasSocket(m) THEN n.failed ELSE TRUE
             v == [n EXCEPT !.i = @ + 1, !.failed = a]
  <2>1. /\ pc[m] = "open" /\ n.i <= Len(n.ls)
        /\ HasSocket(m) => n.ls[n.i].fd # NoFd
    BY <1>7 DEF HasSocket, AddressInUse, AtSocket, Current
  <2>2. Local(m, "open", c, v, t)
    <3>1. CASE HasSocket(m)
      <4>1. v = [n EXCEPT !.i = @ + 1]
        BY <3>1, <1>1 DEF CycleType
      <4>2. new' = [new EXCEPT ![m] = v]
        BY <3>1, <4>1 DEF HasSocket
      <4> HIDE DEF v
      <4> QED
        BY <3>1, <2>1, <4>2, Same DEF HasSocket, Local
    <3>2. CASE AddressInUse(m) /\ ~HasSocket(m)
      <4>1. new' = [new EXCEPT ![m] = v]
        BY <3>2, <1>1 DEF AddressInUse, CycleType, Arrays
      <4> HIDE DEF v
      <4> QED
        BY <3>2, <2>1, <4>1, Same DEF AddressInUse, Local
    <3> QED
      BY <1>7, <3>1, <3>2
  <2>3. a \in BOOLEAN /\ (a = FALSE => HasSocket(m) /\ n.failed = FALSE)
    BY <1>2
  <2> HIDE DEF a
  <2> DEFINE i == n.i + 1
  <2>8. i \in Nat /\ i >= 1
    BY <1>2
  <2> HIDE DEF i
  <2>9. v = Placed(n, i, a)
    BY DEF i, Placed
  <2> HIDE DEF v
  <2>10. /\ v \in CycleType /\ v.ls = n.ls /\ v.files = n.files /\ v.remain = n.remain
         /\ v.i = i /\ v.conf = n.conf /\ v.part = n.part /\ v.tries = n.tries
         /\ v.failed = a
    <3> HIDE DEF n
    <3> QED
      BY <1>1, <2>3, <2>8, <2>9, PlacedIs
  <2>4. /\ v \in CycleType /\ v.ls = n.ls /\ v.files = n.files /\ v.remain = n.remain
        /\ v.i = n.i + 1 /\ v.conf = n.conf /\ v.part = n.part /\ v.tries = n.tries
        /\ v.failed = a
    BY <2>10 DEF i
  <2>5. v.failed = FALSE => \A k \in DOMAIN v.ls : k < v.i => v.ls[k].fd # NoFd
    <3> SUFFICES ASSUME v.failed = FALSE, NEW k \in DOMAIN n.ls, k < n.i + 1
                 PROVE  n.ls[k].fd # NoFd
      BY <2>4
    <3>1. CASE k = n.i
      BY <3>1, <2>1, <2>3, <2>4
    <3>2. CASE k # n.i
      <4>1. k < n.i /\ n.failed = FALSE
        BY <3>2, <1>2, <2>3, <2>4
      <4> QED
        BY <4>1, <1>2, <2>1 DEF Staged
    <3> QED
      BY <3>1, <3>2
  <2>11. Staged("open", c, n) /\ v.i >= 1
    BY <1>2, <2>1, <2>4
  <2>6. Staged("open", c, v)
    BY <2>4, <2>5, <2>11 DEF Staged, Idle, Naming, Preparing, Later
  <2>7. Right("open", c, v, t)
    BY <1>1, <2>1, <2>4, <2>6, Restaged DEF Labels
  <2> QED
    BY <2>2, <2>7, LocalRight
<1>8. CASE OpenSocket(m)
  <2> DEFINE v == [n EXCEPT !.ls[n.i].fd = FreeFd(t), !.i = @ + 1]
             u == Opened(t, n.ls[n.i].addr)
  <2>3. new' = [new EXCEPT ![m] = v]
    BY <1>8 DEF OpenSocket, Arrays, CycleType
  <2>4. fds' = [fds EXCEPT ![m] = u] /\ CanOpen(t) /\ n.ls[n.i].fd = NoFd
    BY <1>8 DEF OpenSocket, Current
  <2>5. UNCHANGED <<pc, cyc>> /\ pc[m] = "open" /\ n.i <= Len(n.ls)
    BY <1>8 DEF OpenSocket, AtSocket
  <2>1. Local(m, "open", c, v, u)
    <3> HIDE DEF v, u
    <3> QED
      BY <2>3, <2>4, <2>5, Same DEF Local
  <2>2. Right("open", c, v, u)
    BY <1>1, <2>4, <2>5, SocketOpenedRight
  <2> QED
    BY <2>1, <2>2, LocalRight
<1>9. CASE OpenSocketFails(m)
  <2>1. /\ pc[m] = "open" /\ UNCHANGED <<cyc, new>>
        /\ pc' = [pc EXCEPT ![m] = "rollback"]
    BY <1>9 DEF OpenSocketFails, AtSocket, Goto
  <2>2. Staged("rollback", c, n)
    BY <1>2, <2>1 DEF Staged, Idle, Naming, Preparing, Later
  <2>3. Right("rollback", c, n, t)
    BY <1>1, <2>1, <2>2, Restaged DEF Labels
  <2>4. CASE UNCHANGED fds
    <3>1. Local(m, "rollback", c, n, t)
      BY <2>1, <2>4, Same DEF Local
    <3> QED
      BY <2>3, <3>1, LocalRight
  <2>5. CASE CanOpen(t) /\ fds' = [fds EXCEPT ![m] = Opened(t, "lost")]
    <3>1. Local(m, "rollback", c, n, Opened(t, "lost"))
      BY <2>1, <2>5, Same DEF Local
    <3>2. Right("rollback", c, n, Opened(t, "lost"))
      BY <2>3, <2>5, LostIsSound
    <3> QED
      BY <3>1, <3>2, LocalRight
  <2> QED
    BY <1>9, <2>4, <2>5 DEF OpenSocketFails
<1>10. CASE PassDone(m)
  <2> DEFINE v == [n EXCEPT !.i = 1, !.failed = FALSE, !.tries = @ - 1]
             l == IF n.failed /\ n.tries > 1 THEN "open"
                  ELSE IF n.failed THEN "rollback" ELSE "commit"
  <2>10. new' = [new EXCEPT ![m] = v]
    BY <1>10 DEF PassDone, Arrays, CycleType
  <2>11. pc' = [pc EXCEPT ![m] = l] /\ UNCHANGED <<cyc, fds>> /\ pc[m] = "open" /\ n.i > Len(n.ls)
    BY <1>10 DEF PassDone, Goto
  <2>1. pc[m] = "open" /\ n.i > Len(n.ls) /\ Local(m, l, c, v, t)
    <3> HIDE DEF v, l
    <3> QED
      BY <2>10, <2>11, Same DEF Local
  <2>2. n.tries >= 1
    BY <1>2, <2>1 DEF Staged, Preparing
  <2>3. n.tries - 1 \in 0 .. Tries
    BY <1>2, <2>2, Numbers
  <2>4. /\ v \in CycleType /\ v.ls = n.ls /\ v.files = n.files /\ v.remain = n.remain
        /\ v.i = 1 /\ v.conf = n.conf /\ v.part = n.part /\ v.tries = n.tries - 1
        /\ v.failed = FALSE
    BY <1>1, <2>3 DEF CycleType
  <2> HIDE DEF v
  <2>12. Staged("open", c, n)
    BY <1>2, <2>1
  <2>5. Staged("rollback", c, v)
    BY <2>4, <2>12 DEF Staged, Idle, Naming, Preparing, Later
  <2>13. \A k \in DOMAIN v.ls : ~(k < v.i)
    BY <1>2, <2>4
  <2>14. n.tries > 1 => v.tries >= 1
    BY <1>2, <2>4
  <2>6. n.tries > 1 => Staged("open", c, v)
    BY <2>4, <2>12, <2>13, <2>14 DEF Staged, Idle, Naming, Preparing, Later
  <2>15. n.failed = FALSE => \A k \in DOMAIN v.ls : v.ls[k].fd # NoFd
    BY <1>2, <2>1, <2>4, <2>12 DEF Staged
  <2>7. n.failed = FALSE => Staged("commit", c, v)
    BY <2>4, <2>12, <2>15 DEF Staged, Idle, Naming, Preparing, Later
  <2>8. l \in {"open", "rollback", "commit"} /\ Staged(l, c, v)
    BY <1>2, <2>5, <2>6, <2>7
  <2> HIDE DEF l
  <2>9. Right(l, c, v, t)
    BY <1>1, <2>1, <2>4, <2>8, Restaged DEF Labels
  <2> QED
    BY <2>1, <2>9, LocalRight
<1> QED
  BY <1>3, <1>4, <1>5, <1>6, <1>7, <1>8, <1>9, <1>10 DEF Opening

LEMMA ClosingRight ==
  ASSUME CycleAssumption, Arrays, AllRight, NEW m \in Masters,
         Rollback(m) \/ Commit(m) \/ CommitFails(m)
  PROVE  Arrays' /\ AllRight'
<1> DEFINE c == cyc[m]
           n == new[m]
           t == fds[m]
<1>1. Right(pc[m], c, n, t) /\ c \in CycleType /\ n \in CycleType
  BY DEF Arrays, AllRight
<1>2. CASE Rollback(m) /\ First(m)
  BY <1>2, ExitRight DEF Rollback
<1>3. CASE Rollback(m) /\ ~First(m)
  <2> DEFINE u == Closed(t, FdsOf(n.files) \cup OpenedSockets(n))
  <2>1. pc[m] = "rollback" /\ Local(m, "rest", c, InitCycle, u)
    BY <1>3, Same DEF Rollback, Goto, Local
  <2>2. Right("rest", c, InitCycle, u)
    BY <1>1, <1>3, <2>1, RollbackRight DEF First
  <2> QED
    BY <2>1, <2>2, LocalRight
<1>4. CASE Commit(m)
  <2> DEFINE u == Closed(t, Surplus(c, n))
             l == IF First(m) THEN "start" ELSE "rest"
  <2>1. pc[m] = "commit" /\ Local(m, l, Taken(n), InitCycle, u)
    BY <1>4 DEF Commit, Goto, Local, Unneeded, Surplus, Taken
  <2>2. Right(l, Taken(n), InitCycle, u)
    BY <1>1, <2>1, CommitRight
  <2> HIDE DEF u, l
  <2> QED
    BY <2>1, <2>2, LocalRight
<1>5. CASE CommitFails(m)
  BY <1>5, ExitRight DEF CommitFails
<1> QED
  BY <1>2, <1>3, <1>4, <1>5

LEMMA RestRight ==
  ASSUME CycleAssumption, Arrays, Others, AllRight, Family, NEW m \in Masters,
         Reload(m) \/ Reopen(m) \/ ExecNewBinary(m) \/ MasterExit(m) \/ Killed(m)
  PROVE  Arrays' /\ AllRight'
<1> DEFINE c == cyc[m]
           n == new[m]
           t == fds[m]
<1>1. /\ Right(pc[m], c, n, t) /\ c \in CycleType /\ n \in CycleType
      /\ stale[m] \subseteq Fds
  BY DEF Arrays, AllRight, Others
<1>2. CASE Reload(m)
  <2>1. pc[m] = "rest" /\ Local(m, "parse", c, n, t)
    BY <1>2, Same DEF Reload, Goto, Local
  <2>2. Staged("rest", c, n)
    BY <1>1, <2>1 DEF Right, Sound
  <2>3. Staged("parse", c, n)
    BY <2>2 DEF Staged, InitCycle, Idle, Naming, Preparing, Later
  <2>4. Right("parse", c, n, t)
    BY <1>1, <2>1, <2>3, Restaged DEF Labels
  <2> QED
    BY <2>1, <2>4, LocalRight
<1>3. CASE Reopen(m)
  <2>1. PICK kept \in SUBSET DOMAIN c.files :
          /\ IF ~CanOpen(t) THEN kept = DOMAIN c.files /\ UNCHANGED fails
             ELSE IF kept = {} THEN UNCHANGED fails ELSE Fault
          /\ fds' = [fds EXCEPT ![m] = Reopened(m, kept).t]
          /\ cyc' = [cyc EXCEPT ![m].files = Reopened(m, kept).l]
    BY <1>3 DEF Reopen
  <2> DEFINE v == [c EXCEPT !.files = Reopened(m, kept).l]
             u == Reopened(m, kept).t
  <2>2. cyc' = [cyc EXCEPT ![m] = v]
    BY <2>1
  <2>3. CanOpen(t) \/ kept = DOMAIN c.files
    BY <2>1
  <2>4. pc[m] = "rest" /\ UNCHANGED <<pc, new>>
    BY <1>3 DEF Reopen
  <2>5. Right("rest", v, n, u)
    BY <1>1, <2>3, <2>4, ReopenRight
  <2>6. fds' = [fds EXCEPT ![m] = u]
    BY <2>1
  <2> HIDE DEF u, v
  <2>7. Local(m, "rest", v, n, u)
    BY <2>2, <2>4, <2>6, Same DEF Local
  <2> QED
    BY <2>5, <2>7, LocalRight
<1>4. CASE ExecNewBinary(m)
  <2>1. PICK x \in Masters :
          /\ pc[x] = "unborn" /\ Goto(x, "parse")
          /\ fds' = [fds EXCEPT ![x] = OnExec(t)]
          /\ \E ignored \in SUBSET DOMAIN c.ls :
               cyc' = [cyc EXCEPT ![x] = Inherited(c, ignored)]
    BY <1>4 DEF ExecNewBinary, OnExec, Inherited, InheritedSocket
  <2>2. PICK ignored \in SUBSET DOMAIN c.ls :
          cyc' = [cyc EXCEPT ![x] = Inherited(c, ignored)]
    BY <2>1
  <2>3. pc[m] = "rest" /\ UNCHANGED new /\ new[x] = InitCycle
    BY <1>4, <2>1 DEF ExecNewBinary, Family
  <2>4. Right("parse", Inherited(c, ignored), InitCycle, OnExec(t))
    BY <1>1, <2>3, ExecRight
  <2>5. Local(x, "parse", Inherited(c, ignored), InitCycle, OnExec(t))
    BY <2>1, <2>2, <2>3, Same DEF Local, Goto
  <2> QED
    BY <2>4, <2>5, LocalRight
<1>5. CASE MasterExit(m) \/ Killed(m)
  BY <1>5, ExitRight DEF MasterExit, Killed
<1> QED
  BY <1>2, <1>3, <1>4, <1>5

\* The steps of the masters, and the rest.
Step(m) ==
  InitStep(m) \/ Reload(m) \/ Reopen(m) \/ ExecNewBinary(m) \/ MasterExit(m) \/ Killed(m)

LEMMA NextIs ==
  ASSUME [Next]_vars
  PROVE  \/ \E m \in Masters : Step(m)
         \/ (\E f \in Rotated : Rotate(f)) \/ (\E a \in Addrs : ForeignLeaves(a))
         \/ UNCHANGED vars
BY DEF Next, Step

LEMMA StepRight ==
  ASSUME CycleAssumption, Arrays, Others, AllRight, Family, [Next]_vars
  PROVE  Arrays' /\ AllRight'
<1>1. ASSUME NEW m \in Masters, Step(m) PROVE Arrays' /\ AllRight'
  BY <1>1, StartingRight, OpeningRight, ClosingRight, RestRight DEF Step, InitStep
<1>2. CASE UNCHANGED <<pc, cyc, new, fds>>
  BY <1>2 DEF Arrays, AllRight
<1> QED
  BY <1>1, <1>2, NextIs DEF Rotate, ForeignLeaves, vars

LEMMA WorkersHave ==
  ASSUME Arrays, NEW m \in Masters, NEW gone
  PROVE  WithWorkers(m, gone) \subseteq Addrs
<1>1. cyc[m] \in CycleType
  BY DEF Arrays
<1>2. \A k \in DOMAIN cyc[m].ls : cyc[m].ls[k].addr \in Addrs
  BY <1>1, FieldsOf DEF Sockets
<1> QED
  BY <1>2 DEF WithWorkers

LEMMA OthersKept ==
  ASSUME CycleAssumption, Arrays, Others, AllRight, [Next]_vars
  PROVE  Others'
<1>1. MaxRequests \in Nat /\ MaxFails \in Nat
  BY DEF CycleAssumption
<1>2. CASE UNCHANGED vars
  BY <1>2 DEF Others, vars, disk, bounds
<1>3. ASSUME NEW f \in Rotated, Rotate(f) PROVE Others'
  <2>1. stale' \in [Masters -> SUBSET Fds]
    BY <1>3 DEF Rotate, Others
  <2> QED
    BY <1>3, <2>1 DEF Rotate, Others, disk, bounds
<1>4. ASSUME NEW a \in Addrs, ForeignLeaves(a) PROVE Others'
  BY <1>4 DEF ForeignLeaves, Others, disk, bounds
<1>5. ASSUME NEW m \in Masters, Step(m) PROVE Others'
  <2>1. stale' \in [Masters -> SUBSET Fds]
    <3>1. CASE Reopen(m)
      <4>1. PICK kept \in SUBSET DOMAIN cyc[m].files :
              /\ IF ~CanOpen(fds[m]) THEN kept = DOMAIN cyc[m].files /\ UNCHANGED fails
                 ELSE IF kept = {} THEN UNCHANGED fails ELSE Fault
              /\ stale' = [stale EXCEPT ![m] = Reopened(m, kept).stale]
        BY <3>1 DEF Reopen
      <4>2. /\ Right("rest", cyc[m], new[m], fds[m]) /\ stale[m] \subseteq Fds
            /\ CanOpen(fds[m]) \/ kept = DOMAIN cyc[m].files
        BY <3>1, <4>1 DEF Reopen, AllRight, Others
      <4>3. Reopened(m, kept).stale \subseteq Fds
        BY <4>2, ReopenRight
      <4> QED
        BY <4>1, <4>3 DEF Others
    <3>2. CASE UNCHANGED stale
      BY <3>2 DEF Others
    <3>3. CASE Exit(m)
      BY <3>3 DEF Others, Exit
    <3>4. CASE Commit(m)
      BY <3>4 DEF Others, Commit
    <3> QED
      BY <1>5, <3>1, <3>2, <3>3, <3>4
      DEF Step, InitStep, Starting, Opening, Parse, ParseFails, KeepPid, CreatePid, DeletePid,
          CreatePidFails, StartPid, StartPidFails, OpenFile, OpenFileFails, FilesDone, Match,
          HasSocket, OpenSocket, AddressInUse, OpenSocketFails, PassDone, Rollback,
          CommitFails, Reload, ExecNewBinary, MasterExit, Killed
  <2>2. parent' \in [Masters -> Masters \cup {0}]
    <3>1. CASE ExecNewBinary(m)
      BY ZenonT(40), <3>1 DEF Others, ExecNewBinary
    <3>2. CASE UNCHANGED parent
      BY <3>2 DEF Others
    <3> QED
      BY <1>5, <3>1, <3>2
      DEF Step, InitStep, Starting, Opening, Parse, ParseFails, KeepPid, CreatePid, DeletePid,
          CreatePidFails, StartPid, StartPidFails, OpenFile, OpenFileFails, FilesDone, Match,
          HasSocket, OpenSocket, AddressInUse, OpenSocketFails, PassDone, Rollback, Commit,
          CommitFails, Reload, Reopen, MasterExit, Killed
  <2>3. pidfile' \in [PidFiles -> Masters \cup {0}]
    BY <1>5
    DEF Others, disk, Step, InitStep, Starting, Opening, Parse, ParseFails, KeepPid, CreatePid,
        DeletePid, CreatePidFails, StartPid, StartPidFails, OpenFile, OpenFileFails, FilesDone,
        Match, HasSocket, OpenSocket, AddressInUse, OpenSocketFails, PassDone, Rollback, Commit,
        CommitFails, Reload, Reopen, ExecNewBinary, MasterExit, Killed
  <2>4. foreign' \subseteq Addrs
    BY <1>5, WorkersHave
    DEF Others, Step, InitStep, Starting, Opening, Parse, ParseFails, KeepPid, CreatePid,
        DeletePid, CreatePidFails, StartPid, StartPidFails, OpenFile, OpenFileFails, FilesDone,
        Match, HasSocket, OpenSocket, AddressInUse, OpenSocketFails, PassDone, Rollback, Commit,
        CommitFails, Reload, Reopen, ExecNewBinary, MasterExit, Killed
  <2>5. moved' \subseteq Masters
    BY <1>5
    DEF Others, disk, Step, InitStep, Starting, Opening, Parse, ParseFails, KeepPid, CreatePid,
        DeletePid, CreatePidFails, StartPid, StartPidFails, OpenFile, OpenFileFails, FilesDone,
        Match, HasSocket, OpenSocket, AddressInUse, OpenSocketFails, PassDone, Rollback, Commit,
        CommitFails, Reload, Reopen, ExecNewBinary, MasterExit, Killed
  <2>6. requests' \in 0 .. MaxRequests
    <3>1. CASE requests' = requests + 1 /\ requests < MaxRequests
      BY <3>1, <1>1 DEF Others
    <3>2. CASE UNCHANGED requests
      BY <3>2 DEF Others
    <3> QED
      BY <1>5, <3>1, <3>2
      DEF bounds, Step, InitStep, Starting, Opening, Parse, ParseFails, KeepPid, CreatePid,
          DeletePid, CreatePidFails, StartPid, StartPidFails, OpenFile, OpenFileFails, FilesDone,
          Match, HasSocket, OpenSocket, AddressInUse, OpenSocketFails, PassDone, Rollback, Commit,
          CommitFails, Reload, Reopen, ExecNewBinary, MasterExit, Killed
  <2>7. fails' \in 0 .. MaxFails
    <3>1. CASE Fault
      BY <3>1, <1>1 DEF Others, Fault
    <3>2. CASE UNCHANGED fails
      BY <3>2 DEF Others
    <3> QED
      BY <1>5, <3>1, <3>2
      DEF bounds, Step, InitStep, Starting, Opening, Parse, ParseFails, KeepPid, CreatePid,
          DeletePid, CreatePidFails, StartPid, StartPidFails, OpenFile, OpenFileFails, FilesDone,
          Match, HasSocket, OpenSocket, AddressInUse, OpenSocketFails, PassDone, Rollback, Commit,
          CommitFails, Reload, Reopen, ExecNewBinary, MasterExit, Killed, OpenFault
  <2> QED
    BY <2>1, <2>2, <2>3, <2>4, <2>5, <2>6, <2>7 DEF Others
<1> QED
  BY <1>2, <1>3, <1>4, <1>5, NextIs

-----------------------------------------------------------------------------
(* The masters that run.                                                   *)

\* What a step other than an upgrade does to the family.
Goes(m) ==
  /\ Alive(m)
  /\ \E l \in Labels \ {"unborn"} : pc' = [pc EXCEPT ![m] = l]
  /\ parent' = parent
  /\ \A x \in Masters \ {m} : new'[x] = new[x] /\ cyc'[x] = cyc[x]

LEMMA StepGoes ==
  ASSUME Arrays, NEW m \in Masters, Step(m), ~ExecNewBinary(m)
  PROVE  Goes(m)
<1>1. Alive(m)
  BY DEF Alive, Step, InitStep, Starting, Opening, Parse, ParseFails, KeepPid, CreatePid, DeletePid,
         CreatePidFails, StartPid, StartPidFails, OpenFile, OpenFileFails, FilesDone, AtFile, Match,
         HasSocket, OpenSocket, AddressInUse, OpenSocketFails, AtSocket, PassDone, Rollback, Commit,
         CommitFails, Reload, Reopen, MasterExit, Killed
<1>2. \E l \in Labels \ {"unborn"} : pc' = [pc EXCEPT ![m] = l]
  <2>1. CASE UNCHANGED pc
    BY <2>1, <1>1, Same DEF Alive, Arrays
  <2>2. ~UNCHANGED pc => \E l \in Labels \ {"unborn"} : Goto(m, l)
    BY DEF Labels, Exit, Step, InitStep, Starting, Opening, Parse, ParseFails, KeepPid, CreatePid,
         DeletePid, CreatePidFails, StartPid, StartPidFails, OpenFile, OpenFileFails, FilesDone,
         Match, HasSocket, OpenSocket, AddressInUse, OpenSocketFails, PassDone, Rollback, Commit,
         CommitFails, Reload, Reopen, MasterExit, Killed
  <2> QED
    BY <2>1, <2>2 DEF Goto
<1>3. parent' = parent
  BY DEF Step, InitStep, Starting, Opening, Parse, ParseFails, KeepPid, CreatePid, DeletePid,
         CreatePidFails, StartPid, StartPidFails, OpenFile, OpenFileFails, FilesDone, Match,
         HasSocket, OpenSocket, AddressInUse, OpenSocketFails, PassDone, Rollback, Commit,
         CommitFails, Reload, Reopen, MasterExit, Killed
<1>4. \A x \in Masters \ {m} : new'[x] = new[x] /\ cyc'[x] = cyc[x]
  BY DEF Arrays, Exit, Step, InitStep, Starting, Opening, Parse, ParseFails, KeepPid, CreatePid,
         DeletePid, CreatePidFails, StartPid, StartPidFails, OpenFile, OpenFileFails, FilesDone,
         FileOpened, Match, HasSocket, OpenSocket, AddressInUse, OpenSocketFails, PassDone,
         Rollback, Commit, CommitFails, Reload, Reopen, MasterExit, Killed
<1> QED
  BY <1>1, <1>2, <1>3, <1>4 DEF Goes

LEMMA FamilyKept ==
  ASSUME CycleAssumption, Arrays, Others, Family, [Next]_vars
  PROVE  Family'
<1>1. CASE UNCHANGED <<pc, new, parent>>
  BY <1>1 DEF Family, Alive
<1>2. ASSUME NEW m \in Masters, Goes(m) PROVE Family'
  <2>1. PICK l \in Labels \ {"unborn"} : pc' = [pc EXCEPT ![m] = l]
    BY <1>2 DEF Goes
  <2>2. \A x \in Masters : pc'[x] = "unborn" => pc[x] = "unborn" /\ new'[x] = new[x]
    BY <1>2, <2>1 DEF Goes, Arrays
  <2>3. \A x \in Masters : pc[x] = "unborn" => pc'[x] = "unborn"
    BY <1>2, <2>1 DEF Goes, Arrays, Alive
  <2>4. \A x \in Masters \cup {0} : Alive(x)' => Alive(x)
    BY <1>2, <2>1 DEF Goes, Arrays, Alive
  <2>5. parent' = parent /\ \A x \in Masters : parent[x] \in Masters \cup {0}
    BY <1>2 DEF Goes, Others
  <2>6. \A x \in Masters : pc'[x] = "unborn" => parent'[x] = 0 /\ new'[x] = InitCycle
    BY <2>2, <2>5 DEF Family
  <2>7. \A x \in Masters : Alive(x)' => parent'[x] = 0 \/ pc'[parent'[x]] # "unborn"
    BY <2>2, <2>4, <2>5 DEF Family
  <2>8. \A x, y \in Masters :
          Alive(x)' /\ Alive(y)' /\ x # y => parent'[x] = y \/ parent'[y] = x
    BY <2>4, <2>5 DEF Family
  <2>9. \A x \in Masters : Alive(x)' /\ Alive(parent[x])' => ~Alive(parent[parent[x]])'
    <3> SUFFICES ASSUME NEW x \in Masters, Alive(x)', Alive(parent[x])',
                        Alive(parent[parent[x]])'
                 PROVE  FALSE
      OBVIOUS
    <3>1. Alive(x) /\ Alive(parent[x])
      BY <2>4, <2>5
    <3>2. parent[x] \in Masters
      BY <3>1 DEF Alive
    <3>3. Alive(parent[parent[x]])
      BY <3>2, <2>4, <2>5
    <3> QED
      BY <3>1, <3>3 DEF Family
  <2> QED
    BY <2>5, <2>6, <2>7, <2>8, <2>9 DEF Family
<1>3. ASSUME NEW m \in Masters, ExecNewBinary(m) PROVE Family'
  <2>1. PICK x \in Masters :
          /\ pc[x] = "unborn" /\ pc' = [pc EXCEPT ![x] = "parse"]
          /\ parent' = [parent EXCEPT ![x] = m]
    BY <1>3 DEF ExecNewBinary, Goto
  <2>2. /\ pc[m] = "rest" /\ ~Alive(parent[m]) /\ UNCHANGED new
        /\ \A n \in Masters : parent[n] = m => ~Alive(n)
    BY <1>3 DEF ExecNewBinary
  <2>3. \A y \in Masters : Alive(y) => y = m
    BY <2>2 DEF Family, Alive
  <2>4. \A y \in Masters : Alive(y)' => y = m \/ y = x
    BY <2>1, <2>3 DEF Alive, Arrays
  <2>5. parent'[x] = m /\ parent'[m] = parent[m] /\ m # x /\ pc'[m] = "rest"
    BY <2>1, <2>2 DEF Others, Arrays
  <2>6. parent[m] # x /\ parent[m] # m
    BY <2>1, <2>2 DEF Family, Alive, Masters
  <2>7. ~Alive(parent[m])' /\ (parent[m] = 0 \/ pc'[parent[m]] # "unborn")
    <3>1. parent[m] = 0 \/ (parent[m] \in Masters /\ pc[parent[m]] = "exited")
      BY <2>2 DEF Family, Alive, Others, Labels
    <3> QED
      BY <3>1, <2>1, <2>5, <2>6 DEF Alive, Arrays, Masters
  <2>8. \A y \in Masters : pc'[y] = "unborn" => parent'[y] = 0 /\ new'[y] = InitCycle
    BY <2>1, <2>2 DEF Family, Arrays, Others
  <2>9. \A y \in Masters : Alive(y)' => parent'[y] = 0 \/ pc'[parent'[y]] # "unborn"
    BY <2>4, <2>5, <2>7
  <2>10. \A y, z \in Masters :
           Alive(y)' /\ Alive(z)' /\ y # z => parent'[y] = z \/ parent'[z] = y
    BY <2>4, <2>5
  <2>11. \A y \in Masters : Alive(y)' /\ Alive(parent[y])' => ~Alive(parent[parent[y]])'
    BY <2>4, <2>5, <2>7
  <2> QED
    BY <2>8, <2>9, <2>10, <2>11 DEF Family
<1> QED
  BY <1>1, <1>2, <1>3, NextIs, StepGoes DEF Rotate, ForeignLeaves, vars

-----------------------------------------------------------------------------
(* The pid files.                                                          *)

PidNames == {conf.pid : conf \in Confs}

\* What a step of m leaves of the other masters.
Frame(m) ==
  /\ Alive(m) /\ parent' = parent
  /\ \A x \in Masters \ {m} : pc'[x] = pc[x] /\ cyc'[x] = cyc[x] /\ new'[x] = new[x]

\* A step that leaves the pid files alone and brings no other cycle.
Quiet(m) ==
  /\ Frame(m) /\ pidfile' = pidfile /\ moved' = moved
  /\ \/ pc'[m] = "exited"
     \/ cyc'[m].conf = NoConf
     \/ /\ cyc'[m].conf = cyc[m].conf /\ pc[m] # "start"
        /\ pc'[m] \in Moving => \/ pc[m] \in Moving /\ new'[m].conf = new[m].conf
                                \/ new'[m].conf.pid = cyc[m].conf.pid

LEMMA FrameIs ==
  ASSUME Others, NEW m \in Masters, Frame(m)
  PROVE  /\ \A x \in Masters \cup {0} : Alive(x)' => Alive(x)
         /\ \A x \in Masters : parent'[x] = parent[x] /\ parent[x] \in Masters \cup {0}
         /\ \A x \in Masters : Exempt(x)' <=> Exempt(x)
<1>1. \A x \in Masters \cup {0} : Alive(x)' => Alive(x)
  BY DEF Frame, Alive
<1>2. \A x \in Masters : parent'[x] = parent[x] /\ parent[x] \in Masters \cup {0}
  BY DEF Frame, Others
<1> QED
  BY <1>1, <1>2 DEF Frame, Exempt

LEMMA QuietKeeps ==
  ASSUME Arrays, Others, PidKept, NEW m \in Masters, Quiet(m)
  PROVE  PidKept'
<1>1. Frame(m)
  BY DEF Quiet
<1> SUFFICES ASSUME NEW x \in Masters, Alive(x)', cyc'[x].conf # NoConf, ~Exempt(x)'
             PROVE  /\ pc'[x] # "start" /\ x \notin moved' => There(x, cyc[x].conf.pid)'
                    /\ pc'[x] \in Moving /\ new'[x].conf.pid # cyc'[x].conf.pid =>
                         There(x, new[x].conf.pid)'
  BY DEF PidKept, PidKeptOf
<1>2. /\ \A y \in Masters \cup {0} : Alive(y)' => Alive(y)
      /\ parent'[x] = parent[x] /\ parent[x] \in Masters \cup {0}
      /\ ~Exempt(x)
  BY <1>1, FrameIs
<1>3. ASSUME NEW q, There(x, q) PROVE There(x, q)'
  <2>1. Alive(parent[x])' => Alive(parent[x])
    BY <1>2 DEF Alive
  <2> QED
    BY <1>2, <1>3, <2>1 DEF There, Quiet
<1>4. CASE x # m
  <2>1. pc'[x] = pc[x] /\ cyc'[x] = cyc[x] /\ new'[x] = new[x] /\ moved' = moved
    BY <1>4 DEF Quiet, Frame
  <2>2. Alive(x) /\ PidKeptOf(x)
    BY <1>2 DEF PidKept
  <2>3. There(x, cyc[x].conf.pid) => There(x, cyc[x].conf.pid)'
    BY <2>1, <1>3 DEF There
  <2>4. There(x, new[x].conf.pid) => There(x, new[x].conf.pid)'
    BY <2>1, <1>3 DEF There
  <2> QED
    BY <1>2, <2>1, <2>2, <2>3, <2>4 DEF PidKeptOf
<1>5. CASE x = m
  <2>1. /\ cyc'[x].conf = cyc[x].conf /\ pc[x] # "start" /\ moved' = moved
        /\ pc'[x] \in Moving => \/ pc[x] \in Moving /\ new'[x].conf = new[x].conf
                                \/ new'[x].conf.pid = cyc[x].conf.pid
    BY <1>5 DEF Quiet, Alive
  <2>2. Alive(x) /\ PidKeptOf(x)
    BY <1>2 DEF PidKept
  <2>3. There(x, cyc[x].conf.pid) => There(x, cyc[x].conf.pid)'
    BY <2>1, <1>3 DEF There
  <2>4. new'[x].conf = new[x].conf /\ There(x, new[x].conf.pid) => There(x, new[x].conf.pid)'
    BY <1>3 DEF There
  <2> QED
    BY <1>2, <2>1, <2>2, <2>3, <2>4 DEF PidKeptOf
<1> QED
  BY <1>4, <1>5

\* What a master writes or deletes is never the file of the other one.
LEMMA WriteElsewhere ==
  ASSUME Others, Family, NEW m \in Masters, Frame(m), NEW conf \in Confs, NEW v,
         pidfile' = [pidfile EXCEPT ![PidName(m, conf)] = v],
         NEW x \in Masters \ {m}, Alive(x), ~Exempt(x), NEW q \in PidNames, There(x, q)
  PROVE  There(x, q)'
<1>1. Alive(m) /\ parent' = parent
  BY DEF Frame
<1>2. /\ parent[x] \in Masters \cup {0} /\ parent[m] \in Masters \cup {0}
      /\ 0 \notin Masters /\ ~Alive(0)
  BY DEF Others, Masters, Alive
<1>3. parent[x] = m \/ parent[m] = x
  BY <1>1 DEF Family
<1>4. pidfile \in [PidFiles -> Masters \cup {0}] /\ \A ext \in BOOLEAN : <<q, ext>> \in PidFiles
  BY DEF Others, PidNames, PidFiles
\* The master that executed m: m writes to the file with the extension.
<1>5. CASE parent[m] = x
  <2>1. parent[x] = 0
    BY <1>5, <1>2 DEF Exempt
  <2>2. PidName(m, conf) = <<conf.pid, TRUE>>
    BY <1>5, <1>2 DEF PidName
  <2>3. pidfile[<<q, FALSE>>] = x
    BY <2>1 DEF There
  <2>4. <<conf.pid, TRUE>> # <<q, FALSE>>
    OBVIOUS
  <2>5. pidfile'[<<q, FALSE>>] = x
    BY <2>2, <2>3, <2>4, <1>4
  <2> QED
    BY <2>1, <2>5, <1>1, <1>2 DEF There, Alive
\* The binary that m executed: m writes to the file of its own name.
<1>6. CASE parent[x] = m
  <2>1. ~Alive(parent[m])
    BY <1>6, <1>1 DEF Family
  <2>2. PidName(m, conf) = <<conf.pid, FALSE>>
    BY <2>1 DEF PidName
  <2>3. pidfile[<<q, TRUE>>] = x
    BY <1>1, <1>6 DEF There
  <2>4. <<conf.pid, FALSE>> # <<q, TRUE>>
    OBVIOUS
  <2>5. pidfile'[<<q, TRUE>>] = x
    BY <2>2, <2>3, <2>4, <1>4
  <2> QED
    BY <2>5, <1>1, <1>2, <1>6 DEF There
<1> QED
  BY <1>3, <1>5, <1>6

\* So the others keep their pid files at each step that writes one.
LEMMA WriteKeeps ==
  ASSUME Arrays, Others, Family, PidKept, NEW m \in Masters, Frame(m), NEW conf \in Confs, NEW v,
         pidfile' = [pidfile EXCEPT ![PidName(m, conf)] = v],
         \A y \in Masters \ {m} : y \in moved' <=> y \in moved,
         \A x \in Masters \ {m} :
           Alive(x) => (pc[x] \in Moving /\ cyc[x].conf # NoConf => new[x].conf \in Confs),
         PidKeptOf(m)'
  PROVE  PidKept'
<1> SUFFICES ASSUME NEW x \in Masters \ {m}, Alive(x)', cyc'[x].conf # NoConf, ~Exempt(x)'
             PROVE  /\ pc'[x] # "start" /\ x \notin moved' => There(x, cyc[x].conf.pid)'
                    /\ pc'[x] \in Moving /\ new'[x].conf.pid # cyc'[x].conf.pid =>
                         There(x, new[x].conf.pid)'
  BY DEF PidKept, PidKeptOf
<1>1. Alive(x) /\ ~Exempt(x)
  BY FrameIs
<1>2. pc'[x] = pc[x] /\ cyc'[x] = cyc[x] /\ new'[x] = new[x]
  BY DEF Frame
<1>3. PidKeptOf(x) /\ cyc[x].conf \in Confs
  <2>1. cyc[x] \in CycleType
    BY DEF Arrays
  <2> QED
    BY <1>2, <2>1, FieldsOf DEF PidKept
<1>4. ASSUME NEW q \in PidNames, There(x, q) PROVE There(x, q)'
  BY <1>1, <1>4, WriteElsewhere
<1>5. There(x, cyc[x].conf.pid) => There(x, cyc[x].conf.pid)'
  <2>1. cyc[x].conf.pid \in PidNames
    BY <1>3 DEF PidNames
  <2> QED
    BY <2>1, <1>2, <1>4 DEF There
<1>6. pc[x] \in Moving /\ There(x, new[x].conf.pid) => There(x, new[x].conf.pid)'
  <2> SUFFICES ASSUME pc[x] \in Moving, There(x, new[x].conf.pid)
               PROVE  There(x, new[x].conf.pid)'
    OBVIOUS
  <2>1. new[x].conf.pid \in PidNames
    BY <1>1, <1>2, <1>3 DEF PidNames
  <2> QED
    BY <2>1, <1>2, <1>4 DEF There
<1> QED
  BY <1>1, <1>2, <1>3, <1>5, <1>6 DEF PidKeptOf

\* The steps that write or delete a pid file, or bring a cycle.
PidStep(m) ==
  \/ CreatePid(m) \/ DeletePid(m) \/ CreatePidFails(m) \/ StartPid(m) \/ StartPidFails(m)
  \/ MasterExit(m) \/ Commit(m)

LEMMA StepFrame ==
  ASSUME Arrays, NEW m \in Masters, Step(m), ~ExecNewBinary(m)
  PROVE  Frame(m)
BY StepGoes DEF Goes, Frame, Arrays

LEMMA StepQuiet ==
  ASSUME Arrays, NEW m \in Masters, Step(m), ~ExecNewBinary(m), ~PidStep(m)
  PROVE  Quiet(m)
<1>1. Frame(m)
  BY StepFrame
<1>2. pidfile' = pidfile /\ moved' = moved
  BY DEF PidStep, disk, Step, InitStep, Starting, Opening, Parse, ParseFails, KeepPid, OpenFile,
         OpenFileFails, FilesDone, Match, HasSocket, OpenSocket, AddressInUse, OpenSocketFails,
         PassDone, Rollback, CommitFails, Reload, Reopen, Killed
<1>3. ASSUME Exit(m) PROVE pc'[m] = "exited"
  BY <1>3 DEF Exit, Goto, Arrays
<1>4. CASE Parse(m) \/ ParseFails(m) \/ Reload(m) \/ Reopen(m)
  <2>1. CASE Parse(m)
    BY <1>1, <1>2, <2>1 DEF Quiet, Arrays, Parse, Goto, First, Moving
  <2>2. CASE ParseFails(m)
    BY <1>1, <1>2, <1>3, <2>2 DEF Quiet, Arrays, ParseFails, Goto, Moving
  <2>3. CASE Reload(m)
    BY <1>1, <1>2, <2>3 DEF Quiet, Arrays, Reload, Goto, Moving
  <2>4. CASE Reopen(m)
    <3>1. PICK fs : cyc' = [cyc EXCEPT ![m].files = fs]
      BY <2>4 DEF Reopen
    <3>2. cyc'[m].conf = cyc[m].conf
      BY <3>1 DEF Arrays, CycleType
    <3> QED
      BY <1>1, <1>2, <2>4, <3>2 DEF Quiet, Reopen, Moving
  <2> QED
    BY <1>4, <2>1, <2>2, <2>3, <2>4
<1>5. CASE KeepPid(m)
  BY <1>1, <1>2, <1>5 DEF Quiet, Arrays, KeepPid, Goto
<1>6. CASE OpenFile(m) \/ OpenFileFails(m) \/ FilesDone(m)
  BY <1>1, <1>2, <1>6
  DEF Quiet, Arrays, OpenFile, OpenFileFails, FilesDone, AtFile, Goto, Moving, CycleType
<1>7. CASE Match(m) \/ HasSocket(m) \/ OpenSocket(m) \/ AddressInUse(m) \/ OpenSocketFails(m)
           \/ PassDone(m)
  <2>1. pc[m] \in Moving /\ cyc' = cyc
    BY <1>7 DEF Match, HasSocket, OpenSocket, AddressInUse, OpenSocketFails, PassDone, AtSocket,
                Moving
  <2>2. CASE Match(m)
    <3>1. PICK ls, rem : new' = [new EXCEPT ![m].ls = ls, ![m].remain = rem]
      BY <2>2 DEF Match
    <3>2. new'[m].conf = new[m].conf
      BY <3>1 DEF Arrays, CycleType
    <3> QED
      BY <1>1, <1>2, <2>1, <3>2 DEF Quiet, Moving
  <2>3. CASE HasSocket(m) \/ OpenSocket(m) \/ AddressInUse(m) \/ OpenSocketFails(m) \/ PassDone(m)
    <3>1. new'[m].conf = new[m].conf
      BY <2>3 DEF HasSocket, OpenSocket, AddressInUse, OpenSocketFails, PassDone, Arrays, CycleType
    <3> QED
      BY <1>1, <1>2, <2>1, <3>1 DEF Quiet, Moving
  <2> QED
    BY <1>7, <2>2, <2>3
<1>8. CASE Rollback(m) \/ CommitFails(m) \/ Killed(m)
  BY <1>1, <1>2, <1>3, <1>8 DEF Quiet, Arrays, Rollback, CommitFails, Killed, Goto, Moving
<1> QED
  BY <1>4, <1>5, <1>6, <1>7, <1>8 DEF PidStep, Step, InitStep, Starting, Opening

LEMMA ConfsNamed ==
  ASSUME Arrays, AllRight, NEW m \in Masters, Alive(m)
  PROVE  /\ pc[m] \notin Idle => new[m].conf \in Confs
         /\ pc[m] \in {"start", "rest", "pid", "delete_pid"} => cyc[m].conf \in Confs
         /\ pc[m] \in Idle => new[m] = InitCycle
         /\ pc[m] = "delete_pid" => new[m].conf.pid # cyc[m].conf.pid
<1>1. Running(pc[m], cyc[m], fds[m]) /\ Staged(pc[m], cyc[m], new[m])
  BY DEF AllRight, Right, Sound, Alive
<1>2. cyc[m] \in CycleType
  BY DEF Arrays
<1>3. cyc[m].conf \in Confs \cup {NoConf}
  BY <1>2, FieldsOf
<1> QED
  BY <1>1, <1>3 DEF Running, Staged

LEMMA WriteOwn ==
  ASSUME Others, NEW m \in Masters, Frame(m), NEW conf \in Confs, NEW v,
         pidfile' = [pidfile EXCEPT ![PidName(m, conf)] = v]
  PROVE  /\ v = m => There(m, conf.pid)'
         /\ \A q \in PidNames \ {conf.pid} : There(m, q) => There(m, q)'
<1>1. /\ Alive(parent[m])' => Alive(parent[m])
      /\ parent'[m] = parent[m] /\ parent[m] \in Masters \cup {0}
  BY FrameIs DEF Alive
<1>2. pidfile \in [PidFiles -> Masters \cup {0}]
  BY DEF Others
<1>3. \E ext \in BOOLEAN : PidName(m, conf) = <<conf.pid, ext>>
  <2>1. CASE parent[m] # 0 /\ Alive(parent[m])
    BY <2>1 DEF PidName
  <2>2. CASE ~(parent[m] # 0 /\ Alive(parent[m]))
    BY <2>2 DEF PidName
  <2> QED
    BY <2>1, <2>2
<1>4. ASSUME v = m PROVE There(m, conf.pid)'
  <2>1. pidfile'[PidName(m, conf)] = m
    BY <1>2, <1>3, <1>4 DEF PidFiles
  <2>2. parent[m] = 0 => PidName(m, conf) = <<conf.pid, FALSE>>
    BY DEF PidName
  <2>3. parent[m] # 0 /\ Alive(parent[m]) => PidName(m, conf) = <<conf.pid, TRUE>>
    BY DEF PidName
  <2>4. Alive(parent[m]) => parent[m] # 0
    BY DEF Alive, Masters
  <2> QED
    BY <1>1, <1>3, <2>1, <2>2, <2>3, <2>4 DEF There
<1>5. ASSUME NEW q \in PidNames \ {conf.pid}, There(m, q) PROVE There(m, q)'
  <2>1. \A ext \in BOOLEAN : <<q, ext>> \in PidFiles /\ <<q, ext>> # PidName(m, conf)
    BY <1>3 DEF PidNames, PidFiles
  <2>2. \A ext \in BOOLEAN : pidfile'[<<q, ext>>] = pidfile[<<q, ext>>]
    BY <2>1, <1>2
  <2> QED
    BY <1>1, <1>5, <2>2 DEF There
<1> QED
  BY <1>4, <1>5

LEMMA PidStepKeeps ==
  ASSUME CycleAssumption, Arrays, Others, AllRight, Family, PidKept, NEW m \in Masters, PidStep(m)
  PROVE  PidKept'
<1>1. Frame(m) /\ Alive(m)
  <2>1. Step(m) /\ ~ExecNewBinary(m)
    BY DEF PidStep, Step, InitStep, Starting, CreatePid, DeletePid, CreatePidFails, StartPid,
           StartPidFails, MasterExit, Commit, ExecNewBinary, Goto, Exit, Arrays
  <2> QED
    BY <2>1, StepFrame DEF Frame
<1>2. PidKeptOf(m) /\ (Exempt(m)' <=> Exempt(m))
  BY <1>1, FrameIs DEF PidKept
<1>3. \A x \in Masters : Alive(x) =>
        (pc[x] \in Moving /\ cyc[x].conf # NoConf => new[x].conf \in Confs)
  BY ConfsNamed DEF Moving, Idle
<1>4. CASE CreatePid(m)
  <2> DEFINE q == new[m].conf
             p == cyc[m].conf
  <2>1. /\ pc[m] = "pid" /\ q.pid # p.pid /\ pc'[m] = "delete_pid"
        /\ pidfile' = [pidfile EXCEPT ![PidName(m, q)] = m]
        /\ cyc' = cyc /\ new' = new /\ moved' = moved
    BY <1>4 DEF CreatePid, Goto, Arrays
  <2>2. q \in Confs /\ p \in Confs
    BY <1>1, <2>1, ConfsNamed DEF Idle
  <2>3. There(m, new[m].conf.pid)'
    BY <1>1, <2>1, <2>2, WriteOwn DEF There
  <2>4. There(m, p.pid) => There(m, cyc[m].conf.pid)'
    <3>1. \A r \in PidNames \ {q.pid} : There(m, r) => There(m, r)'
      BY <1>1, <2>1, <2>2, WriteOwn
    <3>2. p.pid \in PidNames \ {q.pid} /\ p' = p
      BY <2>1, <2>2 DEF PidNames
    <3> QED
      BY <3>1, <3>2 DEF There
  <2>5. PidKeptOf(m)'
    BY <1>1, <1>2, <2>1, <2>3, <2>4 DEF PidKeptOf
  <2> HIDE DEF q
  <2> QED
    BY <1>1, <1>3, <2>1, <2>2, <2>5, WriteKeeps
<1>5. CASE DeletePid(m)
  <2> DEFINE q == new[m].conf
             p == cyc[m].conf
  <2>1. /\ pc[m] = "delete_pid" /\ pc'[m] = "files"
        /\ pidfile' = [pidfile EXCEPT ![PidName(m, p)] = 0]
        /\ cyc' = cyc /\ new' = new /\ moved' = moved \cup {m}
    BY <1>5 DEF DeletePid, Goto, Arrays
  <2>2. q \in Confs /\ p \in Confs /\ q.pid # p.pid
    BY <1>1, <2>1, ConfsNamed DEF Idle
  <2>3. There(m, q.pid) => There(m, new[m].conf.pid)'
    <3>1. \A r \in PidNames \ {p.pid} : There(m, r) => There(m, r)'
      BY <1>1, <2>1, <2>2, WriteOwn
    <3>2. q.pid \in PidNames \ {p.pid} /\ q' = q
      BY <2>1, <2>2 DEF PidNames
    <3> QED
      BY <3>1, <3>2 DEF There
  <2>4. PidKeptOf(m)'
    BY <1>1, <1>2, <2>1, <2>3 DEF PidKeptOf, Moving
  <2> HIDE DEF p
  <2> QED
    BY <1>1, <1>3, <2>1, <2>2, <2>4, WriteKeeps
<1>6. CASE CreatePidFails(m)
  <2> DEFINE q == new[m].conf
             p == cyc[m].conf
  <2>1. /\ pc[m] = "pid" /\ q.pid # p.pid /\ pc'[m] = "rollback"
        /\ cyc' = cyc /\ new' = new /\ moved' = moved
    BY <1>6 DEF CreatePidFails, Goto, Arrays
  <2>2. q \in Confs /\ p \in Confs
    BY <1>1, <2>1, ConfsNamed DEF Idle
  <2>3. CASE pidfile' = pidfile
    <3>1. Quiet(m)
      BY <1>1, <2>1, <2>3 DEF Quiet, Moving
    <3> QED
      BY <3>1, QuietKeeps
  <2>4. CASE pidfile' = [pidfile EXCEPT ![PidName(m, q)] = 0]
    <3>1. There(m, p.pid) => There(m, cyc[m].conf.pid)'
      <4>1. \A r \in PidNames \ {q.pid} : There(m, r) => There(m, r)'
        BY <1>1, <2>2, <2>4, WriteOwn
      <4>2. p.pid \in PidNames \ {q.pid} /\ p' = p
        BY <2>1, <2>2 DEF PidNames
      <4> QED
        BY <4>1, <4>2 DEF There
    <3>2. PidKeptOf(m)'
      BY <1>1, <1>2, <2>1, <3>1 DEF PidKeptOf, Moving
    <3> HIDE DEF q
    <3> QED
      BY <1>1, <1>3, <2>1, <2>2, <2>4, <3>2, WriteKeeps
  <2> QED
    BY <1>6, <2>3, <2>4 DEF CreatePidFails
<1>7. CASE StartPid(m)
  <2> DEFINE p == cyc[m].conf
  <2>1. /\ pc[m] = "start" /\ pc'[m] = "rest" /\ moved' = moved
        /\ pidfile' = [pidfile EXCEPT ![PidName(m, p)] = m] /\ cyc' = cyc /\ new' = new
    BY <1>7 DEF StartPid, Goto, Arrays
  <2>2. p \in Confs
    BY <1>1, <2>1, ConfsNamed
  <2>3. There(m, cyc[m].conf.pid)'
    BY <1>1, <2>1, <2>2, WriteOwn DEF There
  <2>4. PidKeptOf(m)'
    BY <2>1, <2>3 DEF PidKeptOf, Moving
  <2> HIDE DEF p
  <2> QED
    BY <1>1, <1>3, <2>1, <2>2, <2>4, WriteKeeps
<1>8. CASE StartPidFails(m) \/ MasterExit(m)
  <2> DEFINE p == cyc[m].conf
  <2>1. /\ pc[m] \in {"start", "rest"} /\ pc'[m] = "exited" /\ moved' = moved
        /\ pidfile' = pidfile \/ pidfile' = [pidfile EXCEPT ![PidName(m, p)] = 0]
    BY <1>8 DEF StartPidFails, MasterExit, Exit, Goto, Arrays
  <2>2. p \in Confs
    BY <1>1, <2>1, ConfsNamed
  <2>3. CASE pidfile' = pidfile
    <3>1. Quiet(m)
      BY <1>1, <2>1, <2>3 DEF Quiet
    <3> QED
      BY <3>1, QuietKeeps
  <2>4. CASE pidfile' = [pidfile EXCEPT ![PidName(m, p)] = 0]
    <3>1. PidKeptOf(m)'
      BY <2>1 DEF PidKeptOf, Alive
    <3> HIDE DEF p
    <3> QED
      BY <1>1, <1>3, <2>1, <2>2, <2>4, <3>1, WriteKeeps
  <2> QED
    BY <2>1, <2>3, <2>4
<1>9. CASE Commit(m)
  <2>1. /\ pc[m] = "commit" /\ cyc'[m].conf = new[m].conf /\ new'[m] = InitCycle
        /\ pidfile' = pidfile
        /\ pc'[m] = IF First(m) THEN "start" ELSE "rest"
        /\ ~First(m) => moved' = IF new[m].conf.pid # cyc[m].conf.pid THEN moved \ {m} ELSE moved
        /\ First(m) => moved' = moved
    BY <1>9 DEF Commit, Goto, Arrays, InitCycle, disk
  <2> SUFFICES ASSUME NEW x \in Masters PROVE PidKeptOf(x)'
    BY DEF PidKept
  <2>2. ASSUME NEW q, There(x, q) PROVE There(x, q)'
    <3>1. /\ Alive(parent[x])' => Alive(parent[x])
          /\ parent'[x] = parent[x] /\ parent[x] \in Masters \cup {0}
      BY <1>1, FrameIs DEF Alive
    <3> QED
      BY <3>1, <2>1, <2>2 DEF There
  <2>3. CASE x # m
    <3>1. pc'[x] = pc[x] /\ cyc'[x] = cyc[x] /\ new'[x] = new[x] /\ (x \in moved' <=> x \in moved)
      BY <1>1, <2>1, <2>3 DEF Frame
    <3>2. PidKeptOf(x) /\ (Exempt(x)' <=> Exempt(x)) /\ (Alive(x)' => Alive(x))
      BY <1>1, FrameIs DEF PidKept
    <3>3. There(x, cyc[x].conf.pid) => There(x, cyc[x].conf.pid)'
      BY <3>1, <2>2 DEF There
    <3>4. There(x, new[x].conf.pid) => There(x, new[x].conf.pid)'
      BY <3>1, <2>2 DEF There
    <3> QED
      BY <3>1, <3>2, <3>3, <3>4 DEF PidKeptOf
  <2>4. CASE x = m /\ First(m)
    BY <2>1, <2>4 DEF PidKeptOf, Moving
  <2>5. CASE x = m /\ ~First(m)
    <3>1. There(m, new[m].conf.pid) => There(m, cyc[m].conf.pid)'
      BY <2>1, <2>2, <2>5 DEF There
    <3>2. ~Exempt(m) /\ m \notin moved' => There(m, new[m].conf.pid)
      BY <1>1, <1>2, <2>1, <2>5 DEF PidKeptOf, First, Moving
    <3> QED
      BY <1>2, <2>1, <2>5, <3>1, <3>2 DEF PidKeptOf, Moving
  <2> QED
    BY <2>3, <2>4, <2>5
<1> QED
  BY <1>4, <1>5, <1>6, <1>7, <1>8, <1>9 DEF PidStep

LEMMA ExecKeeps ==
  ASSUME Arrays, Others, Family, PidKept, NEW m \in Masters, ExecNewBinary(m)
  PROVE  PidKept'
<1>1. PICK x \in Masters :
        /\ pc[x] = "unborn" /\ pc' = [pc EXCEPT ![x] = "parse"]
        /\ parent' = [parent EXCEPT ![x] = m]
        /\ \E ignored \in SUBSET DOMAIN cyc[m].ls :
             cyc' = [cyc EXCEPT ![x] = Inherited(cyc[m], ignored)]
  BY DEF ExecNewBinary, Goto, Inherited, InheritedSocket
<1>2. /\ pc[m] = "rest" /\ ~Alive(parent[m]) /\ pidfile' = pidfile /\ moved' = moved
      /\ \A n \in Masters : parent[n] = m => ~Alive(n)
  BY DEF ExecNewBinary, disk
<1>3. \A y \in Masters : Alive(y)' => y = m \/ y = x
  BY <1>1, <1>2 DEF Alive, Arrays, Family
<1>4. cyc'[x].conf = NoConf
  BY <1>1 DEF Arrays, Inherited, InitCycle
<1>5. /\ m # x /\ pc'[m] = "rest" /\ cyc'[m] = cyc[m] /\ parent'[x] = m /\ parent'[m] = parent[m]
      /\ parent[m] \in Masters \cup {0}
  BY <1>1, <1>2 DEF Arrays, Others
<1>6. ASSUME ~Exempt(m)', cyc[m].conf # NoConf, m \notin moved
      PROVE  There(m, cyc[m].conf.pid)'
  <2>1. parent[m] = 0
    BY <1>5, <1>6 DEF Exempt
  <2>2. ~Exempt(m) /\ Alive(m)
    BY <1>2, <2>1 DEF Exempt, Alive
  <2>3. pidfile[<<cyc[m].conf.pid, FALSE>>] = m
    BY <1>2, <1>6, <2>1, <2>2 DEF PidKept, PidKeptOf, There
  <2>4. pidfile'[<<cyc'[m].conf.pid, FALSE>>] = m /\ parent'[m] = 0
    BY <1>2, <1>5, <2>1, <2>3
  <2>5. ~Alive(parent[m])'
    BY <2>4 DEF Alive, Masters
  <2> QED
    BY <2>4, <2>5 DEF There
<1> QED
  BY <1>2, <1>3, <1>4, <1>5, <1>6 DEF PidKept, PidKeptOf, Moving

LEMMA PidKeeps ==
  ASSUME CycleAssumption, Arrays, Others, AllRight, Family, PidKept, [Next]_vars
  PROVE  PidKept'
<1>1. CASE UNCHANGED <<pc, cyc, new, parent, pidfile, moved>>
  BY ZenonT(40), <1>1 DEF PidKept, PidKeptOf, Exempt, There, Alive
<1>2. ASSUME NEW m \in Masters, Step(m) PROVE PidKept'
  <2>1. CASE ExecNewBinary(m)
    BY <2>1, ExecKeeps
  <2>2. CASE PidStep(m)
    BY <2>2, PidStepKeeps
  <2>3. CASE ~ExecNewBinary(m) /\ ~PidStep(m)
    BY <1>2, <2>3, StepQuiet, QuietKeeps
  <2> QED
    BY <2>1, <2>2, <2>3
<1> QED
  BY <1>1, <1>2, NextIs DEF Rotate, ForeignLeaves, vars, disk

-----------------------------------------------------------------------------
(* The invariant.                                                          *)

LEMMA Parts ==
  /\ TypeOK <=> Arrays /\ Others
  /\ Arrays => (AllRight <=> AllSound)
<1>1. TypeOK <=> Arrays /\ Others
  BY DEF TypeOK, Arrays, Others, Whats
<1>2. Arrays => (AllRight <=> AllSound)
  BY DEF Arrays, AllRight, AllSound, Right, Typed, Alive
<1> QED
  BY <1>1, <1>2

LEMMA InitHolds ==
  ASSUME CycleAssumption, Init
  PROVE  IInv
<1> DEFINE t == [d \in Fds |-> "free"]
<1>1. 1 \in Masters /\ MaxRequests \in Nat /\ MaxFails \in Nat
  BY DEF CycleAssumption, Masters
<1>2. Arrays
  BY InitTyped DEF Init, Arrays, Labels, Whats
<1>3. Others
  BY <1>1 DEF Init, Others
<1>4. \A m \in Masters : Alive(m) => m = 1
  BY DEF Init, Alive
<1>5. AllSound
  <2>1. Sound("parse", InitCycle, InitCycle, t)
    BY DEF Sound, Running, Coming, Staged, Named, SocketsOpen, FilesOpen, SocketsDiffer,
           FilesDiffer, InitCycle, NoConf, Idle, Naming, Preparing, Later
  <2> QED
    BY <2>1, <1>1, <1>4 DEF AllSound, Init
<1>6. Family
  <2>1. ~Alive(0) /\ \A m \in Masters : parent[m] = 0 /\ new[m] = InitCycle
    BY DEF Init, Alive, Masters
  <2> QED
    BY <1>4, <2>1 DEF Family
<1>7. PidKept
  BY <1>4 DEF Init, PidKept, PidKeptOf, InitCycle
<1> QED
  BY <1>2, <1>3, <1>5, <1>6, <1>7, Parts DEF IInv

LEMMA NextHolds ==
  ASSUME CycleAssumption, IInv, [Next]_vars
  PROVE  IInv'
<1>1. Arrays /\ Others /\ AllRight /\ Family /\ PidKept
  BY Parts DEF IInv
<1>2. Arrays' /\ AllRight'
  BY <1>1, StepRight
<1>3. Others' /\ Family' /\ PidKept'
  BY <1>1, OthersKept, FamilyKept, PidKeeps
<1>4. TypeOK'
  BY <1>2, <1>3 DEF TypeOK, Arrays, Others, Whats
<1>5. AllSound'
  BY <1>2 DEF AllRight, AllSound, Right, Alive
<1> QED
  BY <1>3, <1>4, <1>5 DEF IInv

LEMMA IInvHolds ==
  ASSUME CycleAssumption
  PROVE  Spec => []IInv
<1>1. Init => IInv
  BY InitHolds
<1>2. IInv /\ [Next]_vars => IInv'
  BY NextHolds
<1> QED
  BY <1>1, <1>2, PTL DEF Spec

-----------------------------------------------------------------------------
(* What the descriptors of a list are, and how many.                       *)

LEMMA Counted ==
  ASSUME NEW n \in Nat, NEW T, NEW f \in [1 .. n -> T],
         \A j, k \in 1 .. n : f[j] = f[k] => j = k,
         \A d \in T : \E k \in 1 .. n : f[k] = d
  PROVE  IsFiniteSet(T) /\ Cardinality(T) = n
<1> DEFINE S == 1 .. n
<1>1. IsFiniteSet(S) /\ Cardinality(S) = n
  <2>1. 1 \in Int /\ n \in Int
    OBVIOUS
  <2>2. IsFiniteSet(1 .. n) /\ Cardinality(1 .. n) = IF 1 > n THEN 0 ELSE n - 1 + 1
    BY <2>1, FS_Interval
  <2> QED
    BY <2>2
<1> HIDE DEF S
<1>2. f \in [S -> T]
  BY DEF S
<1>3. f \in Injection(S, T) /\ f \in Surjection(S, T)
  BY <1>2 DEF Injection, IsInjective, Surjection, S
<1>4. ExistsBijection(S, T)
  BY <1>3 DEF ExistsBijection, Bijection
<1> QED
  BY <1>1, <1>4, FS_Bijection

LEMMA CountSockets ==
  ASSUME NEW ls, NEW t, SocketsOpen(ls, t), SocketsDiffer(ls), NoFd \notin Fds,
         DOMAIN ls = 1 .. Len(ls), Len(ls) \in Nat
  PROVE  IsFiniteSet(FdsOf(ls)) /\ Cardinality(FdsOf(ls)) = Len(ls)
<1> DEFINE S == 1 .. Len(ls)
           T == FdsOf(ls)
           f == [k \in S |-> ls[k].fd]
<1>1. T = {ls[k].fd : k \in S}
  BY DEF FdsOf, SocketsOpen
<1>2. f \in [S -> T] /\ \A k \in S : f[k] = ls[k].fd
  BY <1>1
<1>3. \A j, k \in S : f[j] = f[k] => j = k
  BY <1>2 DEF SocketsOpen, SocketsDiffer
<1>4. \A d \in T : \E k \in S : f[k] = d
  BY <1>1, <1>2
<1> HIDE DEF f, T
<1>5. IsFiniteSet(T) /\ Cardinality(T) = Len(ls)
  BY <1>2, <1>3, <1>4, Counted
<1> QED
  BY <1>5 DEF T

LEMMA CountFiles ==
  ASSUME NEW fs, NEW t, FilesOpen(fs, t), FilesDiffer(fs), NoFd \notin Fds,
         DOMAIN fs = 1 .. Len(fs), Len(fs) \in Nat
  PROVE  IsFiniteSet(FdsOf(fs)) /\ Cardinality(FdsOf(fs)) = Len(fs)
<1> DEFINE S == 1 .. Len(fs)
           T == FdsOf(fs)
           f == [k \in S |-> fs[k].fd]
<1>1. T = {fs[k].fd : k \in S}
  BY DEF FdsOf, FilesOpen
<1>2. f \in [S -> T] /\ \A k \in S : f[k] = fs[k].fd
  BY <1>1
<1>3. \A j, k \in S : f[j] = f[k] => j = k
  BY <1>2 DEF FilesOpen, FilesDiffer
<1>4. \A d \in T : \E k \in S : f[k] = d
  BY <1>1, <1>2
<1> HIDE DEF f, T
<1>5. IsFiniteSet(T) /\ Cardinality(T) = Len(fs)
  BY <1>2, <1>3, <1>4, Counted
<1> QED
  BY <1>5 DEF T

LEMMA RestIs ==
  ASSUME CycleAssumption, NEW c, NEW t, Right("rest", c, InitCycle, t)
  PROVE  LET named == FdsOf(c.ls) \cup FdsOf(c.files)
         IN  /\ {d \in Fds : t[d] \notin {"free", "lost"}} = named
             /\ Cardinality(named) = Len(c.ls) + Len(c.files)
<1> DEFINE A == FdsOf(c.ls)
           B == FdsOf(c.files)
<1>1. /\ Running("rest", c, t) /\ Named(c, InitCycle, t) /\ c \in CycleType
  BY DEF Right, Sound, Typed
<1>2. /\ SocketsOpen(c.ls, t) /\ SocketsDiffer(c.ls)
      /\ FilesOpen(c.files, t) /\ FilesDiffer(c.files)
  BY <1>1 DEF Running
<1>3. /\ DOMAIN c.ls = 1 .. Len(c.ls) /\ DOMAIN c.files = 1 .. Len(c.files)
      /\ Len(c.ls) \in Nat /\ Len(c.files) \in Nat
      /\ \A k \in DOMAIN c.ls : c.ls[k] \in Sockets
      /\ \A k \in DOMAIN c.files : c.files[k] \in Records
  BY <1>1, FieldsOf
<1>4. \A d \in A : d \in Fds /\ t[d] \in Addrs
  BY <1>2, <1>3 DEF FdsOf, SocketsOpen, Sockets
<1>5. \A d \in B : d \in Fds /\ t[d] \in Files
  BY <1>2, <1>3 DEF FdsOf, FilesOpen, Records
<1>6. \A d \in Fds : t[d] \notin {"free", "lost"} => d \in A \cup B
  BY <1>1 DEF Named, InitCycle, FdsOf
<1>7. IsFiniteSet(A) /\ Cardinality(A) = Len(c.ls)
  BY <1>2, <1>3, Numbers, CountSockets
<1>8. IsFiniteSet(B) /\ Cardinality(B) = Len(c.files)
  BY <1>2, <1>3, Numbers, CountFiles
<1> HIDE DEF A, B
<1>9. {d \in Fds : t[d] \notin {"free", "lost"}} = A \cup B
  BY <1>4, <1>5, <1>6, Numbers
<1>10. A \cap B = {}
  BY <1>4, <1>5, Numbers
<1>11. Cardinality(A \cup B) = Len(c.ls) + Len(c.files)
  <2>1. Cardinality(A \cup B) = Cardinality(A) + Cardinality(B) - Cardinality(A \cap B)
    BY <1>7, <1>8, FS_Union
  <2>2. Cardinality(A \cap B) = 0
    BY <1>10, FS_EmptySet
  <2> QED
    BY <2>1, <2>2, <1>3, <1>7, <1>8
<1> QED
  BY <1>9, <1>11 DEF A, B

-----------------------------------------------------------------------------
(* The theorems.                                                           *)

\* The state keeps the shape that the C declarations give it.
THEOREM TypeCorrect ==
  ASSUME CycleAssumption
  PROVE  Spec => []TypeOK
<1>1. IInv => TypeOK
  BY DEF IInv
<1> QED
  BY <1>1, IInvHolds, PTL

\* Between reloads a master's open descriptors are those that its cycle names,
\* each once, and those that a known error path forgot.
THEOREM DescriptorsConserved ==
  ASSUME CycleAssumption
  PROVE  Spec => []FdsConserved
<1>1. IInv => FdsConserved
  <2> SUFFICES ASSUME IInv PROVE FdsConserved
    OBVIOUS
  <2>1. TypeOK /\ AllRight /\ Arrays
    BY Parts DEF IInv
  <2>2. ASSUME NEW m \in Masters, pc[m] = "rest"
        PROVE  Right("rest", cyc[m], InitCycle, fds[m])
    <3>1. Right("rest", cyc[m], new[m], fds[m])
      BY <2>1, <2>2 DEF AllRight
    <3>2. new[m] = InitCycle
      BY <3>1 DEF Right, Sound, Staged, Idle
    <3> QED
      BY <3>1, <3>2
  <2> QED
    BY <2>1, <2>2, RestIs DEF FdsConserved
<1> QED
  BY <1>1, IInvHolds, PTL

\* A reload, one that fails too, takes no socket, no file and no pid file from
\* a running master.
THEOREM ReloadsAreHarmless ==
  ASSUME CycleAssumption
  PROVE  Spec => []ReloadHarmless
<1>1. IInv => ReloadHarmless
  <2> SUFFICES ASSUME IInv PROVE ReloadHarmless
    OBVIOUS
  <2>1. ServedThroughout
    BY DEF IInv, AllSound, Sound, Running, SocketsOpen, FilesOpen, ServedThroughout
  <2>2. PidFileThere
    <3> SUFFICES ASSUME NEW m \in Masters, pc[m] = "rest", m \notin moved,
                        ~(parent[m] # 0 /\ \E n \in Masters : parent[n] = m)
                 PROVE  \E ext \in BOOLEAN : pidfile[<<cyc[m].conf.pid, ext>>] = m
      BY DEF PidFileThere
    <3>1. Alive(m) /\ ~Exempt(m)
      BY DEF Alive, Exempt
    <3>2. cyc[m].conf # NoConf
      BY <3>1 DEF IInv, AllSound, Sound, Running
    <3> QED
      BY <3>1, <3>2 DEF IInv, PidKept, PidKeptOf, There
  <2> QED
    BY <2>1, <2>2 DEF ReloadHarmless
<1> QED
  BY <1>1, IInvHolds, PTL

=============================================================================
