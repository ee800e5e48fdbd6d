------------------------------ MODULE MCSystem ------------------------------
(* The master process, or one of the parts below that share no state with it *)
(* nor with each other, checked side by side; part says which one a behaviour *)
(* is about.                                                                  *)
EXTENDS ProcessCycle, TLC

VARIABLES part,
          m, econn, t, batch, posted, at, held, ran, ops,
          queue, sigio, sconn, over, sposted, sheld, sat, sops,
          case, tree, timers, due, clock, tat,
          resp, bufs, out, client, room,
          lines, line, wire, session, up, way, call

EventFds == {1, 2}
Em == INSTANCE EventMethods
        WITH conn <- econn, Methods <- {"select", "poll", "devpoll", "kqueue", "epoll"},
             Fds <- EventFds, MaxChanges <- 2, MaxOps <- 3, MaxGens <- 2
Rs == INSTANCE RtSig
        WITH conn <- sconn, posted <- sposted, held <- sheld, at <- sat, ops <- sops,
             Connections <- 3, QueueMax <- 2, OverflowEvents <- 2, OverflowTest <- 2,
             MaxOps <- 2

\* Trees of up to seven timers while the time stands still, then two timers while
\* it goes on.
TimerCases ==
  { [timeouts |-> <<{1}, {2}, {3}, {3}, {4}, {5}, {6}>>, until |-> 0, late |-> 0],
    [timeouts |-> <<{1, 3}, {2}, {}, {}, {}, {}, {}>>, until |-> 5, late |-> 3] }

Ti == INSTANCE EventTimers WITH at <- tat, Events <- 1 .. 7, Cases <- TimerCases, Near <- 2

\* Responses: a header of two bytes and a body in a file, in memory or in both, sent at
\* once or in two chains; a file may be shorter than it was (there).
B(kind, low, high, final) ==
  [ kind |-> kind, data |-> [k \in 1 .. high - low + 1 |-> low + k - 1], size |-> 0,
    last |-> final, recycled |-> FALSE ]
Bodies ==
  LET H == B("memory", 1, 2, FALSE)
      End == B("none", 1, 0, TRUE) IN
  { [bufs |-> <<H, B("file", 3, 7, TRUE)>>, chains |-> <<<<2>>>>],
    [ bufs |-> <<H, B("memory", 3, 3, FALSE), B("file", 4, 6, FALSE), B("memory", 7, 7, FALSE), End>>,
      chains |-> <<<<2, 3>>, <<4, 5>>>> ],
    [ bufs |-> <<H, B("file", 3, 5, FALSE), B("file", 6, 7, FALSE), B("temp", 8, 8, FALSE), End>>,
      chains |-> <<<<2, 3, 4>>, <<5>>>> ] }
L(sendfile, need_in_temp, num, limit_rate, there) ==
  [ sendfile |-> sendfile, need_in_temp |-> need_in_temp, num |-> num, size |-> 2,
    postpone_output |-> 4, limit_rate |-> limit_rate, there |-> there ]
Settings ==
  { L(FALSE, FALSE, 1, 0, 100), L(FALSE, FALSE, 2, 2, 100), L(FALSE, TRUE, 2, 0, 6),
    L(TRUE, TRUE, 1, 3, 6), L(TRUE, FALSE, 1, 2, 100), L(TRUE, FALSE, 1, 0, 6),
    L(TRUE, FALSE, 1, 3, 100), L(FALSE, TRUE, 1, 3, 100) }
ManyResponses == {body @@ settings : body \in Bodies, settings \in Settings}

Oc == INSTANCE OutputChain
        WITH t <- out, Responses <- ManyResponses, Room <- 3, Page <- 2, MaxInterrupts <- 1

\* POP3 sessions with a wrong line before the right ones.
User(name) == <<"USER", " ">> \o name \o <<"CR", "LF">>
Pass(word) == <<"PASS", " ">> \o word \o <<"CR", "LF">>
WrongLines ==
  { <<"WORD", "CR", "LF">>, <<"low", "CR", "LF">>, <<"PASS", " ", "d", "LF">>, <<"PASS", "CR", "LF">>,
    <<"USER", " ", "a", " ", "b", "CR", "LF">>, <<"QUIT", "LF">>,
    <<"USER", " ">> \o [k \in 1 .. 8 |-> "a"] \o <<"LF">> }
ManyDialogues ==
  {<<User(<<"a", "b">>), wrong, User(<<"a", "b">>), Pass(<<"c">>)>> : wrong \in WrongLines}
  \cup { <<User(<<"a", "b">>), <<"PASS", "LF">>, Pass(<<"c">>)>>,
         <<User(<<"a", "b">>), User(<<"a">>), <<"USER", " ", "a", " ", "b", "LF">>, Pass(<<"c">>)>> }

Im == INSTANCE Imap
        WITH s <- session, Dialogues <- ManyDialogues, CommandBuf <- 8, ProxyBuf <- 3,
             SocketBuf <- 2, MaxCommands <- 1, MaxAnswers <- 4

ASSUME Em!EventMethodsAssumption
ASSUME Rs!RtSigAssumption
ASSUME Ti!EventTimersAssumption
ASSUME Oc!OutputChainAssumption
ASSUME Im!ImapAssumption

emvars == <<m, econn, t, batch, posted, at, held, ran, ops>>
rsvars == <<queue, sigio, sconn, over, sposted, sheld, sat, sops>>
tivars == <<case, tree, timers, due, clock, tat>>
ocvars == <<resp, bufs, out, client, room>>
imvars == <<lines, line, wire, session, up, way, call>>

\* The variables of the parts that a behaviour is not about are empty, those of
\* the master stay in their initial state.
SystemInit ==
  /\ part \in {"master", "events", "rtsig", "timers", "output", "pop3"}
  /\ Init
  /\ IF part = "events" THEN Em!Init ELSE m = 0 /\ econn = 0 /\ t = 0 /\ batch = 0 /\ posted = 0 /\ at = 0 /\ held = 0 /\ ran = 0 /\ ops = 0
  /\ IF part = "rtsig" THEN Rs!Init ELSE queue = 0 /\ sigio = 0 /\ sconn = 0 /\ over = 0 /\ sposted = 0 /\ sheld = 0 /\ sat = 0 /\ sops = 0
  /\ IF part = "timers" THEN Ti!Init ELSE case = 0 /\ tree = 0 /\ timers = 0 /\ due = 0 /\ clock = 0 /\ tat = 0
  /\ IF part = "output" THEN Oc!Init ELSE resp = 0 /\ bufs = 0 /\ out = 0 /\ client = 0 /\ room = 0
  /\ IF part = "pop3" THEN Im!Init ELSE lines = 0 /\ line = 0 /\ wire = 0 /\ session = 0 /\ up = 0 /\ way = 0 /\ call = 0
MasterPart == part = "master" /\ UNCHANGED <<part, emvars, rsvars, tivars, ocvars, imvars>>
EventsPart == part = "events" /\ UNCHANGED <<part, vars, rsvars, tivars, ocvars, imvars>>
RtSigPart == part = "rtsig" /\ UNCHANGED <<part, vars, emvars, tivars, ocvars, imvars>>
TimersPart == part = "timers" /\ UNCHANGED <<part, vars, emvars, rsvars, ocvars, imvars>>
OutputPart == part = "output" /\ UNCHANGED <<part, vars, emvars, rsvars, tivars, imvars>>
Pop3Part == part = "pop3" /\ UNCHANGED <<part, vars, emvars, rsvars, tivars, ocvars>>
SystemNext == \/ MasterPart /\ Next
              \/ EventsPart /\ Em!Next
              \/ RtSigPart /\ Rs!Next
              \/ TimersPart /\ Ti!Next
              \/ OutputPart /\ Oc!Next
              \/ Pop3Part /\ Im!Next
allvars == <<part, vars, emvars, rsvars, tivars, ocvars, imvars>>
SystemSpec == SystemInit /\ [][SystemNext]_allvars

\* ngx_add_event and ngx_del_event: the next wait watches what the active bits say.
WatchedAreActive == part = "events" => Em!TypeOK /\ Em!WatchedAreActive
\* An event calls no handler of a connection that was opened after it was reported.
DeliveredToOwner == part = "events" => Em!DeliveredToOwner
\* ngx_rtsig: a change of state is queued, pending or found again after an overflow.
ChangesKept == part = "rtsig" => Rs!TypeOK /\ Rs!ChangesKept
\* No wait is longer than to the first timer of the red-black tree, and none fires early.
TimersKept == part = "timers" => Ti!TypeOK /\ Ti!TimersKept
\* ngx_output_chain and ngx_linux_sendfile_chain: the client gets the bytes in order, once.
ResponseWhole == part = "output" => Oc!TypeOK /\ Oc!ResponseWhole
\* ngx_http_writer: a response that waits, for the socket or a pause, has a timer.
ResponseTimed == part = "output" => Oc!ResponseTimed
\* ngx_imap: the upstream server is told the name and the password that the client said.
SessionKept == part = "pop3" => Im!TypeOK /\ Im!SessionKept
\* ngx_imap_proxy_handler: what is relayed arrives in order and once, and nothing is left
\* that could be moved when no event is to come.
Relayed == part = "pop3" => Im!Relayed
=============================================================================
