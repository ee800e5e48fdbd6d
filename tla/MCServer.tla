------------------------------ MODULE MCServer ------------------------------
(* The accept mutex with failures, the parsers of a head, the choice of a    *)
(* server, the phases of a request, or the pipe of a proxied response: parts *)
(* of a worker that share no state, checked side by side; part says which    *)
(* one a behaviour is about.                                                 *)
EXTENDS AcceptMutex, HttpCases

VARIABLES part,
          head, got, parser,
          server, rq,
          conf, reading, todo, in_ports, listening, sr,
          pipe, raw, mem, sh, file, uready, dready, client, units, pipe_pc

Hp == INSTANCE HttpParse
        WITH sent <- head, s <- parser, Heads <- ManyHeads, Small <- 20, Large <- 32,
             Num <- 2, Peers <- 2
Ph == INSTANCE HttpPhases WITH r <- rq
Sv == INSTANCE HttpServers
        WITH pc <- reading, r <- sr, InaddrAny <- "*", Addresses <- {"a", "b"}, Hostname <- "h",
             Superuser <- TRUE, Configs <- ManyConfigs,
             Hosts <- {"none", "h", "x", "y", "z", "w"}
Ep == INSTANCE EventPipe
        WITH p <- pipe, got <- units, pc <- pipe_pc, Total <- 8, Size <- 2, Num <- 2,
             HeadRoom <- 1, BusySize <- 2, WriteSize <- 4, MaxFileSize <- 4
ASSUME Hp!HttpParseAssumption
ASSUME Ph!HttpPhasesAssumption
ASSUME Sv!HttpServersAssumption
ASSUME Ep!EventPipeAssumption

hpvars == <<head, got, parser>>
phvars == <<server, rq>>
svvars == <<conf, reading, todo, in_ports, listening, sr>>
epvars == <<pipe, raw, mem, sh, file, uready, dready, client, units, pipe_pc>>

\* The workers stay in their initial state, and the variables of the other parts are
\* empty, when a behaviour is not about them.
ServerInit ==
  /\ part \in {"accept", "parse", "servers", "phases", "pipe"}
  /\ Init
  /\ IF part = "parse" THEN Hp!Init ELSE head = 0 /\ got = 0 /\ parser = 0
  /\ IF part = "servers" THEN Sv!Init
     ELSE conf = 0 /\ reading = 0 /\ todo = 0 /\ in_ports = 0 /\ listening = 0 /\ sr = 0
  /\ IF part = "phases" THEN Ph!Init ELSE server = 0 /\ rq = 0
  /\ IF part = "pipe" THEN Ep!Init
     ELSE /\ pipe = 0 /\ raw = 0 /\ mem = 0 /\ sh = 0 /\ file = 0 /\ uready = 0 /\ dready = 0
          /\ client = 0 /\ units = 0 /\ pipe_pc = "over"
AcceptPart == part = "accept" /\ UNCHANGED <<part, hpvars, phvars, svvars, epvars>>
ParsePart == part = "parse" /\ UNCHANGED <<part, vars, phvars, svvars, epvars>>
PhasesPart == part = "phases" /\ UNCHANGED <<part, vars, hpvars, svvars, epvars>>
PipePart == part = "pipe" /\ UNCHANGED <<part, vars, hpvars, phvars, svvars>>
ServersPart == part = "servers" /\ UNCHANGED <<part, vars, hpvars, phvars, epvars>>
ServerNext == \/ AcceptPart /\ Next
              \/ ParsePart /\ Hp!Next
              \/ ServersPart /\ Sv!Next
              \/ PhasesPart /\ Ph!Next
              \/ PipePart /\ Ep!Next
allvars == <<part, vars, hpvars, phvars, svvars, epvars>>
ServerSpec ==
  /\ ServerInit /\ [][ServerNext]_allvars
  /\ WF_allvars(PipePart /\ (Ep!Reading \/ Ep!Writing \/ Ep!Loop))

\* However it is cut into reads, a head is handled for what it means, or refused.
HeadMeant == part = "parse" => Hp!TypeOK /\ Hp!HeadMeant
\* A request is served by the server that its address and its name select.
ServerMeant == part = "servers" => Sv!TypeOK /\ Sv!ServerMeant
\* After its search and its redirects a request is in the location meant for its URI.
LocationMeant == part = "phases" => Ph!TypeOK /\ Ph!LocationMeant
\* No handler runs in a location that denies the client.
AccessEnforced == part = "phases" => Ph!AccessEnforced
\* The data of a response and the memory it is in stay together, within their sizes.
DataConserved == part = "pipe" => Ep!DataConserved
\* Nothing waits in the pipe for an event that does not come.
NothingStuck == part = "pipe" => Ep!NothingStuck
\* A call of ngx_event_pipe returns.
EveryCallReturns == Ep!EveryCallReturns
=============================================================================
