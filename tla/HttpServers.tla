---------------------------- MODULE HttpServers ----------------------------
(* Which server answers a request: the "listen" and "server_name" directives   *)
(* of a configuration, the lists of ports, addresses and names that           *)
(* ngx_http_block() makes of them, the sockets it listens on, and the search   *)
(* by the address of the connection and the Host header of each request.      *)
EXTENDS Integers, Sequences, FiniteSets, SequencesExt, TLC

CONSTANTS InaddrAny, \* INADDR_ANY
          Addresses, \* the addresses of the host
          Hostname,  \* gethostname()
          Superuser, \* getuid() == 0
          Configs,   \* sequences of servers
          Hosts      \* what Host headers name, "none" for a request without one

HttpServersAssumption == InaddrAny \notin Addresses /\ Superuser \in BOOLEAN

VARIABLES conf,      \* the servers of the configuration
          pc, todo,  \* how far ngx_http_block() has come, the listen directives to add
          in_ports,  \* the ports, with the addresses and names of each
          listening, \* the sockets
          r          \* the request of a connection
vars == <<conf, pc, todo, in_ports, listening, r>>

NoPort == -1   \* "listen host"
NotANumber == -2
NoRequest ==
  [ pc |-> "none", addr |-> InaddrAny, port |-> 0, servers |-> <<>>, names |-> <<>>, server |-> 0,
    host |-> "none" ]

Init ==
  /\ conf \in Configs
  /\ pc = "read" /\ todo = <<>> /\ in_ports = <<>> /\ listening = {} /\ r = NoRequest

-----------------------------------------------------------------------------
\* ngx_set_listen(): the port is stored in 16 bits.
Refused(l) ==
  \/ l.port = NotANumber
  \/ l.port # NoPort /\ l.port \notin 1 .. 65536
  \/ l.host \notin Addresses \cup {"none"}
SetListen(l) ==
  [ addr |-> IF l.host = "none" THEN InaddrAny ELSE l.host,
    port |-> IF l.port = NoPort THEN 80 ELSE l.port % 2^16, default |-> FALSE ]

\* ngx_http_core_merge_srv_conf(): the flag of the listen it adds is not set.
Listens(s, garbage) ==
  IF conf[s].listen = <<>>
  THEN <<[addr |-> InaddrAny, port |-> IF Superuser THEN 80 ELSE 8000, default |-> garbage, server |-> s]>>
  ELSE [ k \in 1 .. Len(conf[s].listen) |->
           [server |-> s] @@ SetListen(conf[s].listen[k]) ]
Names(s) == IF conf[s].names = <<>> THEN <<Hostname>> ELSE conf[s].names

Read ==
  /\ pc = "read"
  /\ IF \E s \in 1 .. Len(conf) : \E k \in 1 .. Len(conf[s].listen) : Refused(conf[s].listen[k])
     THEN pc' = "refused" /\ UNCHANGED todo
     ELSE /\ pc' = "listen"
          /\ \E garbage \in [1 .. Len(conf) -> BOOLEAN] :
               todo' = FlattenSeq([s \in 1 .. Len(conf) |-> Listens(s, garbage[s])])
  /\ UNCHANGED <<conf, in_ports, listening, r>>

-----------------------------------------------------------------------------
(* The lists of ngx_http_block().                                            *)

NewAddr(l) == [addr |-> l.addr, default |-> l.default, server |-> l.server, names |-> <<>>]
NamesOf(s) == [n \in 1 .. Len(Names(s)) |-> [name |-> Names(s)[n], server |-> s]]

\* The address is bound already: the names of the server are added to it.
Bound(addrs, a, l) ==
  [ addrs EXCEPT ![a].names = @ \o NamesOf(l.server),
                 ![a].server = IF l.default THEN l.server ELSE @,
                 ![a].default = @ \/ l.default ]
\* "*" has to be the last one: a new address takes its place, with the names that
\* were there.
\* Mutant: the server of "*" is left at that place.
MovedServerLeft(addrs, a, l) ==
  Append([addrs EXCEPT ![a].addr = l.addr], [addrs[a] EXCEPT !.names = <<>>])
Moved(addrs, a, l) ==
  Append([addrs EXCEPT ![a] = [NewAddr(l) EXCEPT !.names = addrs[a].names]],
         [addrs[a] EXCEPT !.names = <<>>])

AddListen ==
  /\ pc = "listen" /\ todo # <<>>
  /\ LET l == Head(todo)
         p == SelectInSeq(in_ports, LAMBDA x : x.port = l.port)
         addrs == in_ports[p].addrs
         a == SelectInSeq(addrs, LAMBDA x : x.addr \in {l.addr, InaddrAny})
     IN  /\ todo' = Tail(todo)
         /\ CASE p = 0 ->
                   in_ports' = Append(in_ports, [port |-> l.port, addrs |-> <<NewAddr(l)>>]) /\ UNCHANGED pc
              [] p # 0 /\ a = 0 ->
                   in_ports' = [in_ports EXCEPT ![p].addrs = Append(@, NewAddr(l))] /\ UNCHANGED pc
              [] p # 0 /\ a # 0 /\ addrs[a].addr # l.addr ->
                   in_ports' = [in_ports EXCEPT ![p].addrs = Moved(@, a, l)] /\ UNCHANGED pc
              [] OTHER ->
                   /\ in_ports' = [in_ports EXCEPT ![p].addrs = Bound(@, a, l)]
                   /\ pc' = IF l.default /\ addrs[a].default THEN "refused" ELSE pc
  /\ UNCHANGED <<conf, listening, r>>

\* Names that all lead to the server of the address are not looked for.
VirtualNames(a) ==
  IF \A n \in 1 .. Len(a.names) : a.names[n].server = a.server THEN <<>> ELSE a.names
\* A binding to "*" serves all addresses of the port, otherwise each has its socket.
Sockets(port, addrs) ==
  IF Last(addrs).addr = InaddrAny THEN {[addr |-> InaddrAny, port |-> port, servers |-> addrs]}
  ELSE {[addr |-> addrs[a].addr, port |-> port, servers |-> <<addrs[a]>>] : a \in 1 .. Len(addrs)}
Bind ==
  /\ pc = "listen" /\ todo = <<>>
  /\ pc' = "running"
  /\ listening' = UNION { Sockets(in_ports[p].port,
                            [ a \in 1 .. Len(in_ports[p].addrs) |->
                                [in_ports[p].addrs[a] EXCEPT !.names = VirtualNames(in_ports[p].addrs[a])] ])
                          : p \in 1 .. Len(in_ports) }
  /\ UNCHANGED <<conf, todo, in_ports, r>>

-----------------------------------------------------------------------------
(* A connection to an address and port of the host, and its requests.        *)

\* ngx_http_init_request(): the search is only made among several addresses.
InitRequest(servers, port, addr) ==
  LET exact == {i \in 1 .. Len(servers) - 1 : servers[i].addr = addr}
      i == IF Len(servers) = 1 THEN 1
           ELSE IF exact # {} THEN CHOOSE k \in exact : \A j \in exact : k <= j ELSE Len(servers)
  IN  [ pc |-> "request", addr |-> addr, port |-> port, servers |-> servers,
        names |-> servers[i].names, server |-> servers[i].server, host |-> "none" ]
Connect ==
  /\ pc = "running" /\ r.pc = "none"
  /\ \E ls \in listening : \E addr \in IF ls.addr = InaddrAny THEN Addresses ELSE {ls.addr} :
       r' = InitRequest(ls.servers, ls.port, addr)
  /\ UNCHANGED <<conf, pc, todo, in_ports, listening>>

\* ngx_http_process_request_header().
Found(names, host) == SelectInSeq(names, LAMBDA n : n.name = host)
ProcessHeader ==
  /\ r.pc = "request"
  /\ \E host \in Hosts :
       LET n == Found(r.names, host) IN
       r' = CASE host = "none" -> [r EXCEPT !.pc = "served"]
              [] host # "none" /\ n # 0 ->
                   [r EXCEPT !.pc = "served", !.host = host, !.server = r.names[n].server]
              [] OTHER -> [ r EXCEPT !.pc = IF conf[r.server].restrict THEN "invalid host" ELSE "served",
                                     !.host = host ]
  /\ UNCHANGED <<conf, pc, todo, in_ports, listening>>
\* The next request of the connection begins with the server of the address again.
\* Mutant: it begins with the one before.
NextServerOld == [r EXCEPT !.pc = "request", !.host = "none"]
NextServer == InitRequest(r.servers, r.port, r.addr)
KeptAlive ==
  /\ r.pc = "served" /\ r' = NextServer
  /\ UNCHANGED <<conf, pc, todo, in_ports, listening>>

Next == Read \/ AddListen \/ Bind \/ Connect \/ ProcessHeader \/ KeptAlive
Spec == Init /\ [][Next]_vars

-----------------------------------------------------------------------------
(* Properties.                                                               *)

TypeOK ==
  /\ pc \in {"read", "listen", "running", "refused"}
  /\ r.pc \in {"none", "request", "served", "invalid host"} /\ r.server \in 0 .. Len(conf)
  /\ \A p \in 1 .. Len(in_ports) :
       /\ \A q \in 1 .. p - 1 : in_ports[p].port # in_ports[q].port
       /\ \A a \in 1 .. Len(in_ports[p].addrs) - 1 : in_ports[p].addrs[a].addr # InaddrAny

\* The configuration says of whom a connection is: the servers that listen on its
\* address, or else on "*", the first of them when no name decides.
Directives == FlattenSeq([s \in 1 .. Len(conf) |-> Listens(s, FALSE)])
ListeningOn(addr, port) ==
  LET on(x) == SelectSeq(Directives, LAMBDA l : l.addr = x /\ l.port = port)
  IN  IF on(addr) # <<>> THEN on(addr) ELSE on(InaddrAny)
Meant(addr, port, host) ==
  LET all == ListeningOn(addr, port)
      named == SelectSeq(all, LAMBDA l : Contains(Names(l.server), host))
  IN  IF host # "none" /\ named # <<>> THEN named[1].server ELSE all[1].server
\* What is not claimed: a name that several servers of an address have, a default that
\* the flag nobody sets has chosen, and an address that is listed first when "*" of its
\* port has names already, those of the servers after the first on it: it takes them.
Distinct(addr, port) ==
  LET all == ListeningOn(addr, port) IN
  \A j, k \in 1 .. Len(all) :
    all[j].server # all[k].server => Range(Names(all[j].server)) \cap Range(Names(all[k].server)) = {}
Unflagged == \A p \in 1 .. Len(in_ports) :
               \A a \in 1 .. Len(in_ports[p].addrs) : ~in_ports[p].addrs[a].default
NoNamesMoved ==
  \A k \in 1 .. Len(Directives) :
    LET before(addr) == {j \in 1 .. k - 1 : Directives[j].port = Directives[k].port /\ Directives[j].addr = addr}
    IN  before(Directives[k].addr) = {} => Cardinality(before(InaddrAny)) <= 1

\* A request goes to the server its address and name mean, the first of its connection
\* and those after it, whatever the order the servers are declared in; and only a server
\* that restricts the names refuses one.
ServerMeant ==
  /\ r.pc = "served" /\ NoNamesMoved /\ Unflagged /\ Distinct(r.addr, r.port) =>
       r.server = Meant(r.addr, r.port, r.host)
  /\ r.pc = "invalid host" => conf[r.server].restrict
=============================================================================
