-------------------------------- MODULE Imap --------------------------------
(* A POP3 session: the commands of the client until it has given its name and  *)
(* password, the login at the upstream server, and then the bytes that        *)
(* ngx_imap_proxy_handler() relays between the two connections, with edge     *)
(* triggered events. A command word is one unit of a line, and so is each     *)
(* letter of an argument; what is relayed are the numbers 1, 2, ...           *)
EXTENDS Integers, Sequences, FiniteSets, SequencesExt, FiniteSetsExt

CONSTANTS Dialogues,  \* the lines a client sends, each after the answer to the one before
          CommandBuf, \* the size of s->buffer
          ProxyBuf,   \* the size of s->proxy->buffer
          SocketBuf,  \* what a socket takes
          MaxCommands, MaxAnswers \* bounds: the units the client and the server send in the relay

ImapAssumption == {CommandBuf, ProxyBuf, SocketBuf, MaxCommands, MaxAnswers} \subseteq Nat \ {0}

VARIABLES lines, line,  \* what the client sends, and how many lines of it it has sent
          wire,         \* what of them is not read yet
          s,            \* the session
          up,           \* the upstream server
          way, call     \* the two ways of the relay, and the handler that runs
vars == <<lines, line, wire, s, up, way, call>>

Ways == {"to upstream", "to client"}
Size(d) == IF d = "to upstream" THEN CommandBuf ELSE ProxyBuf
Commands == {"USER", "PASS", "QUIT"}
EndsWord == {" ", "CR", "LF"}

NoCall == [way |-> "none", step |-> "none", do_write |-> FALSE, again |-> FALSE]
Init ==
  /\ lines \in Dialogues /\ line = 0
  /\ wire = <<>>
  /\ s = [ pc |-> "auth", state |-> "start", imap_state |-> "start", command |-> "none", args |-> <<>>,
           arg |-> <<>>, buf |-> <<>>, at |-> 0, login |-> <<>>, passwd |-> <<>>, timer |-> TRUE, timedout |-> FALSE ]
  /\ up = [said |-> <<>>, buf |-> <<>>, got |-> <<>>]
  /\ way = [ d \in Ways |-> [ sent |-> 0, wire |-> <<>>, eof |-> FALSE, buf |-> <<>>, off |-> 0,
                              got |-> <<>>, full |-> 0, read |-> TRUE, write |-> TRUE,
                              readable |-> FALSE, writable |-> FALSE ] ]
  /\ call = NoCall

-----------------------------------------------------------------------------
(* ngx_pop3_parse_command(): one character.                                  *)

Invalid(u) == [u EXCEPT !.state = "start", !.rc = "invalid"]
Ended(u, ch) ==
  CASE ch = " " -> [u EXCEPT !.state = "spaces"]
    [] ch = "CR" -> [u EXCEPT !.state = "almost done"]
    [] ch = "LF" -> [u EXCEPT !.state = "start", !.rc = "ok"]
Parsed(u, ch) ==
  LET v == [u EXCEPT !.at = @ + 1] IN
  CASE u.rc # "again" -> u
    [] u.rc = "again" /\ u.state = "start" ->
         IF ch \in EndsWord
         THEN IF u.at = 1 /\ u.buf[1] \in Commands
              THEN Ended([v EXCEPT !.command = u.buf[1]], ch) ELSE Invalid(v)
         ELSE IF ch \in Commands \cup {"WORD"} THEN v ELSE Invalid(v)
    [] u.rc = "again" /\ u.state = "spaces" ->
         IF ch \in EndsWord THEN Ended(v, ch)
         ELSE IF Len(u.args) > 2 THEN Invalid(v)
         ELSE [v EXCEPT !.state = "argument", !.arg = <<ch>>]
    [] u.rc = "again" /\ u.state = "argument" ->
         IF ch \in EndsWord
         THEN Ended([v EXCEPT !.args = Append(@, u.arg), !.arg = <<>>], ch)
         ELSE [v EXCEPT !.arg = Append(@, ch)]
    [] u.rc = "again" /\ u.state = "almost done" ->
         IF ch = "LF" THEN Ended(v, ch) ELSE Invalid(v)

-----------------------------------------------------------------------------
(* The client until it is logged in: ngx_pop3_auth_state().                  *)

Close == s' = [s EXCEPT !.pc = "closed", !.timer = FALSE]
ClientSends ==
  /\ s.pc = "auth" /\ line < Len(lines) /\ wire = <<>> /\ s.buf = <<>>
  /\ line' = line + 1 /\ wire' = lines[line + 1]
  /\ UNCHANGED <<lines, s, up, way, call>>
ClientLeaves ==
  /\ s.pc = "auth" /\ wire = <<>>
  /\ Close
  /\ UNCHANGED <<lines, line, wire, up, way, call>>

\* Mutant: the name is the last word of the line, not its only one.
LoginOfAny(u) == u.command = "USER" /\ u.args # <<>>
LoginOf(u) == u.command = "USER" /\ Len(u.args) = 1
\* The answer; the buffer and the arguments are used again.
Answered(u, answer, imap_state) ==
  /\ s' = [ u EXCEPT !.imap_state = imap_state, !.args = <<>>, !.buf = <<>>, !.at = 0,
                     !.pc = IF answer = "+OK" /\ u.command = "QUIT" THEN "closed" ELSE @ ]
  /\ UNCHANGED up
Proxied(u) ==
  /\ s' = [u EXCEPT !.pc = "greeting", !.imap_state = "start", !.passwd = u.args[1], !.buf = <<>>, !.at = 0]
  /\ UNCHANGED up
Done(u, rc) ==
  CASE rc = "invalid" -> Answered(u, "-ERR", u.imap_state)
    [] rc = "ok" /\ u.command = "QUIT" -> Answered(u, "+OK", u.imap_state)
    [] rc = "ok" /\ u.imap_state = "start" /\ u.command = "USER" ->
         IF LoginOf(u) THEN Answered([u EXCEPT !.login = Last(u.args)], "+OK", "user")
         ELSE Answered(u, "-ERR", "start")
    [] rc = "ok" /\ u.imap_state = "user" /\ u.command = "PASS" ->
         IF Len(u.args) = 1 THEN Proxied(u) ELSE Answered(u, "-ERR", "user")
    [] OTHER -> Answered(u, "-ERR", "start")

\* What came so far is read and parsed; a full buffer reads as an end of file.
AuthState ==
  /\ s.pc = "auth" /\ wire # <<>>
  /\ IF Len(s.buf) = CommandBuf THEN Close /\ UNCHANGED <<wire, up>>
     ELSE \E n \in 1 .. Min({Len(wire), CommandBuf - Len(s.buf)}) :
            LET new == SubSeq(wire, 1, n)
                from == [rc |-> "again", buf |-> s.buf \o new, at |-> s.at, state |-> s.state,
                         command |-> s.command, args |-> s.args, arg |-> s.arg]
                to == FoldLeft(Parsed, from, new)
                u == [ s EXCEPT !.buf = to.buf, !.at = to.at, !.state = to.state, !.command = to.command,
                                !.args = to.args, !.arg = to.arg ]
            IN  /\ wire' = SubSeq(wire, n + 1, Len(wire))
                /\ IF to.rc = "again" THEN s' = u /\ UNCHANGED up ELSE Done(u, to.rc)
  /\ UNCHANGED <<lines, line, way, call>>

\* The timer of the first read is never deleted: the handler that is there when it
\* expires closes the session, but for ngx_imap_proxy_block_read(), which leaves
\* the event marked.
Timer ==
  /\ s.timer /\ s.pc \in {"auth", "greeting", "user", "relay"} /\ call = NoCall
  /\ IF s.pc \in {"auth", "relay"} THEN Close
     ELSE s' = [s EXCEPT !.timer = FALSE, !.timedout = TRUE]
  /\ UNCHANGED <<lines, line, wire, up, way, call>>

-----------------------------------------------------------------------------
(* The login at the upstream server: ngx_imap_proxy_auth_handler().          *)

Replies == {<<"+OK", "CRLF">>, <<"-ERR", "CRLF">>, <<"+OK", "text", "text", "CRLF">>}
\* Its greeting, and its answer to USER.
UpstreamSays ==
  /\ \/ s.pc = "greeting" /\ up.got = <<>> /\ up.buf = <<>> /\ up.said = <<>>
     \/ s.pc = "user" /\ up.buf = <<>> /\ up.said = <<>>
  /\ \E reply \in Replies : up' = [up EXCEPT !.said = reply]
  /\ UNCHANGED <<lines, line, wire, s, way, call>>
UpstreamCloses ==
  /\ s.pc \in {"greeting", "user"} /\ up.said = <<>>
  /\ Close
  /\ UNCHANGED <<lines, line, wire, up, way, call>>

\* Any line is taken for "+OK", and so is what fills the buffer.
ResponseRead(b) == Len(b) > 1 /\ (Last(b) = "CRLF" \/ Len(b) = ProxyBuf)
Line == IF s.pc = "greeting" THEN <<"USER", s.login>> ELSE <<"PASS", s.passwd>>
AuthHandler ==
  /\ s.pc \in {"greeting", "user"} /\ up.said # <<>>
  /\ \E n \in 1 .. Min({Len(up.said), ProxyBuf - Len(up.buf)}) :
       LET b == up.buf \o SubSeq(up.said, 1, n)
           said == SubSeq(up.said, n + 1, Len(up.said))
       IN  IF ~ResponseRead(b) THEN up' = [up EXCEPT !.buf = b, !.said = said] /\ UNCHANGED s
           ELSE \* the connection may be reset: the upstream connection is closed, with
                \* the pool of the session, and the client is left alone
                \/ /\ s' = [s EXCEPT !.pc = "orphaned"]
                   /\ up' = [up EXCEPT !.buf = <<>>, !.said = <<>>]
                \/ /\ up' = [up EXCEPT !.buf = <<>>, !.said = said, !.got = Append(@, Line)]
                   /\ s' = [ s EXCEPT !.imap_state = "user",
                                      !.pc = IF @ = "greeting" THEN "user" ELSE "relay" ]
  /\ UNCHANGED <<lines, line, wire, way, call>>

-----------------------------------------------------------------------------
(* The relay: ngx_imap_proxy_handler().                                      *)

Unused(d) == Size(d) - way[d].off - Len(way[d].buf)
Space(d) == SocketBuf - way[d].full
MaxSaid(d) == IF d = "to upstream" THEN MaxCommands ELSE MaxAnswers
Idle == s.pc = "relay" /\ call = NoCall

\* The upstream server answers PASS, the client goes on when it was answered.
Says(d) ==
  /\ s.pc = "relay" /\ way[d].sent < MaxSaid(d) /\ ~way[d].eof /\ Len(way[d].wire) < SocketBuf
  /\ d = "to upstream" => way["to client"].got # <<>>
  /\ way' = [way EXCEPT ![d].sent = @ + 1, ![d].wire = Append(@, way[d].sent + 1), ![d].readable = TRUE]
  /\ UNCHANGED <<lines, line, wire, s, up, call>>
Leaves(d) ==
  /\ s.pc = "relay" /\ ~way[d].eof
  /\ way' = [way EXCEPT ![d].eof = TRUE, ![d].readable = TRUE]
  /\ UNCHANGED <<lines, line, wire, s, up, call>>
Takes(d) ==
  /\ s.pc = "relay" /\ way[d].full > 0
  /\ way' = [way EXCEPT ![d].full = @ - 1, ![d].writable = @ \/ way[d].full = SocketBuf]
  /\ UNCHANGED <<lines, line, wire, s, up, call>>

\* The client's read event is still marked by a timer that expired in the login:
\* whatever it reports closes the session.
TimedOut(d) == d = "to upstream" /\ s.timedout
TimedOutEvent(d) ==
  /\ Idle /\ way[d].readable /\ TimedOut(d)
  /\ Close
  /\ UNCHANGED <<lines, line, wire, up, way, call>>
ReadEvent(d) ==
  /\ Idle /\ way[d].readable /\ ~TimedOut(d)
  /\ way' = [way EXCEPT ![d].readable = FALSE, ![d].read = TRUE]
  /\ call' = [way |-> d, step |-> "write", do_write |-> FALSE, again |-> FALSE]
  /\ UNCHANGED <<lines, line, wire, s, up>>
WriteEvent(d) ==
  /\ Idle /\ way[d].writable
  /\ way' = [way EXCEPT ![d].writable = FALSE, ![d].write = TRUE]
  /\ call' = [way |-> d, step |-> "write", do_write |-> TRUE, again |-> FALSE]
  /\ UNCHANGED <<lines, line, wire, s, up>>

\* A buffer that was sent whole begins at its start again.
\* Mutant: any buffer does that was sent from.
SentAll(w, n) == [w EXCEPT !.buf = <<>>, !.off = 0]
Sent(w, n) ==
  IF n = Len(w.buf) THEN [w EXCEPT !.buf = <<>>, !.off = 0]
  ELSE [w EXCEPT !.buf = SubSeq(@, n + 1, Len(@)), !.off = @ + n]
WriteStep ==
  /\ call.step = "write"
  /\ LET d == call.way
         size == Len(way[d].buf)
         n == Min({size, Space(d)})
     IN  IF call.do_write /\ size > 0 /\ way[d].write
         THEN /\ way' = [ way EXCEPT ![d] =
                            [ Sent(way[d], n) EXCEPT !.got = @ \o SubSeq(way[d].buf, 1, n),
                                                     !.full = @ + n, !.write = n = size ] ]
              /\ call' = [call EXCEPT !.step = "read", !.again = n > 0]
         ELSE call' = [call EXCEPT !.step = "read", !.again = FALSE] /\ UNCHANGED way
  /\ UNCHANGED <<lines, line, wire, s, up>>
\* An end of file closes the session, also when the buffers are not empty.
\* Mutant: what was read is not written until the next event.
ReadAgain == call
Read == [call EXCEPT !.do_write = TRUE, !.again = TRUE]
Looped(c) == IF c.again THEN [c EXCEPT !.step = "write"] ELSE NoCall
ReadStep ==
  /\ call.step = "read"
  /\ LET d == call.way
         n == Min({Unused(d), Len(way[d].wire)})
     IN  CASE ~(Unused(d) > 0 /\ way[d].read) ->
                call' = Looped(call) /\ UNCHANGED <<way, s>>
           [] Unused(d) > 0 /\ way[d].read /\ n = 0 /\ way[d].eof ->
                Close /\ call' = NoCall /\ UNCHANGED way
           [] Unused(d) > 0 /\ way[d].read /\ n = 0 /\ ~way[d].eof ->
                /\ way' = [way EXCEPT ![d].read = FALSE]
                /\ call' = Looped(call) /\ UNCHANGED s
           [] OTHER ->
                /\ way' = [way EXCEPT ![d].buf = @ \o SubSeq(way[d].wire, 1, n),
                                      ![d].wire = SubSeq(@, n + 1, Len(@))]
                /\ call' = Looped(Read) /\ UNCHANGED s
  /\ UNCHANGED <<lines, line, wire, up>>

Login == ClientSends \/ ClientLeaves \/ AuthState \/ Timer \/ UpstreamSays \/ UpstreamCloses \/ AuthHandler
Relay ==
  \/ \E d \in Ways : Says(d) \/ Leaves(d) \/ Takes(d) \/ TimedOutEvent(d) \/ ReadEvent(d) \/ WriteEvent(d)
  \/ WriteStep \/ ReadStep
Next == Login \/ Relay
Spec == Init /\ [][Next]_vars

-----------------------------------------------------------------------------
(* Properties.                                                               *)

TypeOK ==
  /\ s.pc \in {"auth", "greeting", "user", "relay", "closed", "orphaned"}
  /\ s.state \in {"start", "spaces", "argument", "almost done"} /\ s.imap_state \in {"start", "user"}
  /\ Len(s.buf) <= CommandBuf /\ Len(up.buf) <= ProxyBuf
  /\ \A d \in Ways : Len(way[d].buf) + way[d].off <= Size(d) /\ way[d].full \in 0 .. SocketBuf

\* The word of a line when it is its only argument.
Letters(text) == {k \in 2 .. Len(text) : text[k] \notin EndsWord}
Single(text) == Letters(text) # {} /\ Letters(text) = Min(Letters(text)) .. Max(Letters(text))
Given(command) ==
  LET said == {k \in 1 .. line : lines[k][1] = command /\ Single(lines[k])}
      text == lines[Max(said)]
  IN  SubSeq(text, Min(Letters(text)), Max(Letters(text)))
\* The upstream server is told a name and a password that the client gave in this
\* order, each in a line of its own, however the lines and the answers were cut.
SessionKept ==
  up.got # <<>> => IsPrefix(up.got, <<<<"USER", Given("USER")>>, <<"PASS", Given("PASS")>>>>)

\* What is relayed arrives in order, once, and none of it is lost.
InOrder ==
  \A d \in Ways :
    way[d].got \o way[d].buf \o way[d].wire = [k \in 1 .. way[d].sent |-> k]
\* When no event is to come, nothing is left that the relay could move.
NothingLeft ==
  Idle => \A d \in Ways :
    ~way[d].readable /\ ~way[d].writable =>
      /\ way[d].wire # <<>> => Unused(d) = 0
      /\ way[d].buf # <<>> => Space(d) = 0
\* The relay loses nothing, doubles nothing and forgets nothing, with two buffers that
\* two handlers fill and empty, and a socket that tells of each change once.
Relayed == InOrder /\ NothingLeft
=============================================================================
