------------------------------ MODULE HttpParse ------------------------------
(* The head of a request: bytes read into the connection's buffer and, when   *)
(* it is full, into large ones, the parsers that go on where they stopped     *)
(* (ngx_http_parse.c, ngx_http_proxy_parse.c), and the pointers they leave in *)
(* the request. Or the head of the response of a peer, in one buffer.         *)
EXTENDS Integers, Sequences, SequencesExt, FiniteSets, FiniteSetsExt

CONSTANTS Heads,  \* what is sent, part by part: see Line and Whole
          Small,  \* client_header_buffer_size
          Large,  \* the size and the number of large_client_header_buffers
          Num,
          Peers   \* bound: how many peers are asked for one response

HttpParseAssumption == {Small, Large, Num, Peers} \subseteq Nat \ {0, 1}

VARIABLES sent,   \* the head that is sent
          got,    \* how many of its bytes were read
          s       \* the buffers, the parser and what it has found
vars == <<sent, got, s>>

Upper == {"G", "E", "T", "P", "O", "S", "H", "A", "D"}
Letters == Upper \cup {"a", "b", "e", "f", "h", "p", "t"}
Digits == {"0", "1", "2", "5"}
Chars == Letters \cup Digits \cup {"/", ".", "%", "?", ":", "-", " ", "CR", "LF", "NUL"}
Value == [c \in Digits |-> CASE c = "0" -> 0 [] c = "1" -> 1 [] c = "2" -> 2 [] c = "5" -> 5]
Eol == {"CR", "LF"}

-----------------------------------------------------------------------------
(* The parsers: in a state, on one of these characters, go to a state and set *)
(* these pointers to the character. A pair that has no row is an error.       *)

Word(states, word) ==
  { <<states[k], {word[k]}, states[k + 1], {}>> : k \in 1 .. Len(word) }
Version(rows) ==
  Word(<<"http_H", "http_HT", "http_HTT", "http_HTTP", "first_major_digit">>,
       <<"T", "T", "P", "/">>) \cup rows \cup
  { <<"first_major_digit", Digits \ {"0"}, "major_digit", {}>>,
    <<"major_digit", Digits, "major_digit", {}>>,
    <<"major_digit", {"."}, "first_minor_digit", {}>>,
    <<"first_minor_digit", Digits, "minor_digit", {}>>,
    <<"minor_digit", Digits, "minor_digit", {}>> }

\* Mutant: a dot after a slash is an ordinary character.
ComplexPercent == {"%"}
Complex == {".", "%"}
LineRows ==
  { <<"start", Eol, "start", {"request_start"}>>,
    <<"start", Upper, "method", {"request_start"}>>,
    <<"method", {" "}, "spaces_before_uri", {"method_end"}>>,
    <<"method", Upper, "method", {}>>,
    <<"spaces_before_uri", {" "}, "spaces_before_uri", {}>>,
    <<"spaces_before_uri", {"/"}, "after_slash_in_uri", {"uri_start"}>>,
    <<"spaces_before_uri", Letters, "schema", {"schema_start"}>>,
    <<"schema", Letters, "schema", {}>>,
    <<"schema", {":"}, "schema_slash", {"schema_end"}>>,
    <<"schema_slash", {"/"}, "schema_slash_slash", {}>>,
    <<"schema_slash_slash", {"/"}, "host", {"host_start"}>>,
    <<"host", Letters \cup Digits \cup {".", "-"}, "host", {}>>,
    <<"host", {":"}, "port", {"host_end"}>>,
    <<"host", {"/"}, "after_slash_in_uri", {"host_end", "uri_start"}>>,
    <<"port", {"/"}, "after_slash_in_uri", {"port_end", "uri_start"}>>,
    <<"port", Chars \ {"/"}, "port", {}>>,
    <<"after_slash_in_uri", Complex, "uri", {"complex_uri"}>>,
    <<"after_slash_in_uri", {"/"}, "after_slash_in_uri", {"complex_uri"}>>,
    <<"after_slash_in_uri", {"?"}, "uri", {"args_start"}>>,
    <<"after_slash_in_uri", Chars \ (Eol \cup Complex \cup {" ", "/", "?"}), "check_uri", {}>>,
    <<"check_uri", {"."}, "check_uri", {"uri_ext"}>>,
    <<"check_uri", {"/"}, "after_slash_in_uri", {"no_ext"}>>,
    <<"check_uri", {"%"}, "uri", {"complex_uri"}>>,
    <<"check_uri", {"?"}, "uri", {"args_start"}>>,
    <<"check_uri", Chars \ (Eol \cup {" ", ".", "/", "%", "?"}), "check_uri", {}>>,
    <<"uri", Chars \ (Eol \cup {" "}), "uri", {}>>,
    <<"http_09", {" "}, "http_09", {}>>, <<"http_09", {"H"}, "http_H", {}>>,
    <<"http_09", {"CR"}, "almost_done", {"http_09"}>>,
    <<"http_09", {"LF"}, "done", {"http_09"}>>,
    <<"minor_digit", {"CR"}, "almost_done", {}>>, <<"minor_digit", {"LF"}, "done", {}>>,
    <<"almost_done", {"LF"}, "done", {"request_end"}>> }
  \cup UNION { { <<at, {"CR"}, "almost_done", {"uri_end", "http_09"}>>,
                 <<at, {"LF"}, "done", {"uri_end", "http_09"}>>,
                 <<at, {" "}, "http_09", {"uri_end"}>> }
               : at \in {"after_slash_in_uri", "check_uri", "uri"} }

\* The three digits of the status are counted by the state.
StatusRows ==
  { <<"start", {"H"}, "http_H", {}>>, <<"minor_digit", {" "}, "status", {}>>,
    <<"status", Digits, "status_2", {}>>, <<"status_2", Digits, "status_3", {}>>,
    <<"status_3", Digits, "space_after_status", {}>>,
    <<"space_after_status", {" "}, "status_text", {}>>,
    <<"status_text", Chars \ Eol, "status_text", {}>>,
    <<"almost_done", {"LF"}, "done", {}>> }
  \cup UNION { {<<at, {"CR"}, "almost_done", {}>>, <<at, {"LF"}, "done", {}>>}
               : at \in {"space_after_status", "status_text"} }

Name == Letters \cup Digits \cup {"-", "."}
Plain == Chars \ (Eol \cup {" "})
\* Mutant: the value ends at its first space.
SpaceRowsFirst ==
  { <<"value", {" "}, "space_after_value", {"header_end"}>>,
    <<"space_after_value", {" "} \cup Plain, "space_after_value", {}>> }
SpaceRows ==
  { <<"value", {" "}, "space_after_value", {"header_end"}>>,
    <<"space_after_value", {" "}, "space_after_value", {}>>,
    <<"space_after_value", Plain, "value", {}>> }
HeaderRows ==
  { <<"start", {"CR"}, "header_almost_done", {"header_end"}>>,
    <<"start", {"LF"}, "header_done", {"header_end"}>>,
    <<"start", Name, "name", {"header_name_start"}>>,
    <<"name", Name, "name", {}>>, <<"name", {":"}, "space_before_value", {"header_name_end"}>>,
    <<"space_before_value", {" "}, "space_before_value", {}>>,
    <<"space_before_value", {"CR"}, "almost_done", {"header_start", "header_end"}>>,
    <<"space_before_value", {"LF"}, "done", {"header_start", "header_end"}>>,
    <<"space_before_value", Plain, "value", {"header_start"}>>,
    <<"value", Plain, "value", {}>>,
    <<"value", {"CR"}, "almost_done", {"header_end"}>>, <<"value", {"LF"}, "done", {"header_end"}>>,
    <<"space_after_value", {"CR"}, "almost_done", {}>>,
    <<"space_after_value", {"LF"}, "done", {}>>,
    <<"almost_done", {"LF"}, "done", {}>>,
    <<"header_almost_done", {"LF"}, "header_done", {}>> } \cup SpaceRows

Table(rows) ==
  [ state \in {row[1] : row \in rows} |-> [ ch \in Chars |->
      LET match == {row \in rows : row[1] = state /\ ch \in row[2]}
      IN  IF match = {} THEN <<"invalid", {}>>
          ELSE LET row == CHOOSE row \in match : TRUE IN <<row[3], row[4]>> ] ]
Tables == [ line |-> Table(Version(LineRows)),
            status |-> Table(Version(StatusRows)),
            headers |-> Table(HeaderRows) ]

Null == <<0, 0>>
LinePointers == { "request_start", "method_end", "uri_start", "uri_end", "request_end",
                  "schema_start", "schema_end", "host_start", "host_end", "uri_ext", "args_start" }
HeaderPointers == {"header_name_start", "header_name_end", "header_start", "header_end"}
Pointers == LinePointers \cup HeaderPointers \cup {"port_end", "complex_uri", "http_09"}
Shift(f) == IF f \in {"uri_ext", "args_start"} THEN 1 ELSE IF f = "request_end" THEN -1 ELSE 0

\* One character.
Stepped(t) ==
  LET ch == t.mem[t.b][t.pos]
      row == Tables[t.phase][t.state][ch]
      number(of, at) == IF ch \in Digits /\ t.state \in at THEN t[of] * 10 + Value[ch] ELSE t[of]
  IN  [ t EXCEPT !.pos = @ + 1, !.state = row[1], !.failed = t.state,
          !.major = number("major", {"first_major_digit", "major_digit"}),
          !.minor = number("minor", {"first_minor_digit", "minor_digit"}),
          !.status = number("status", {"status", "status_2", "status_3"}),
          !.at = [ f \in Pointers |-> IF f \in row[2] THEN <<t.b, t.pos + Shift(f)>>
                                      ELSE IF f = "uri_ext" /\ "no_ext" \in row[2] THEN Null
                                      ELSE t.at[f] ] ]
Final == {"done", "header_done", "invalid"}
RECURSIVE Parsed(_)
Parsed(t) == IF t.state \in Final \/ t.pos > Len(t.mem[t.b]) THEN t ELSE Parsed(Stepped(t))

-----------------------------------------------------------------------------
(* ngx_http_parse_complex_uri().                                             *)

Hex == Digits \cup {"a", "b", "e", "f", "A", "E"}
Decoded(first, second) ==
  CASE first = "2" /\ second \in {"e", "E"} -> "." [] first = "2" /\ second = "f" -> "/"
    [] first = "2" /\ second = "5" -> "%" [] OTHER -> "h"

\* Mutant: the dots go, the segment stays.
UpNone(u) == SubSeq(u, 1, Len(u) - 2)
\* The two dots, and the segment before them.
Up(u) == SubSeq(u, 1, Max({k \in 1 .. Len(u) - 4 : u[k] = "/"}))

RECURSIVE Walked(_, _)
Walked(q, ch) ==
  LET plain == [q EXCEPT !.state = "usual", !.u = Append(@, ch)] IN
  CASE q.state = "invalid" -> q
    [] q.state \notin {"quoted", "quoted_second", "invalid"} /\ ch = "%" ->
         [q EXCEPT !.quoted = q.state, !.state = "quoted"]
    [] q.state = "usual" /\ ch = "/" ->
         [q EXCEPT !.state = "slash", !.u = Append(@, ch), !.ext = 0]
    [] q.state = "usual" /\ ch = "." -> [plain EXCEPT !.ext = Len(q.u) + 2]
    [] q.state = "slash" /\ ch = "/" -> q
    [] q.state = "slash" /\ ch = "." -> [plain EXCEPT !.state = "dot"]
    [] q.state = "dot" /\ ch = "/" -> [q EXCEPT !.state = "slash", !.u = Front(@)]
    [] q.state = "dot" /\ ch = "." -> [plain EXCEPT !.state = "dot_dot"]
    [] q.state = "dot_dot" /\ ch = "/" ->
         IF Len(q.u) < 4 THEN [q EXCEPT !.state = "invalid"]
         ELSE [q EXCEPT !.state = "slash", !.u = Up(@)]
    [] q.state = "quoted" ->
         IF ch \in Hex THEN [q EXCEPT !.state = "quoted_second", !.first = ch]
         ELSE [q EXCEPT !.state = "invalid"]
    [] q.state = "quoted_second" ->
         LET decoded == Decoded(q.first, ch) IN
         IF ch \notin Hex THEN [q EXCEPT !.state = "invalid"]
         ELSE IF decoded = "%" THEN [plain EXCEPT !.u = Append(q.u, "%")]
         ELSE Walked([q EXCEPT !.state = q.quoted], decoded)
    [] OTHER -> plain
ComplexUri(uri) ==
  FoldLeft(Walked, [state |-> "usual", quoted |-> "usual", first |-> "", u |-> <<>>, ext |-> 0], uri)

-----------------------------------------------------------------------------
(* ngx_http_process_request_line() and ngx_http_process_request_headers().   *)

Size(b) == IF b = 1 /\ sent.kind = "request" THEN Small ELSE Large
Full(t) == t.pos > Size(t.b)
\* The text between two pointers, "others" where that is not what was read.
Spanned(mem, from, to) ==
  IF from[1] = to[1] /\ from[1] > 0 /\ from[2] <= to[2] /\ to[2] <= Len(mem[from[1]]) + 1
  THEN SubSeq(mem[from[1]], from[2], to[2] - 1) ELSE <<"others">>
Between(t, from, to) == Spanned(t.mem, t.at[from], t.at[to])

\* What the parsed line says of the URI is copied.
LineParsed(u) ==
  LET t == IF u.at["request_end"] # Null THEN u ELSE [u EXCEPT !.at["request_end"] = <<u.b, u.pos - 1>>]
      args == t.at["args_start"] # Null
      path == IF args THEN Front(Between(t, "uri_start", "args_start"))
              ELSE Between(t, "uri_start", "uri_end")
      walked == ComplexUri(path)
      method == Between(t, "request_start", "method_end")
      complex == t.at["complex_uri"] # Null
      version == IF t.at["http_09"] # Null THEN 9 ELSE t.major * 1000 + t.minor
      done == [ t EXCEPT
                  !.state = "start",
                  !.mem[t.at["request_end"][1]][t.at["request_end"][2]] = "NUL",
                  !.version = version,
                  !.uri = IF complex THEN walked.u ELSE path,
                  !.args = IF args THEN Between(t, "args_start", "uri_end") ELSE <<>>,
                  !.exten = IF complex
                            THEN IF walked.ext = 0 THEN <<>>
                                 ELSE SubSeq(walked.u, walked.ext, Len(walked.u))
                            ELSE IF t.at["uri_ext"] = Null THEN <<>>
                            ELSE IF args THEN Front(Between(t, "uri_ext", "args_start"))
                            ELSE Between(t, "uri_ext", "uri_end") ]
  IN  IF (version = 9 /\ method # <<"G", "E", "T">>) \/ (complex /\ walked.state = "invalid")
      THEN [t EXCEPT !.outcome = "400"]
      ELSE IF version < 1000 THEN [done EXCEPT !.outcome = "handled"]
      ELSE [done EXCEPT !.phase = "headers"]

\* The key and the value of a header of the client stay where they were read.
HeaderParsed(t) ==
  LET key == t.at["header_name_end"]
      value == t.at["header_end"]
      kept == [ t EXCEPT !.mem[key[1]][key[2]] = "NUL", !.mem[value[1]][value[2]] = "NUL",
                         !.headers = Append(@, [f \in HeaderPointers |-> t.at[f]]) ]
      copy == [ key |-> Between(t, "header_name_start", "header_name_end"),
                value |-> Between(t, "header_start", "header_end") ]
      copied == [t EXCEPT !.copies = Append(@, copy)]
  IN  [IF sent.kind = "request" THEN kept ELSE copied EXCEPT !.state = "start"]

\* Mutant: the extension is not relocated.
RelocatedNoExt(line) == IF line THEN LinePointers \ {"uri_ext"} ELSE HeaderPointers
Relocated(line) == IF line THEN LinePointers ELSE HeaderPointers

\* ngx_http_alloc_large_header_buffer(): a line that was not parsed to its end goes
\* to the new buffer with the pointers to it. The start of a header that was not
\* seen yet is that of the header before; NULL is far from any buffer.
AllocLargeHeaderBuffer(t, line) ==
  LET old == t.at[IF line THEN "request_start" ELSE "header_name_start"]
      refused == [t EXCEPT !.outcome = IF line THEN "414" ELSE "too long header"]
      new == Len(t.mem) + 1
  IN  IF line /\ t.state = "start" THEN [t EXCEPT !.mem[t.b] = <<>>, !.pos = 1]
      ELSE IF t.state # "start" /\ (old[1] # t.b \/ t.pos - old[2] >= Large) THEN refused
      ELSE IF Len(t.mem) > Num THEN refused
      ELSE IF t.state = "start" THEN [t EXCEPT !.mem = Append(@, <<>>), !.b = new, !.pos = 1]
      ELSE [ t EXCEPT !.mem = Append(@, SubSeq(t.mem[t.b], old[2], t.pos - 1)),
               !.b = new, !.pos = t.pos - old[2] + 1,
               !.at = [ f \in Pointers |->
                          IF f \in Relocated(line) /\ t.at[f][1] = t.b /\ t.at[f][2] >= old[2]
                          THEN <<new, t.at[f][2] - old[2] + 1>> ELSE t.at[f] ] ]

\* The handlers parse until the bytes that were read are used up.
RECURSIVE Processed(_)
Processed(t) ==
  LET u == Parsed(t)
      error == CASE u.phase = "line" ->
                      IF u.failed \in {"start", "method"} THEN "501" ELSE "400"
                 [] u.phase = "status" -> "no header"
                 [] u.phase = "headers" -> "400"
  IN  CASE u.state = "invalid" -> [u EXCEPT !.outcome = error]
        [] u.state = "header_done" -> [u EXCEPT !.outcome = "handled"]
        [] u.state = "done" ->
             LET v == CASE u.phase = "line" -> LineParsed(u)
                        [] u.phase = "headers" -> HeaderParsed(u)
                        [] u.phase = "status" ->
                             [u EXCEPT !.phase = "headers", !.state = u.later, !.later = "start",
                                       !.copies = <<>>]
             IN  IF v.outcome = "again" THEN Processed(v) ELSE v
        [] u.phase = "status" -> [u EXCEPT !.outcome = "too long status line"]
        [] Full(u) -> IF sent.kind = "response" THEN [u EXCEPT !.outcome = "too big header"]
                      ELSE AllocLargeHeaderBuffer(u, u.phase = "line")
        [] OTHER -> u

-----------------------------------------------------------------------------
(* What is sent, and the reads.                                              *)

End(h) == IF h.crlf THEN <<"CR", "LF">> ELSE <<"LF">>
\* The characters of a URI, sent as such or escaped.
Text(uri) == FlattenSeq([k \in 1 .. Len(uri) |-> uri[k].sent])
Spaces(n) == [k \in 1 .. n |-> " "]
\* The first line, and with the headers the head.
Line(h) ==
  IF h.kind = "response"
  THEN <<"H", "T", "T", "P", "/">> \o h.version \o <<" ">> \o h.status \o h.text
  ELSE h.method \o Spaces(h.gap) \o h.host \o Text(h.uri)
       \o (IF h.version = <<>> THEN <<>>
           ELSE Spaces(h.gap) \o <<"H", "T", "T", "P", "/">> \o h.version)
Headers(h) ==
  FlattenSeq([ k \in 1 .. Len(h.headers) |->
    h.headers[k].key \o <<":">> \o Spaces(h.headers[k].before) \o h.headers[k].value
    \o Spaces(h.headers[k].after) \o End(h) ])
Whole(h) ==
  h.blank \o Line(h) \o End(h) \o (IF h.version = <<>> THEN <<>> ELSE Headers(h) \o End(h))
Bytes == Whole(sent) \o sent.rest

Init ==
  /\ sent \in Heads /\ got = 0
  /\ s = [ mem |-> <<<<>>>>, b |-> 1, pos |-> 1, outcome |-> "again",
           phase |-> IF sent.kind = "request" THEN "line" ELSE "status",
           state |-> "start", later |-> "start", left |-> {"start"}, peers |-> 1,
           failed |-> "start", at |-> [f \in Pointers |-> Null],
           major |-> 0, minor |-> 0, status |-> 0, version |-> 0,
           uri |-> <<>>, args |-> <<>>, exten |-> <<>>, headers |-> <<>>, copies |-> <<>> ]

\* recv() of up to the rest of the buffer, the handler of the event.
Read ==
  /\ s.outcome = "again" /\ got < Len(Bytes)
  /\ LET most == Min({Size(s.b) - Len(s.mem[s.b]), Len(Bytes) - got}) IN
     \E n \in (IF sent.whole THEN {most} ELSE 1 .. most) :
       /\ got' = got + n
       /\ s' = Processed([s EXCEPT !.mem[s.b] = @ \o SubSeq(Bytes, got + 1, got + n)])
  /\ UNCHANGED sent

\* Mutant: the status of the peer before stays.
ReinitUpstreamOld(t) == [t EXCEPT !.mem = <<<<>>>>, !.pos = 1]
ReinitUpstream(t) == [t EXCEPT !.mem = <<<<>>>>, !.pos = 1, !.status = 0]

\* The peer's time is out, or what it sent is refused: ngx_http_proxy_next_upstream()
\* asks a peer that is not the last one, and ngx_http_proxy_reinit_upstream() empties
\* the buffer. The states of the two parsers, p->parse_state and r->state, stay.
NextUpstream ==
  /\ sent.kind = "response" /\ s.peers < Peers
  /\ s.outcome \in {"again", "too long status line", "too big header"}
  /\ LET status == CASE s.phase = "headers" -> "start"
                      [] s.state \in {"status_2", "status_3"} -> "status"
                      [] OTHER -> s.state
         headers == IF s.phase = "headers" THEN s.state ELSE s.later
     IN  s' = [ ReinitUpstream(s) EXCEPT
                  !.outcome = "again", !.phase = "status", !.state = status, !.later = headers,
                  !.left = {status, headers}, !.peers = @ + 1 ]
  /\ got' = 0
  /\ UNCHANGED sent
Next == Read \/ NextUpstream
Spec == Init /\ [][Next]_vars

-----------------------------------------------------------------------------
(* What the head means, from its parts.                                      *)

\* A question mark after an escape or after a dot that starts a segment is part of
\* the path: the line's parser does not look for it any more.
Opaque(uri, k) == Len(uri[k].sent) > 1 \/ (k > 1 /\ uri[k].sent = <<".">> /\ uri[k - 1].sent = <<"/">>)
Question(uri) ==
  LET marks == {k \in 1 .. Len(uri) : uri[k].sent = <<"?">> /\ \A j \in 1 .. k - 1 : ~Opaque(uri, j)}
  IN  IF marks = {} THEN 0 ELSE Min(marks)
Path(uri) ==
  LET n == IF Question(uri) = 0 THEN Len(uri) ELSE Question(uri) - 1
  IN  [k \in 1 .. n |-> uri[k].means]
Segments(path) ==
  FoldLeft(LAMBDA segs, c : IF c = "/" THEN Append(segs, <<>>)
                            ELSE [segs EXCEPT ![Len(segs)] = Append(@, c)], <<<<>>>>, Tail(path))
\* The directories of the path, and whether it stays below the root.
Directories(path) ==
  FoldLeft(LAMBDA d, seg : CASE seg \in {<<>>, <<".">>} -> d
                             [] seg = <<".", ".">> /\ d.names = <<>> -> [d EXCEPT !.below = FALSE]
                             [] seg = <<".", ".">> -> [d EXCEPT !.names = Front(@)]
                             [] OTHER -> [d EXCEPT !.names = Append(@, seg)],
           [names |-> <<>>, below |-> TRUE], Front(Segments(path)))
Meant(path) ==
  <<"/">> \o FlattenSeq([k \in 1 .. Len(Directories(path).names) |-> Directories(path).names[k] \o <<"/">>])
  \o Last(Segments(path))
\* What follows the last dot of the file's name but the dots it starts with.
Extension(path) ==
  LET name == Last(Segments(path))
      dots == {k \in 1 .. Len(name) : name[k] = "." /\ ~(k <= 3 /\ \A j \in 1 .. k : name[j] = ".")}
  IN  IF dots = {} THEN <<>> ELSE SubSeq(name, Max(dots) + 1, Len(name))
Malformed(h) ==
  h.kind = "request" /\ \/ \E k \in 1 .. Len(Path(h.uri)) : h.uri[k].means = "malformed"
                        \/ ~Directories(Path(h.uri)).below
                        \/ h.version = <<>> /\ h.method # <<"G", "E", "T">>

TypeOK == /\ got \in 0 .. Len(Bytes)
          /\ Len(s.mem) <= Num + 1 /\ s.b \in 1 .. Len(s.mem)
          /\ \A b \in 1 .. Len(s.mem) : Len(s.mem[b]) <= Size(b)
          /\ s.pos \in 1 .. Len(s.mem[s.b]) + 1 /\ s.peers \in 1 .. Peers

Number(digits) == FoldLeft(LAMBDA n, d : n * 10 + Value[d], 0, digits)
VersionOf(h) ==
  IF h.version = <<>> THEN 9 ELSE LET dot == SelectInSeq(h.version, LAMBDA c : c = ".") IN
  Number(SubSeq(h.version, 1, dot - 1)) * 1000 + Number(SubSeq(h.version, dot + 1, Len(h.version)))
KeysAndValues(t) ==
  IF t.copies # <<>> THEN t.copies
  ELSE [ k \in 1 .. Len(t.headers) |->
           LET text(from, to) == Spanned(t.mem, t.headers[k][from], t.headers[k][to])
           IN  [ key |-> text("header_name_start", "header_name_end"),
                 value |-> text("header_start", "header_end") ] ]

\* However the bytes of a head are split into reads, and wherever the lines lie in
\* the buffers: it is handled as soon as it is read, with what its parts mean and
\* none of the bytes after it. The lines, the keys and the values are read where
\* the parsers' pointers say they are, after the last byte was parsed.
Handled ==
  LET path == Path(sent.uri) IN
  s.outcome = "handled" =>
    /\ ~Malformed(sent)
    /\ IsPrefix(SubSeq(s.mem[s.b], s.pos, Len(s.mem[s.b])), sent.rest)
    /\ got = Len(Whole(sent)) + Len(s.mem[s.b]) + 1 - s.pos
    /\ KeysAndValues(s) = [ k \in 1 .. Len(sent.headers) |->
                              [key |-> sent.headers[k].key, value |-> sent.headers[k].value] ]
    /\ sent.kind = "response" => s.status = Number(sent.status)
    /\ sent.kind = "request" =>
         /\ Between(s, "request_start", "request_end") = Line(sent)
         /\ s.version = VersionOf(sent)
         /\ s.uri = Meant(path) /\ s.exten = Extension(path)
         /\ s.args = IF Question(sent.uri) = 0 THEN <<>>
                     ELSE Text(SubSeq(sent.uri, Question(sent.uri) + 1, Len(sent.uri)))
\* A head is refused for what is wrong with it: a request without headers is also
\* refused when the CR of its last line fills the buffer (header_name_start is NULL),
\* and a response whose status line is read in parts, however short it is.
Refused ==
  LET lines == {Len(Line(sent))} \cup {Len(Headers([sent EXCEPT !.headers = <<h>>])) : h \in Range(sent.headers)}
      long == Max(lines) + 2
  IN  CASE s.outcome = "400" -> Malformed(sent)
        [] s.outcome = "501" -> \E k \in 1 .. Len(sent.method) : sent.method[k] \notin Upper
        [] s.outcome = "414" -> Len(Line(sent)) + 2 > Large
        [] s.outcome = "too long header" ->
             \/ sent.headers = <<>> \/ long > Large
             \/ Len(Whole(sent)) > Small + Num * (Large - long)
        [] s.outcome = "no header" -> sent.text # <<>> /\ sent.text[1] # " "
        [] s.outcome = "too big header" -> Len(Whole(sent)) >= Large
        [] s.outcome = "again" -> got < Len(Whole(sent))
        [] OTHER -> TRUE

\* Heads are handled for what they mean and refused for what is wrong with them, those
\* of a later peer too when the peer before it failed between two lines. (After one
\* that failed inside a line they are not: ngx_http_proxy_reinit_upstream() leaves the
\* states of the parsers as they are.)
HeadMeant == s.left = {"start"} => Handled /\ Refused
=============================================================================
