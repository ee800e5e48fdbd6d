------------------------------ MODULE HttpCases ------------------------------
(* What the parts of MCServer are run on: the configurations of a server and  *)
(* the URIs of HttpPhases, the heads of HttpParse, the configurations of      *)
(* HttpServers.                                                               *)
EXTENDS Integers, Sequences

-----------------------------------------------------------------------------
\* The letters of URIs are numbers, 1 is the slash; the regular expression of a
\* location matches its name.
Slash == 1
L(name, kind, pages, rules, handler, locations) ==
  [ name |-> name, kind |-> kind,
    auto_redirect |-> handler = "proxy" /\ name[Len(name)] = Slash /\ Len(name) > 1,
    matches |-> IF kind = "regex" THEN {name} ELSE {}, pages |-> pages, rules |-> rules,
    max_body |-> IF handler = "proxy" THEN 1 ELSE -1, handler |-> handler,
    indices |-> <<<<4>>, <<Slash, 4>>>>, locations |-> locations ]
AllButOne == <<[addrs |-> {1}, deny |-> TRUE], [addrs |-> {1, 2}, deny |-> FALSE]>>
Page(status, overwrite, uri) == [status |-> status, overwrite |-> overwrite, uri |-> uri]
Rule(matches, uri, final, status) ==
  [matches |-> matches, uri |-> uri, last |-> final, status |-> status]
Server(pages, rewrites, locations) ==
  [ pages |-> pages, rules |-> <<>>, max_body |-> -1, handler |-> "none",
    indices |-> <<<<4>>>>, locations |-> locations, rewrites |-> rewrites ]
Servers ==
  LET S == Slash IN
  { Server({Page(404, 404, <<S, 3>>)}, <<>>,
      << L(<<S, 2>>, "prefix", {}, <<>>, "none", <<>>), L(<<S>>, "prefix", {}, <<>>, "none", <<>>),
         L(<<S, 2>>, "exact", {}, AllButOne, "none", <<>>),
         L(<<S, 2, 3>>, "regex", {}, AllButOne, "redirect", <<>>) >>),
    Server({Page(403, 200, <<S, 2, S>>), Page(500, 500, <<S, 3, S>>), Page(404, 404, <<S, 2>>)},
      << Rule({<<S, 3, 2>>}, <<S, 2, S>>, FALSE, 0), Rule({<<S, 2, S>>}, <<S, 2, 2>>, TRUE, 0),
         Rule({<<S, 2, 2>>, <<S, 2, 3>>}, <<>>, FALSE, 403) >>,
      << L(<<S, 3, S>>, "prefix", {}, AllButOne, "none",
           << L(<<S, 3, S, 2>>, "prefix", {}, <<>>, "none", <<>>),
              L(<<S, 3, S, 3>>, "prefix", {}, <<>>, "none", <<>>),
              L(<<S, 3, S, 2, 3>>, "regex", {}, <<>>, "none", <<>>) >>),
         L(<<S>>, "prefix", {}, <<>>, "none", <<>>) >>),
    Server({Page(502, 502, <<S, 3>>)}, <<>>,
      << L(<<S, 3>>, "prefix", {}, AllButOne, "none", <<>>),
         L(<<S, 2, S>>, "prefix", {}, <<>>, "proxy", <<>>),
         L(<<S>>, "prefix", {Page(413, 413, <<S, 3, S>>)}, AllButOne, "proxy", <<>>) >>),
    Server({Page(404, 404, <<S, 3>>)}, <<>>,
      << L(<<S, 2>>, "prefix", {}, AllButOne, "none",
           << L(<<S, 2, S>>, "prefix", {}, <<>>, "none", <<>>) >>),
         L(<<S, 3, S>>, "prefix", {}, <<>>, "none", <<>>) >>) }
Uris ==
  LET S == Slash IN
  { <<S>>, <<S, 2>>, <<S, 2, 2>>, <<S, 2, 3>>, <<S, 2, S>>, <<S, 3>>, <<S, 3, S>>,
    <<S, 3, S, 2>>, <<S, 3, S, 2, 3>>, <<S, 3, S, 3>>, <<S, 3, 2>> }

-----------------------------------------------------------------------------
\* Heads: short requests for many URIs, requests that fill the buffers in many ways,
\* and responses.
Char(c) == [sent |-> <<c>>, means |-> c]
Escaped(digit, c) == [sent |-> <<"%", "2", digit>>, means |-> c]
Few == {Char("/"), Char("."), Char("a"), Escaped("e", ".")}
More == Few \cup {Char("?"), Escaped("f", "/"), Escaped("5", "%"), [sent |-> <<"%", "h", "2">>, means |-> "malformed"]}
UriTails == UNION {[1 .. n -> Few] : n \in 0 .. 4} \cup UNION {[1 .. n -> More] : n \in 0 .. 3}
Get == [ kind |-> "request", blank |-> <<>>, method |-> <<"G", "E", "T">>, gap |-> 1, host |-> <<>>,
         uri |-> <<Char("/")>>, version |-> <<>>, headers |-> <<>>, crlf |-> TRUE,
         rest |-> <<>>, whole |-> TRUE, status |-> <<>>, text |-> <<>> ]
Field(key, value, before, after, crlf) ==
  [key |-> key, value |-> value, before |-> before, after |-> after, crlf |-> crlf]
Fields == { Field(<<"a">>, <<"b">>, 1, 0, TRUE), Field(<<"T", "-">>, <<>>, 0, 0, FALSE),
            Field(<<"h">>, <<"e", " ", ":", "e">>, 0, 1, TRUE),
            Field(<<"a">>, [k \in 1 .. 15 |-> "b"], 0, 0, TRUE) }
FieldLists(n) == UNION {[1 .. k -> Fields] : k \in 0 .. n}
LongUri == <<Char("/"), Char("a"), Char("/"), Escaped("e", "."), Char("."), Char("/"), Char("e"), Char("."), Char("p")>>
Ten == <<"1", ".", "0">>
Blanks == [k \in 1 .. 20 |-> IF k % 2 = 1 THEN "CR" ELSE "LF"]
ManyHeads ==
  {[Get EXCEPT !.uri = <<Char("/")>> \o tail, !.crlf = FALSE] : tail \in UriTails}
  \cup {[Get EXCEPT !.method = m] : m \in {<<"G", "e", "t">>, <<"H", "E", "A", "D">>}}
  \cup { [Get EXCEPT !.uri = u, !.version = Ten, !.headers = f, !.gap = IF e THEN 1 ELSE 3, !.crlf = e, !.rest = <<"a", "b">>, !.whole = FALSE] :
         u \in {<<Char("/")>>, <<Char("/"), Char("a"), Char("."), Char("b"), Char("?"), Char("h")>>},
         f \in FieldLists(2), e \in BOOLEAN }
  \cup { [Get EXCEPT !.uri = LongUri, !.version = v, !.gap = g, !.host = <<"h", ":", "/", "/", "a">> \o port, !.whole = FALSE, !.blank = b] :
         v \in {<<>>, Ten}, g \in 1 .. 4, port \in {<<>>, <<":", "5">>}, b \in {<<>>, Blanks} }
  \cup {[Get EXCEPT !.version = Ten, !.headers = [k \in 1 .. n |-> Field(<<"a">>, [j \in 1 .. 15 |-> "b"], 0, 0, TRUE)]] : n \in 3 .. 5}
  \cup { [Get EXCEPT !.kind = "response", !.version = Ten, !.status = <<"2", "0", "5">>, !.text = t, !.headers = f,
           !.rest = <<"a", "b">>, !.whole = Len(f) = 2] :
         t \in {<<>>, <<" ", "O">>, <<"O">>}, f \in FieldLists(2) }

-----------------------------------------------------------------------------
\* Servers on a few addresses and ports, in every order.
At(host, port) == [host |-> host, port |-> port]
Places ==
  { <<>>, <<At("none", 80)>>, <<At("a", 80)>>, <<At("a", -1), At("none", 81)>>,
    <<At("b", 80), At("a", 81)>>, <<At("none", 81)>> }
VirtualServer(listen, names, restrict) == [listen |-> listen, names |-> names, restrict |-> restrict]
ManyConfigs ==
  { << VirtualServer(p[1], <<"x">>, FALSE), VirtualServer(p[2], <<>>, TRUE),
       VirtualServer(p[3], <<"y", "z">>, FALSE) >> : p \in [1 .. 3 -> Places] }
  \cup { << VirtualServer(p[1], <<"x">>, FALSE), VirtualServer(p[2], <<"x", "y">>, FALSE) >> :
         p \in [1 .. 2 -> Places] }
  \cup { <<VirtualServer(<<l>>, <<"x">>, FALSE)>> :
         l \in {At("c", 80), At("b", 65536), At("a", 65537), At("a", -2), At("none", 0)} }
=============================================================================
