---------------------------- MODULE MCConnection ----------------------------
(* Instances of HttpRequest for TLC; the .cfg file gives the sizes.          *)
EXTENDS HttpRequest

-----------------------------------------------------------------------------
(* What the clients ask for: blank lines before the request, the pieces of   *)
(* its line and of its headers, the bytes of its body, and how it is served. *)

A(blanks, line, headers, body, keepalive, how) ==
  [blanks |-> blanks, line |-> line, headers |-> headers, body |-> body,
   keepalive |-> keepalive, how |-> how]
Times(n, piece) == [i \in 1 .. n |-> piece]
Line(n, piece, end) == Append(Times(n - 1, piece), end)
HeadersOf(q) ==
  IF q.how = "old" THEN <<>>
  ELSE Append(FoldLeft(LAMBDA s, n : s \o Line(n, "h", "H"), <<>>, q.headers), "E")
PartsOf(q) ==
  Times(q.blanks, "n") \o Line(q.line, "l", "L") \o HeadersOf(q) \o Times(q.body, "b")
TokensOf(q, k) == [i \in DOMAIN PartsOf(q) |-> [part |-> PartsOf(q)[i], of |-> k]]
Sends(asks) ==
  [ asks |-> asks,
    stream |-> FoldLeft(LAMBDA s, k : s \o TokensOf(asks[k], k), <<>>, [k \in DOMAIN asks |-> k]) ]

ManyScripts ==
  { Sends(asks) : asks \in
      { <<>>, <<A(1, 2, <<1>>, 0, TRUE, "send"), A(0, 1, <<>>, 0, TRUE, "send")>>,
        <<A(0, 1, <<4, 1>>, 0, TRUE, "deny"), A(0, 2, <<>>, 2, TRUE, "read")>>,
        <<A(0, 1, <<>>, 3, TRUE, "read"), A(0, 1, <<>>, 0, FALSE, "old")>>,
        <<A(0, 1, <<>>, 1, TRUE, "read"), A(0, 1, <<>>, 0, FALSE, "send")>>,
        <<A(0, 1, <<>>, 3, FALSE, "send")>>,
        <<A(0, 1, <<>>, 2, TRUE, "deny"), A(0, 1, <<>>, 0, FALSE, "send")>>,
        <<A(4, 1, <<>>, 1, TRUE, "read")>>,
        <<A(0, 6, <<1>>, 0, TRUE, "bad")>>, <<A(0, 1, <<1>>, 0, TRUE, "bad")>> } }
=============================================================================
