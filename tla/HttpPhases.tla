----------------------------- MODULE HttpPhases -----------------------------
(* A request walks through the phases (ngx_http_core_module.c): rewriting,   *)
(* the search of its location, access, content. Handlers redirect it inside  *)
(* the server, which starts the walk again with what is left of the first    *)
(* one; an error may be answered by a page that is a request of its own. A   *)
(* URI is a sequence of numbers, Slash among them, in the order of strcmp(). *)
EXTENDS Integers, Sequences, FiniteSets, SequencesExt, FiniteSetsExt

CONSTANTS Servers,  \* the servers: settings, rules of rewriting, locations
          Uris,     \* what clients ask for
          Slash

HttpPhasesAssumption == Slash \in Nat /\ \A u \in Uris : u # <<>> /\ u[1] = Slash

VARIABLES server, r
vars == <<server, r>>

Unset == -1
Ends(uri) == Last(uri) = Slash

-----------------------------------------------------------------------------
(* The configuration: the locations of a server are sorted by name, the      *)
(* regular expressions after them as they were declared; what is not set is  *)
(* inherited.                                                                *)

LessUri(u, v) ==
  \/ IsStrictPrefix(u, v)
  \/ \E k \in 1 .. Len(u) : /\ k <= Len(v) /\ u[k] < v[k]
                            /\ SubSeq(u, 1, k - 1) = SubSeq(v, 1, k - 1)
\* Mutant: the exact location may follow the inclusive one of its name.
CmpByName(a, b) == a.kind # "regex" /\ (b.kind = "regex" \/ LessUri(a.name, b.name))
\* An exact match must be before the same inclusive one.
CmpLocations(a, b) ==
  /\ a.kind # "regex"
  /\ \/ b.kind = "regex" \/ LessUri(a.name, b.name)
     \/ a.name = b.name /\ a.kind = "exact" /\ b.kind # "exact"

Merged(conf, prev) ==
  [ conf EXCEPT !.pages = IF @ = {} THEN prev.pages ELSE @,
                !.rules = IF @ = <<>> THEN prev.rules ELSE @,
                !.max_body = IF @ = Unset THEN prev.max_body ELSE @ ]
RECURSIVE MergeLocations(_, _)
MergeLocations(locations, prev) ==
  [k \in DOMAIN locations |->
     LET l == Merged(locations[k], prev)
     IN  [l EXCEPT !.locations = MergeLocations(@, l)]]

Configured(s) ==
  LET top == Merged(s, [pages |-> {}, rules |-> <<>>, max_body |-> 0])
      sorted == SortSeq(s.locations, CmpLocations)
  IN  [top EXCEPT !.locations = MergeLocations(sorted, top)]

-----------------------------------------------------------------------------
(* ngx_http_find_location: one pass over the list, which stops at the first   *)
(* regular expression, or at a name that is past the URI.                     *)

\* An automatic redirect is for the URI without the last slash of the name.
Redirects(uri, l) == l.auto_redirect /\ uri = Front(l.name)
Exact(uri, l) == l.kind = "exact" /\ uri = l.name
StopsAt(uri, l) ==
  \/ l.kind = "regex" \/ Redirects(uri, l)
  \/ /\ Len(uri) >= Len(l.name)
     /\ LessUri(SubSeq(uri, 1, Len(l.name)), l.name) \/ Exact(uri, l)

RECURSIVE FindLocation(_, _, _)
FindLocation(uri, locations, prev) ==
  LET found(rc, l) == [rc |-> rc, loc |-> l]
      stops == {k \in DOMAIN locations : StopsAt(uri, locations[k])}
      i == IF stops = {} THEN Len(locations) + 1 ELSE Min(stops)
      prefixes == {k \in 1 .. i - 1 : IsPrefix(locations[k].name, uri)}
      inner == IF prefixes = {} THEN found("ok", prev)
               ELSE LET l == locations[Max(prefixes)] IN FindLocation(uri, l.locations, l)
      matches == {k \in i .. Len(locations) :
                    locations[k].kind = "regex" /\ uri \in locations[k].matches}
  IN  IF i <= Len(locations) /\ Redirects(uri, locations[i])
      THEN found("redirect", locations[i])
      ELSE IF i <= Len(locations) /\ Exact(uri, locations[i])
      THEN found("exact", locations[i])
      ELSE IF inner.rc # "ok" \/ matches = {} THEN inner
      ELSE found("regex", locations[Min(matches)])

-----------------------------------------------------------------------------
(* The request.                                                              *)

\* ngx_http_handler() decides about keepalive, each time it is called.
Handled(q) == [q EXCEPT !.phase = "rewrite", !.keepalive = TRUE, !.index = 1,
                        !.tested = FALSE]
Init ==
  /\ \E s \in Servers : server = Configured(s)
  /\ \E uri \in Uris, get \in BOOLEAN, body \in {0, 2}, client \in {1, 2} :
       r = Handled([ uri |-> uri, get |-> get, body |-> body, client |-> client,
                     phase |-> "rewrite", keepalive |-> TRUE, index |-> 1, tested |-> FALSE,
                     loc |-> server, content |-> "none", err |-> 0, redirects |-> 0,
                     answer |-> 0, by |-> "none" ])

\* Mutant: a redirected request is not checked again.
InternalRedirectContent(q, uri) ==
  [Handled([q EXCEPT !.uri = uri, !.redirects = @ + 1]) EXCEPT
     !.phase = "content", !.loc = FindLocation(uri, server.locations, server).loc]
\* The contexts of the modules are cleared; the location and its handler stay.
InternalRedirect(q, uri) == Handled([q EXCEPT !.uri = uri, !.redirects = @ + 1])

\* ngx_http_send_header() takes the status of the error that has a page.
Answered(q, status, by) ==
  [q EXCEPT !.answer = IF q.err # 0 THEN q.err ELSE status, !.phase = "done", !.by = by]
\* There is no page for an error of an error page.
Pages(q, error) == {p \in q.loc.pages : p.status = error /\ q.err = 0}
SpecialResponse(q, error) ==
  LET closed == [q EXCEPT !.keepalive = @ /\ error \notin {400, 413, 500}]
  IN  IF Pages(q, error) = {} THEN Answered(closed, error, "special")
      ELSE LET p == CHOOSE p \in Pages(q, error) : TRUE
           IN  InternalRedirect([closed EXCEPT !.err = p.overwrite], p.uri)
Finalized(q, rc, by) ==
  IF rc >= 300 THEN SpecialResponse(q, rc) ELSE Answered(q, rc, by)

\* Every rule sees what the one before it made of the URI.
RewriteHandler ==
  /\ r.phase = "rewrite"
  /\ LET applied(q, rule) ==
           IF q.phase # "rewrite" \/ q.uri \notin rule.matches THEN q
           ELSE IF rule.status # 0 THEN Finalized(q, rule.status, "rewrite")
           ELSE [q EXCEPT !.uri = rule.uri, !.phase = IF rule.last THEN "find" ELSE @]
         q == FoldLeft(applied, r, server.rewrites)
     IN  r' = IF q.phase = "rewrite" /\ q.redirects = r.redirects
              THEN [q EXCEPT !.phase = "find"] ELSE q
  /\ UNCHANGED server

\* Mutant: the search goes on in the location of the URI before.
FoundInLocation(q) == FindLocation(q.uri, q.loc.locations, q.loc)
\* Nothing found leaves the location that the request had.
Found(q) == FindLocation(q.uri, server.locations, q.loc)
FindLocationConfig ==
  /\ r.phase = "find"
  /\ LET f == Found(r)
         q == [r EXCEPT !.loc = f.loc]
     IN  r' = IF r.body # 0 /\ f.loc.max_body # 0 /\ f.loc.max_body < r.body
              THEN Finalized(q, 413, "core")
              ELSE IF f.rc = "redirect" THEN Finalized(q, 301, "core")
              ELSE [ q EXCEPT !.phase = "access",
                       !.content = IF f.loc.handler = "none" THEN @ ELSE f.loc.handler ]
  /\ UNCHANGED server

\* The first rule about the address of the client decides.
Denied(loc, client) ==
  LET about == {k \in DOMAIN loc.rules : client \in loc.rules[k].addrs}
  IN  about # {} /\ loc.rules[Min(about)].deny
AccessHandler ==
  /\ r.phase = "access"
  /\ r' = IF Denied(r.loc, r.client) THEN Finalized(r, 403, "access")
          ELSE [r EXCEPT !.phase = "content"]
  /\ UNCHANGED server

-----------------------------------------------------------------------------
(* The content phase: the handler of the location, or all the others: index  *)
(* and static; open() and stat() may answer anything.                        *)

RedirectHandler ==
  /\ r.phase = "content" /\ r.content = "redirect"
  /\ r' = Finalized(r, 302, "redirect") /\ UNCHANGED server
ProxyHandler ==
  /\ r.phase = "content" /\ r.content = "proxy"
  /\ r' = [r EXCEPT !.phase = "proxy"] /\ UNCHANGED server
ProxyDone ==
  /\ r.phase = "proxy"
  /\ \E rc \in {200, 404, 502, 504} : r' = Finalized(r, rc, "proxy")
  /\ UNCHANGED server

Indexes == r.phase = "content" /\ r.content = "none" /\ Ends(r.uri)
\* The directory is tested after the first file that is not there.
IndexNotFound ==
  /\ Indexes /\ r.index <= Len(r.loc.indices)
  /\ \/ r' = [r EXCEPT !.index = @ + 1, !.tested = TRUE]
     \/ ~r.tested /\ \E rc \in {404, 500} : r' = Finalized(r, rc, "index")
     \/ \E rc \in {403, 404, 500} : r' = Finalized(r, rc, "index")
  /\ UNCHANGED server
IndexFound ==
  /\ Indexes /\ r.index <= Len(r.loc.indices)
  /\ LET name == r.loc.indices[r.index] IN
     r' = InternalRedirect(r, IF name[1] = Slash THEN name ELSE r.uri \o name)
  /\ UNCHANGED server
\* "directory index is forbidden"
NoIndex ==
  /\ Indexes /\ r.index > Len(r.loc.indices)
  /\ r' = Finalized(r, 403, "core") /\ UNCHANGED server

\* What is there: nothing that can be opened; or a directory, which is redirected
\* to with a slash, something that is not a file, or a file.
NotOpened == {403, 404, 500}
Opened == {301, 404, 200}
StaticHandler ==
  /\ r.phase = "content" /\ r.content = "none" /\ ~Ends(r.uri)
  /\ IF ~r.get THEN r' = Finalized(r, 405, "static")
     ELSE \E rc \in NotOpened \cup Opened : r' = Finalized(r, rc, "static")
  /\ UNCHANGED server

Next ==
  \/ RewriteHandler \/ FindLocationConfig \/ AccessHandler \/ RedirectHandler
  \/ ProxyHandler \/ ProxyDone \/ IndexNotFound \/ IndexFound \/ NoIndex \/ StaticHandler
Spec == Init /\ [][Next]_vars

-----------------------------------------------------------------------------
(* Properties.                                                               *)

\* A request is redirected at most three times: to an index, to the page of an
\* error, and to the index of this page, unless a rule rewrites into a directory.
TypeOK ==
  /\ r.phase \in {"rewrite", "find", "access", "content", "proxy", "done"}
  /\ r.content \in {"none", "redirect", "proxy"} /\ r.err \in Nat
  /\ r.keepalive \in BOOLEAN /\ r.index \in 1 .. Len(r.loc.indices) + 1
  /\ (r.phase = "done") = (r.answer # 0) /\ r.redirects \in 0 .. 3

\* What the order of the list and the end of the pass stand for: the exact name,
\* else the first regular expression of the innermost list that has one for the
\* URI, else the longest name it begins with.
RECURSIVE Meant(_, _, _)
Meant(uri, locations, prev) ==
  LET all == ToSet(locations)
      equal == {l \in all : Exact(uri, l) \/ Redirects(uri, l)}
      prefixes == {l \in all : l.kind = "prefix" /\ IsPrefix(l.name, uri)}
      regexes == SelectSeq(locations, LAMBDA l : l.kind = "regex" /\ uri \in l.matches)
      longest == CHOOSE l \in prefixes : \A k \in prefixes : Len(k.name) <= Len(l.name)
      inner == IF prefixes = {} THEN [final |-> FALSE, loc |-> prev]
               ELSE Meant(uri, longest.locations, longest)
  IN  IF equal # {} THEN [final |-> TRUE, loc |-> CHOOSE l \in equal : TRUE]
      ELSE IF inner.final \/ regexes = <<>> THEN inner
      ELSE [final |-> TRUE, loc |-> Head(regexes)]

\* After the search, in the first walk and in those after redirects, a request is
\* in the location meant for its URI; only a request that was redirected, to a URI
\* that no location is for, is in the one before (ngx_http_internal_redirect,
\* ngx_http_find_location).
LocationMeant ==
  LET loc == Meant(r.uri, server.locations, server).loc IN
  r.phase \in {"access", "content", "proxy"} =>
    \/ r.loc = loc
    \/ loc = server /\ r.redirects > 0
\* A handler never answers a client that the rules of the location deny, whatever
\* redirect, index or error page brought the request there.
AccessEnforced ==
  r.phase = "proxy" \/ r.by \in {"redirect", "index", "static", "proxy"}
    => ~Denied(r.loc, r.client)
=============================================================================
