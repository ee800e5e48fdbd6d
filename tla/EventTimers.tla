----------------------------- MODULE EventTimers -----------------------------
(* The timers of one worker: the events whose timer is set are the nodes of a *)
(* red-black tree (ngx_rbtree.c), which the rounds of the event loop search   *)
(* for the next timer and empty of those that expired, while handlers add and *)
(* delete timers (ngx_event_timer.c, .h).                                     *)
EXTENDS Integers, FiniteSets, FiniteSetsExt

CONSTANTS Events,  \* the events, as positive numbers
          Cases,   \* the timeouts of each event, how long it lasts, how late it is
          Near     \* 100 milliseconds: a timer that near is left as it is

EventTimersAssumption ==
  /\ Events \subseteq Nat \ {0} /\ Near \in Nat \ {0}
  /\ \A c \in Cases : c.timeouts \in [Events -> SUBSET (Nat \ {0})]

VARIABLES case,    \* the case of this behaviour
          tree,    \* ngx_event_timer_rbtree and its nodes
          timers,  \* timer_set of the events
          due,     \* when the timeout that was asked for last ends
          clock,   \* ngx_elapsed_msec, ngx_old_elapsed_msec, and the locals of the round
          at       \* where the round is
vars == <<case, tree, timers, due, clock, at>>

Sentinel == 0
Nodes == Events \cup {Sentinel}
Infinite == -1
MutexDelay == 1        \* ngx_accept_mutex_delay
Other(side) == IF side = "left" THEN "right" ELSE "left"
Side(t, n) == IF n = t.sub["left"][t.parent[n]] THEN "left" ELSE "right"

\* node takes the place of its subtree on the other side, which it goes under.
Rotated(t, node, side) ==
  LET up == t.sub[Other(side)][node]
      inner == t.sub[side][up]
      p == t.parent[node]
      linked == [ t EXCEPT !.sub[Other(side)][node] = inner, !.sub[side][up] = node,
                    !.parent[up] = p, !.parent[node] = up,
                    !.parent[inner] = IF inner = Sentinel THEN @ ELSE node ]
  IN  IF node = t.root THEN [linked EXCEPT !.root = up]
      ELSE [linked EXCEPT !.sub[Side(t, node)][p] = up]

RECURSIVE Place(_, _, _), Balanced(_, _), Repaired(_, _), Lowest(_, _)
\* A key that is there already goes to the right of it.
Place(t, key, at_) ==
  LET side == IF key < t.key[at_] THEN "left" ELSE "right" IN
  IF t.sub[side][at_] = Sentinel THEN <<at_, side>> ELSE Place(t, key, t.sub[side][at_])

\* Two red nodes, one above the other, go up the tree.
Balanced(t, node) ==
  IF node = t.root \/ ~t.red[t.parent[node]] THEN [t EXCEPT !.red[t.root] = FALSE]
  ELSE LET side == Side(t, t.parent[node])
           top == t.parent[t.parent[node]]
           uncle == t.sub[Other(side)][top]
           n == IF node = t.sub[Other(side)][t.parent[node]] THEN t.parent[node] ELSE node
           u == IF n = node THEN t ELSE Rotated(t, n, side)
           p == u.parent[n]
       IN  IF t.red[uncle]
           THEN Balanced([t EXCEPT !.red[t.parent[node]] = FALSE, !.red[uncle] = FALSE,
                                   !.red[top] = TRUE], top)
           ELSE Balanced(Rotated([u EXCEPT !.red[p] = FALSE, !.red[u.parent[p]] = TRUE],
                                 u.parent[p], Other(side)), n)

Inserted(t, node, key) ==
  LET leaf == [t EXCEPT !.key[node] = key, !.sub["left"][node] = Sentinel,
                        !.sub["right"][node] = Sentinel]
  IN  IF t.root = Sentinel
      THEN [leaf EXCEPT !.root = node, !.red[node] = FALSE, !.parent[node] = Sentinel]
      ELSE LET place == Place(t, key, t.root)
           IN  Balanced([leaf EXCEPT !.sub[place[2]][place[1]] = node,
                                     !.parent[node] = place[1], !.red[node] = TRUE], node)

\* The paths through temp have one black node less than the others.
Repaired(t, temp) ==
  IF temp = t.root \/ t.red[temp] THEN [t EXCEPT !.red[temp] = FALSE]
  ELSE LET side == Side(t, temp)
           p == t.parent[temp]
           far == Other(side)
           w0 == t.sub[far][p]
           u == IF t.red[w0]
                THEN Rotated([t EXCEPT !.red[w0] = FALSE, !.red[p] = TRUE], p, side) ELSE t
           w == u.sub[far][p]
           near == u.sub[side][w]
           v == IF u.red[u.sub[far][w]] THEN u
                ELSE Rotated([u EXCEPT !.red[near] = FALSE, !.red[w] = TRUE], w, far)
           x == v.sub[far][p]
           done == Rotated([v EXCEPT !.red[x] = v.red[p], !.red[p] = FALSE,
                                     !.red[v.sub[far][x]] = FALSE], p, side)
       IN  IF ~u.red[near] /\ ~u.red[u.sub[far][w]]
           THEN Repaired([u EXCEPT !.red[w] = TRUE], p)
           ELSE [done EXCEPT !.red[done.root] = FALSE]

Lowest(t, node) ==
  IF t.sub["left"][node] = Sentinel THEN node ELSE Lowest(t, t.sub["left"][node])

\* Mutant: the node that comes up keeps its own color.
ColorOwn(t, node, subst) == t.red[subst]
Color(t, node, subst) == t.red[node]
\* subst takes the place and the color of node.
Substituted(t, node, subst) ==
  LET left == t.sub["left"][node]
      right == t.sub["right"][node]
      p == t.parent[node]
      u == [ t EXCEPT !.sub["left"][subst] = left, !.sub["right"][subst] = right,
               !.parent[subst] = p, !.red[subst] = Color(t, node, subst),
               !.parent[left] = IF left = Sentinel THEN @ ELSE subst,
               !.parent[right] = IF right = Sentinel THEN @ ELSE subst ]
  IN  IF node = t.root THEN [u EXCEPT !.root = subst]
      ELSE [u EXCEPT !.sub[Side(t, node)][p] = subst]

\* A node with two subtrees gives its place to the next one. The parents of the
\* root and of the sentinel are not looked at afterwards.
Deleted(t, node) ==
  LET left == t.sub["left"][node]
      right == t.sub["right"][node]
      subst == IF left = Sentinel \/ right = Sentinel THEN node ELSE Lowest(t, right)
      temp == IF t.sub["left"][subst] = Sentinel THEN t.sub["right"][subst]
              ELSE t.sub["left"][subst]
      cut == [ t EXCEPT !.sub[Side(t, subst)][t.parent[subst]] = temp,
                 !.parent[temp] = IF subst # node /\ t.parent[subst] = node THEN subst
                                  ELSE t.parent[subst] ]
      u == IF subst = node THEN cut ELSE Substituted(cut, node, subst)
      clean(v) == [ v EXCEPT !.key[node] = 0, !.sub["left"][node] = Sentinel,
                      !.sub["right"][node] = Sentinel, !.red[node] = FALSE,
                      !.parent = [n \in Nodes |-> IF n \in {node, Sentinel, v.root}
                                                  THEN Sentinel ELSE @[n]] ]
  IN  IF subst = t.root THEN clean([t EXCEPT !.root = temp, !.red[temp] = FALSE])
      ELSE clean(IF t.red[subst] THEN u ELSE Repaired(u, temp))

-----------------------------------------------------------------------------
(* Setting and deleting a timer, by a handler of a ready event or of a timer. *)

Init ==
  /\ case \in Cases
  /\ tree = [ root |-> Sentinel, key |-> [n \in Nodes |-> 0], red |-> [n \in Nodes |-> FALSE],
              parent |-> [n \in Nodes |-> Sentinel],
              sub |-> [s \in {"left", "right"} |-> [n \in Nodes |-> Sentinel]] ]
  /\ timers = {} /\ due = [e \in Events |-> 0]
  /\ clock = [elapsed |-> 0, old |-> 0, timer |-> Infinite, delta |-> 0,
              expire |-> FALSE, fired |-> Sentinel]
  /\ at = "handlers"

Handling == at \in {"handlers", "expire"}
AddTimer(e, timeout) ==
  LET key == clock.elapsed + timeout
      distance == IF key < tree.key[e] THEN tree.key[e] - key ELSE key - tree.key[e]
  IN  /\ Handling
      /\ due' = [due EXCEPT ![e] = key]
      /\ IF e \in timers /\ distance < Near THEN UNCHANGED tree
         ELSE tree' = Inserted(IF e \in timers THEN Deleted(tree, e) ELSE tree, e, key)
      /\ timers' = timers \cup {e}
      /\ UNCHANGED <<case, clock, at>>
DelTimer(e) ==
  /\ Handling /\ e \in timers
  /\ tree' = Deleted(tree, e) /\ timers' = timers \ {e} /\ due' = [due EXCEPT ![e] = 0]
  /\ UNCHANGED <<case, clock, at>>

-----------------------------------------------------------------------------
(* One round of ngx_epoll_process_events.                                    *)

\* Mutant: the time before the last wait is taken.
FindTimerOld ==
  IF tree.root = Sentinel THEN Infinite
  ELSE Max({0, tree.key[Lowest(tree, tree.root)] - clock.old})
FindTimer ==
  IF tree.root = Sentinel THEN Infinite
  ELSE Max({0, tree.key[Lowest(tree, tree.root)] - clock.elapsed})

\* A timer that has expired is handled before the wait. The wait is shorter when
\* the process does not hold the accept mutex, and the timers are left then.
Find ==
  /\ at = "loop"
  /\ IF FindTimer = 0
     THEN /\ at' = "expire"
          /\ clock' = [clock EXCEPT !.delta = clock.elapsed - clock.old]
     ELSE /\ at' = "wait"
          /\ \E delayed \in {FALSE, FindTimer = Infinite \/ FindTimer > MutexDelay} :
               clock' = [ clock EXCEPT !.old = clock.elapsed,
                            !.timer = IF delayed THEN MutexDelay ELSE FindTimer,
                            !.expire = ~delayed /\ FindTimer # Infinite ]
  /\ UNCHANGED <<case, tree, timers, due>>

\* epoll_wait() returns ready events, or too late, or early with an error, and
\* the clock may have been set back.
Wait ==
  /\ at = "wait"
  /\ \E now \in clock.elapsed - 1 .. clock.elapsed + case.late :
       /\ now \in 0 .. case.until
       /\ clock' = [clock EXCEPT !.elapsed = now, !.timer = Infinite,
                              !.expire = FALSE, !.delta = IF clock.expire THEN now - clock.elapsed ELSE 0]
  /\ at' \in {"handlers", "loop"}
  /\ UNCHANGED <<case, tree, timers, due>>
HandlersDone ==
  /\ at = "handlers"
  /\ at' = IF clock.delta # 0 THEN "expire" ELSE "loop"
  /\ UNCHANGED <<case, tree, timers, due, clock>>

\* The time goes backward for some reason: the difference is 0.
Expired ==
  tree.key[Lowest(tree, tree.root)] <= clock.old + Max({clock.delta, 0})
\* ngx_event_expire_timers(): the handler of the first timer is called.
Expire ==
  /\ at = "expire" /\ tree.root # Sentinel /\ Expired
  /\ LET e == Lowest(tree, tree.root) IN
     /\ tree' = Deleted(tree, e) /\ timers' = timers \ {e}
     /\ clock' = [clock EXCEPT !.fired = e]
  /\ UNCHANGED <<case, due, at>>
ExpireDone ==
  /\ at = "expire" /\ (tree.root = Sentinel \/ ~Expired)
  /\ at' = "loop" /\ clock' = [clock EXCEPT !.fired = Sentinel, !.delta = 0]
  /\ UNCHANGED <<case, tree, timers, due>>

Next == \/ \E e \in Events : DelTimer(e) \/ \E timeout \in case.timeouts[e] : AddTimer(e, timeout)
        \/ Find \/ Wait \/ HandlersDone \/ Expire \/ ExpireDone
Spec == Init /\ [][Next]_vars

-----------------------------------------------------------------------------
(* Properties.                                                               *)

RECURSIVE Under(_), BlackNodes(_)
Under(n) == IF n = Sentinel THEN {} ELSE {n} \cup Under(tree.sub["left"][n])
                                             \cup Under(tree.sub["right"][n])
\* The black nodes of each path down from n; -1: they are not as many.
BlackNodes(n) ==
  IF n = Sentinel THEN 1
  ELSE LET left == BlackNodes(tree.sub["left"][n])
           right == BlackNodes(tree.sub["right"][n])
       IN  IF left # right \/ left = -1 THEN -1 ELSE IF tree.red[n] THEN left ELSE left + 1

TypeOK ==
  /\ case \in Cases /\ timers \subseteq Events /\ due \in [Events -> Nat]
  /\ tree.root \in Nodes /\ tree.key \in [Nodes -> Nat]
  /\ clock.elapsed \in 0 .. case.until /\ clock.fired \in Nodes
  /\ at \in {"loop", "wait", "handlers", "expire"}

\* Whatever was set, deleted, set again and fired, the tree holds the set timers,
\* each linked both ways, in order, balanced by its colors (ngx_rbtree.h:2-8).
TreeKept ==
  /\ Under(tree.root) = timers
  /\ ~tree.red[tree.root] /\ BlackNodes(tree.root) # -1
  /\ \A n \in timers : \A side \in {"left", "right"} :
       LET c == tree.sub[side][n] IN
       c # Sentinel => /\ tree.parent[c] = n /\ ~(tree.red[n] /\ tree.red[c])
                       /\ \A d \in Under(c) : IF side = "left" THEN tree.key[d] <= tree.key[n]
                                               ELSE tree.key[n] <= tree.key[d]
\* A worker never waits past a set timer nor with one that has expired; the time of
\* a timer is less than Near away from what was asked, and none fires that much
\* before, although the first timers of a round are looked for with the time of
\* the round before and the clock may be late or go back.
TimersKept ==
  /\ TreeKept
  /\ \A e \in timers : tree.key[e] - due[e] \in 1 - Near .. Near - 1
  /\ at = "wait" => \A e \in timers :
       /\ tree.key[e] > clock.elapsed
       /\ clock.timer # Infinite /\ clock.elapsed + clock.timer <= tree.key[e]
  /\ clock.fired # Sentinel /\ clock.fired \notin timers
       => due[clock.fired] < Max({clock.elapsed, clock.old}) + Near

=============================================================================
