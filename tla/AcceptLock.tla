----------------------------- MODULE AcceptLock -----------------------------
(***************************************************************************)
(* What the accept mutex promises to the workers: an exclusive right to    *)
(* call accept(), which only its owner uses and which comes back when the  *)
(* owner is done with it or has died. AcceptMutex.tla implements it.       *)
(***************************************************************************)
CONSTANTS Procs, NoProc
VARIABLES owner,   \* the worker with the right, or NoProc
          inside   \* the workers in the middle of accept()

Init == owner = NoProc /\ inside = {}

Acquire(p) == owner = NoProc /\ owner' = p /\ UNCHANGED inside
Enter(p)   == owner = p /\ inside' = inside \cup {p} /\ UNCHANGED owner
Leave(p)   == p \in inside /\ inside' = inside \ {p} /\ UNCHANGED owner
Release(p) == owner = p /\ p \notin inside /\ owner' = NoProc /\ UNCHANGED inside

Next == \E p \in Procs : Acquire(p) \/ Enter(p) \/ Leave(p) \/ Release(p)

Spec == Init /\ [][Next]_<<owner, inside>>

=============================================================================
