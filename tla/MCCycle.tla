------------------------------ MODULE MCCycle -------------------------------
(* Two configurations that share a socket and a log file, for TLC.         *)
EXTENDS Cycle
Both  == [listen |-> <<"a1", "a2">>, files |-> <<"f1", "f2">>, pid |-> "p"]
Other == [listen |-> <<"a2">>, files |-> <<"f2">>, pid |-> "q"]
MCConfs == {Both, Other}
=============================================================================
