---------------------------- MODULE MCAcceptMutex ----------------------------
(* Instances of AcceptMutex for TLC; the .cfg files give the bounds.         *)
EXTENDS AcceptMutex
===============================================================================
