----------------------------- MODULE MCEventPipe -----------------------------
(* Instances of EventPipe for TLC; the .cfg files give the bounds.           *)
EXTENDS EventPipe
==============================================================================
