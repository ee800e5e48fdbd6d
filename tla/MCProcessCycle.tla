---------------------------- MODULE MCProcessCycle ----------------------------
(* Instances of ProcessCycle for TLC; the .cfg files give the bounds.        *)
EXTENDS ProcessCycle
===============================================================================
