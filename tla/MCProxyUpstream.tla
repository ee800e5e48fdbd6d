--------------------------- MODULE MCProxyUpstream ---------------------------
(* Instances of ProxyUpstream for TLC; the .cfg files give the bounds.       *)
EXTENDS ProxyUpstream
==============================================================================
