--------------------------- MODULE MCProxyHistory ---------------------------
(* The instances of MCProxy, with the history variables.                   *)
EXTENDS MCProxy, ProxyHistory
=============================================================================
