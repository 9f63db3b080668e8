--------------------------- MODULE MCProxySession ---------------------------
(***************************************************************************)
(* Instances of ProxyHost for TLC.  In two sessions what one leaves meets  *)
(* the next; a third meets what both have left.                            *)
(***************************************************************************)
EXTENDS ProxyHost
=============================================================================
