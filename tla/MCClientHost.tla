---------------------------- MODULE MCClientHost ----------------------------
(***************************************************************************)
(* Instances of ClientHost for TLC.  Two runs are enough for what one      *)
(* leaves behind to meet the next.                                         *)
(***************************************************************************)
EXTENDS ClientHost
=============================================================================
