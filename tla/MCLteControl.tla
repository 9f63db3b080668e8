---------------------------- MODULE MCLteControl ----------------------------
(* Small instances of LteControl for TLC.                                  *)
EXTENDS LteControl, TLC

\* Client runs are interchangeable: no property names one.
ClientSymmetry == Permutations(Clients)
=============================================================================
