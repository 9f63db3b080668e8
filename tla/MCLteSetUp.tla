----------------------------- MODULE MCLteSetUp -----------------------------
(* Small instances of LteSetUp for TLC.                                    *)
EXTENDS LteSetUp, TLC

\* Client runs are interchangeable: no property names one.
ClientSymmetry == Permutations(Clients)
=============================================================================
