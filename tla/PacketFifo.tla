----------------------------- MODULE PacketFifo -----------------------------
(***************************************************************************)
(* What a tunnel promises of one direction: the packets come out whole, in *)
(* the order they went in, none twice and none that did not go in.  It may *)
(* end with packets still inside.                                          *)
(***************************************************************************)
EXTENDS Sequences, Naturals

CONSTANT Packets

VARIABLES in,  \* the packets that have gone in
          out  \* those that have come out

vars == <<in, out>>

Init == in = <<>> /\ out = <<>>

Put(p) == /\ in' = Append(in, p)
          /\ UNCHANGED out

Get == /\ Len(out) < Len(in)
       /\ out' = Append(out, in[Len(out) + 1])
       /\ UNCHANGED in

Next == Get \/ \E p \in Packets : Put(p)

Spec == Init /\ [][Next]_vars
=============================================================================
