----------------------------- MODULE MCVpnTunnel -----------------------------
(* VpnTunnel with packets of one and two bytes over a window of two: a      *)
(* packet may be cut in the middle, and may follow one that waits.          *)
EXTENDS VpnTunnel

Packet(i, n) == [id |-> i, len |-> n]

MCSupply == [client |-> <<Packet(1, 2), Packet(2, 1)>>, proxy |-> <<Packet(3, 1)>>]
=============================================================================
