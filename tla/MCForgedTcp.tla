----------------------------- MODULE MCForgedTcp -----------------------------
(* ForgedTcp with sequence numbers small enough to wrap: the marker takes   *)
(* the last one, and the bytes the client sends exceed Word.                *)
EXTENDS ForgedTcp

Packet(x, v, n) == [tun |-> x, version |-> v, len |-> n]

MCPackets == {Packet("client", 4, 11), Packet("client", 6, 11),
              Packet("proxy", 4, 11)}
=============================================================================
