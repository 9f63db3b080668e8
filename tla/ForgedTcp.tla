------------------------------ MODULE ForgedTcp ------------------------------
(***************************************************************************)
(* The TCP connection that client and proxy keep for show, and the         *)
(* segments they forge beside it.  Both sides learn the connection's       *)
(* sequence numbers from one marker byte, put forged segments with those   *)
(* numbers on the network, and take the other side's out of it again in    *)
(* the callbacks of their NFQUEUE rules, so that no kernel sees them; of   *)
(* the kernels' own segments only the keepalive's still pass.              *)
(*                                                                         *)
(* The kernels are external: sequence numbers, the answer to a segment     *)
(* that is not the next one, keepalive.  When the sides move on is taken   *)
(* from the control protocol: they open what they open in the order of     *)
(* SetUpOrder, which the pairings of LteControl keep (LteSetUp).           *)
(***************************************************************************)
EXTENDS Integers, FiniteSets

CONSTANTS Word,      \* sequence numbers are modulo Word: 2^32
          Starts,    \* the sequence numbers the kernels may begin with
          Header,    \* HB_IPV4_H_SIZE
          MTU,       \* TUN_MTU
          Packets,   \* the packets that a tun device may hand out
          InFlight   \* bound: the segments on the network; one more pushes
                     \* another off it

Sides == {"client", "proxy"}

ASSUME WordAssumption    == Word \in Nat /\ Word > 1
ASSUME StartsAssumption  == Starts \subseteq 0 .. Word - 1
ASSUME LengthsAssumption == Header \in Nat /\ MTU \in Nat /\ 1 < Header /\ MTU < Word
ASSUME BoundsAssumption  == InFlight \in Nat \ {0}
ASSUME PacketsAssumption ==
  Packets \subseteq [tun : Sides, version : {4, 6}, len : Nat \ {0}]

VARIABLES phase,    \* how far each side's main is with its rules and queues
          opened,   \* the queues and data planes that have been opened, ever
          tcp,      \* the kernels' ends of the connection
          base,     \* FakeBase, and with it ControlAckState, of each side
          sent,     \* real_bytes_sent of each side
          wire,     \* the segments on their way
          outq,     \* segments held in the client's learning queue
          taken,    \* the packets read from each side's tun device
          written   \* the packets written to it

vars == <<phase, opened, tcp, base, sent, wire, outq, taken, written>>

Peer(x) == IF x = "client" THEN "proxy" ELSE "client"

\* The connection is that of one pairing.
Order == INSTANCE SetUpOrder WITH Pairings <- {1}, opened <- <<opened>>

Plus(n, k) == (n + k) % Word
Before(n)  == (n - 1) % Word
-----------------------------------------------------------------------------
(***************************************************************************)
(* Segments.  A payload is what its first byte says and how long it is:    *)
(* the marker reads as the beginning of a packet of version 4.             *)
(***************************************************************************)
Nothing == [tun |-> "none", version |-> 0, len |-> 0]
Marker  == [tun |-> "none", version |-> 4, len |-> 1]

Payloads == {Nothing, Marker} \cup Packets

Segments == [from : Sides, seq : 0 .. Word - 1, ack : 0 .. Word - 1,
             flags : {"ack", "psh", "fin"}, body : Payloads]

Segment(x, s, a, f, b) == [from |-> x, seq |-> s, ack |-> a, flags |-> f, body |-> b]

\* The sequence numbers that a segment takes up.
Extent(m) == IF m.flags = "fin" THEN 1 ELSE m.body.len

Probe(x)  == Segment(x, Before(tcp[x].nxt), tcp[x].rcv, "ack", Nothing)
Resent    == Segment("client", tcp["client"].una, tcp["client"].rcv, "psh", Marker)
Fin(x)    == Segment(x, tcp[x].nxt, tcp[x].rcv, "fin", Nothing)
-----------------------------------------------------------------------------
(***************************************************************************)
(* State.  A phase tells which rule there is and whether a queue reads it: *)
(*   learnRule  the learning rule, no queue yet                            *)
(*   learnQueue its queue, and at the client the marker written            *)
(*   learned    the marker seen; the queue is not read any more            *)
(*   unhooked   no rule                                                    *)
(*   tunnelRule the tunnel rule, no queue yet                              *)
(*   tunnelQueue, plane   its queue; data_plane_ready                      *)
(*   stalled    the tunnel rule, and the threads gone                      *)
(*   closing    the cleanup: no rule                                       *)
(*   down       the socket closed                                          *)
(* The client's learning rule takes what its host sends, the others take   *)
(* what comes in.                                                          *)
(***************************************************************************)
Phases == {"start", "learnRule", "learnQueue", "learned", "unhooked",
           "tunnelRule", "tunnelQueue", "plane", "stalled", "closing", "down"}

Tunnelled == {"tunnelRule", "tunnelQueue", "plane", "stalled"}

\* The segments that reach x meet a rule.
Hooked(x) == \/ phase[x] \in Tunnelled
             \/ x = "proxy" /\ phase[x] \in {"learnRule", "learnQueue", "learned"}

\* Every variable has a value of its type.
TypeOK ==
  /\ phase \in [Sides -> Phases]
  /\ opened \subseteq Sides \X {"learn", "tunnel", "plane"}
  /\ tcp \in [Sides -> [nxt : 0 .. Word - 1, una : 0 .. Word - 1,
                        rcv : 0 .. Word - 1, probe : BOOLEAN]]
  /\ base \in [Sides -> [learned : BOOLEAN, seq : 0 .. Word - 1, ack : 0 .. Word - 1]]
  /\ sent \in [Sides -> Nat]
  /\ wire \subseteq Segments
  /\ outq \subseteq Segments
  /\ taken \in [Sides -> SUBSET Packets]
  /\ written \in [Sides -> SUBSET Payloads]

Init ==
  /\ phase = [x \in Sides |-> "start"]
  /\ opened = {}
  /\ \E c \in Starts, p \in Starts :
       tcp = [x \in Sides |-> LET n == IF x = "client" THEN c ELSE p
                                  r == IF x = "client" THEN p ELSE c
                              IN [nxt |-> n, una |-> n, rcv |-> r, probe |-> FALSE]]
  /\ base = [x \in Sides |-> [learned |-> FALSE, seq |-> 0, ack |-> 0]]
  /\ sent = [x \in Sides |-> 0]
  /\ wire = {}
  /\ outq = {}
  /\ taken = [x \in Sides |-> {}]
  /\ written = [x \in Sides |-> {}]
-----------------------------------------------------------------------------
(***************************************************************************)
(* The kernels.                                                            *)
(***************************************************************************)

\* What becomes of the network w when ms are put on it.
Put(w, ms) == IF Cardinality(w \cup ms) <= InFlight
              THEN {w \cup ms}
              ELSE {(w \ {o}) \cup ms : o \in w}

\* What the kernel of x sends goes out, unless the client's learning rule
\* takes it: to its queue, or nowhere when nobody reads it.
Emit(x, w, ms) ==
  IF x = "client" /\ phase[x] \in {"learnRule", "learnQueue", "learned"}
  THEN wire' = w /\ outq' = IF phase[x] = "learnQueue" THEN outq \cup ms ELSE outq
  ELSE wire' \in Put(w, ms) /\ outq' = outq

\* The kernel of y is handed m.  The next segment is taken; what it
\* acknowledges is read off it and off one ahead; it is answered when it takes
\* up sequence numbers, and when it is an old one.  A closed socket does nothing.
KernelGets(y, m) ==
  LET ahead == (m.seq - tcp[y].rcv) % Word < Word \div 2
      acked == ahead /\ m.ack = tcp[y].nxt
      rcv   == IF m.seq = tcp[y].rcv THEN Plus(tcp[y].rcv, Extent(m)) ELSE tcp[y].rcv
      reply == IF ahead /\ Extent(m) = 0 THEN {}
               ELSE {Segment(y, tcp[y].nxt, rcv, "ack", Nothing)}
  IN IF phase[y] = "down"
     THEN wire' = wire \ {m} /\ UNCHANGED <<tcp, outq>>
     ELSE /\ tcp' = [tcp EXCEPT ![y].rcv = rcv,
                                ![y].una = IF acked THEN tcp[y].nxt ELSE @,
                                ![y].probe = @ /\ ~acked]
          /\ Emit(y, wire \ {m}, reply)

\* Keepalive, when nothing is unacknowledged: 20 s idle, then every second.
KeepAlive(x) == /\ phase[x] # "down"
                /\ tcp[x].una = tcp[x].nxt
                /\ tcp' = [tcp EXCEPT ![x].probe = TRUE]
                /\ Emit(x, wire, {Probe(x)})
                /\ UNCHANGED <<phase, opened, base, sent, taken, written>>

Retransmit == /\ phase["client"] # "down"
              /\ tcp["client"].una # tcp["client"].nxt
              /\ Emit("client", wire, {Resent})
              /\ UNCHANGED <<phase, opened, tcp, base, sent, taken, written>>

Lose(m) == /\ wire' = wire \ {m}
           /\ UNCHANGED <<phase, opened, tcp, base, sent, outq, taken, written>>
-----------------------------------------------------------------------------
(***************************************************************************)
(* Learning.                                                               *)
(***************************************************************************)
Enter(x, p) == phase' = [phase EXCEPT ![x] = p]

\* Mutated: the base is the number of the marker, not the one after it.
LearnAtMarker(x, m) ==
  base' = [base EXCEPT ![x] =
             [learned |-> TRUE,
              seq |-> IF x = "client" THEN m.seq ELSE m.ack,
              ack |-> IF x = "client" THEN m.ack ELSE m.seq]]

\* Mutated: the sums are not taken modulo Word.
LearnWide(x, m) ==
  base' = [base EXCEPT ![x] =
             [learned |-> TRUE,
              seq |-> IF x = "client" THEN m.seq + 1 ELSE m.ack,
              ack |-> IF x = "client" THEN m.ack ELSE m.seq + 1]]

\* What the two learning callbacks read from the marker's segment.
Learn(x, m) ==
  base' = [base EXCEPT ![x] =
             [learned |-> TRUE,
              seq |-> IF x = "client" THEN Plus(m.seq, 1) ELSE m.ack,
              ack |-> IF x = "client" THEN m.ack ELSE Plus(m.seq, 1)]]

HookLearn(x) == /\ phase[x] = "start"
                /\ Order!Needs(x, "learn") \subseteq opened
                /\ Enter(x, "learnRule")
                /\ UNCHANGED <<opened, tcp, base, sent, wire, outq, taken, written>>

\* The queue is created; then the proxy announces it, the client writes the
\* marker, which its own rule puts into the queue.
OpenLearn(x) ==
  /\ phase[x] = "learnRule"
  /\ Enter(x, "learnQueue")
  /\ opened' = opened \cup {<<x, "learn">>}
  /\ IF x = "client"
     THEN /\ tcp' = [tcp EXCEPT ![x].nxt = Plus(@, 1), ![x].una = tcp[x].nxt,
                                ![x].probe = FALSE]
          /\ outq' = outq \cup {Segment(x, tcp[x].nxt, tcp[x].rcv, "psh", Marker)}
     ELSE UNCHANGED <<tcp, outq>>
  /\ UNCHANGED <<base, sent, wire, taken, written>>

\* client_learning_callback accepts every segment; the marker ends the loop,
\* and what is left in the queue goes with it.
ClientLearning(m) ==
  /\ phase["client"] = "learnQueue"
  /\ m \in outq
  /\ wire' \in Put(wire, {m})
  /\ IF m.body = Marker
     THEN Learn("client", m) /\ Enter("client", "learned") /\ outq' = {}
     ELSE outq' = outq \ {m} /\ UNCHANGED <<base, phase>>
  /\ UNCHANGED <<opened, tcp, sent, taken, written>>

\* proxy_learning_callback likewise.
ProxyLearning(m) ==
  /\ phase["proxy"] = "learnQueue"
  /\ m \in wire /\ m.from = "client"
  /\ KernelGets("proxy", m)
  /\ IF m.body = Marker
     THEN Learn("proxy", m) /\ Enter("proxy", "learned")
     ELSE UNCHANGED <<base, phase>>
  /\ UNCHANGED <<opened, sent, taken, written>>

\* The queue is destroyed and the rule deleted.
UnhookLearn(x) == /\ phase[x] = "learned"
                  /\ Enter(x, "unhooked")
                  /\ UNCHANGED <<opened, tcp, base, sent, wire, outq, taken, written>>
-----------------------------------------------------------------------------
(***************************************************************************)
(* The tunnel.                                                             *)
(***************************************************************************)

\* The proxy has read the marker's byte from its socket before.
HookTunnel(x) == /\ phase[x] = "unhooked"
                 /\ x = "proxy" => tcp[x].rcv = base[x].ack
                 /\ Enter(x, "tunnelRule")
                 /\ UNCHANGED <<opened, tcp, base, sent, wire, outq, taken, written>>

OpenTunnel(x) == /\ phase[x] = "tunnelRule"
                 /\ Enter(x, "tunnelQueue")
                 /\ opened' = opened \cup {<<x, "tunnel">>}
                 /\ UNCHANGED <<tcp, base, sent, wire, outq, taken, written>>

\* Mutated: a side opens its data plane without the READY handshake.
OpenPlaneAlone(x) == /\ phase[x] = "tunnelQueue"
                     /\ Enter(x, "plane")
                     /\ opened' = opened \cup {<<x, "plane">>}
                     /\ UNCHANGED <<tcp, base, sent, wire, outq, taken, written>>

OpenPlane(x) == /\ phase[x] = "tunnelQueue"
                /\ Order!Needs(x, "plane") \subseteq opened
                /\ Enter(x, "plane")
                /\ opened' = opened \cup {<<x, "plane">>}
                /\ UNCHANGED <<tcp, base, sent, wire, outq, taken, written>>

\* Mutated: the bytes are counted in 32 bits.
OffsetNarrow(n) == (n % Word) \div 10

\* fake_seq_offset, from real_bytes_sent.
Offset(n) == n \div 10

\* The number that the next forged segment of x carries.
NextSeq(x) == Plus(base[x].seq, Offset(sent[x]))

\* tun_to_raw_loop reads a packet, whatever its version, and sends it, until
\* main stops it: an error of the tunnel thread does not.
Forge(x, p) == /\ <<x, "plane">> \in opened
               /\ phase[x] \in {"plane", "stalled"}
               /\ p.len <= MTU
               /\ p.tun = x /\ p \notin taken[x]
               /\ wire' \in Put(wire, {Segment(x, NextSeq(x), base[x].ack, "psh", p)})
               /\ sent' = [sent EXCEPT ![x] = @ + p.len]
               /\ taken' = [taken EXCEPT ![x] = @ \cup {p}]
               /\ UNCHANGED <<phase, opened, tcp, base, outq, written>>

\* Mutated: the number of a keepalive probe does not pass.
AllowedNoProbe(x, m) == /\ base[x].learned
                        /\ m.flags = "ack"
                        /\ m.ack = base[x].seq
                        /\ m.seq = base[x].ack

\* is_*_allowed_control_ack, of a segment without payload.
Allowed(x, m) == /\ base[x].learned
                 /\ m.flags = "ack"
                 /\ m.ack = base[x].seq
                 /\ m.seq \in {base[x].ack, Before(base[x].ack)}

\* Mutated: the lengths are not looked at.
ExtractableAny(b) == b.version = 4

\* extract_inner_ipv4_packet.
Extractable(b) == /\ b.version = 4
                  /\ Header <= b.len /\ b.len <= MTU

\* A segment without payload goes to the kernel or nowhere.
PassControl(x, m) == /\ phase[x] \in {"tunnelQueue", "plane"}
                     /\ m.body.len = 0
                     /\ Allowed(x, m)
                     /\ KernelGets(x, m)
                     /\ UNCHANGED <<phase, opened, base, sent, taken, written>>

\* One with payload goes to the tun device or nowhere.
WriteTun(x, m) == /\ phase[x] = "plane"
                  /\ m.body.len > 0 /\ Extractable(m.body)
                  /\ wire' = wire \ {m}
                  /\ written' = [written EXCEPT ![x] = @ \cup {m.body}]
                  /\ UNCHANGED <<phase, opened, tcp, base, sent, outq, taken>>

\* The write fails: session_error.
WriteTunFails(x, m) == /\ phase[x] = "plane"
                       /\ m.body.len > 0 /\ Extractable(m.body)
                       /\ wire' = wire \ {m}
                       /\ Enter(x, "stalled")
                       /\ UNCHANGED <<opened, tcp, base, sent, outq, taken, written>>

\* The verdict is NF_DROP, or nobody gives one.
Drop(x, m) == /\ Hooked(x)
              /\ ~(x = "proxy" /\ phase[x] = "learnQueue")
              /\ IF m.body.len = 0
                 THEN phase[x] \in {"tunnelQueue", "plane"} => ~Allowed(x, m)
                 ELSE phase[x] = "plane" => ~Extractable(m.body)
              /\ wire' = wire \ {m}
              /\ UNCHANGED <<phase, opened, tcp, base, sent, outq, taken, written>>

\* No rule: the kernel gets it.
PassBy(x, m) == /\ ~Hooked(x)
                /\ KernelGets(x, m)
                /\ UNCHANGED <<phase, opened, base, sent, taken, written>>

Arrive(x, m) == /\ m \in wire /\ m.from = Peer(x)
                /\ \/ x = "proxy" /\ ProxyLearning(m)
                   \/ PassControl(x, m) \/ WriteTun(x, m) \/ WriteTunFails(x, m)
                   \/ Drop(x, m) \/ PassBy(x, m)

\* stop or session_error: the tunnel thread ends, the rule stays until main
\* comes to its cleanup.
Stall(x) == /\ phase[x] \in {"tunnelQueue", "plane"}
            /\ Enter(x, "stalled")
            /\ UNCHANGED <<opened, tcp, base, sent, wire, outq, taken, written>>

\* The cleanup, from wherever: the rules go, and the queues.
Leave(x) == /\ phase[x] \notin {"closing", "down"}
            /\ Enter(x, "closing")
            /\ outq' = IF x = "client" THEN {} ELSE outq
            /\ UNCHANGED <<opened, tcp, base, sent, wire, taken, written>>

\* Its last step: the socket is closed.
Close(x) == /\ phase[x] = "closing"
            /\ Enter(x, "down")
            /\ wire' \in Put(wire, {Fin(x)})
            /\ UNCHANGED <<opened, tcp, base, sent, outq, taken, written>>
-----------------------------------------------------------------------------
Main(x) == \/ HookLearn(x) \/ OpenLearn(x) \/ UnhookLearn(x)
           \/ HookTunnel(x) \/ OpenTunnel(x) \/ OpenPlane(x)

Next == \/ \E x \in Sides :
             \/ Main(x) \/ KeepAlive(x) \/ Stall(x) \/ Leave(x) \/ Close(x)
             \/ \E p \in Packets : Forge(x, p)
             \/ \E m \in wire : Arrive(x, m)
        \/ \E m \in outq : ClientLearning(m)
        \/ \E m \in wire : Lose(m)
        \/ Retransmit

Spec == Init /\ [][Next]_vars

\* Main goes on, the learning loop reads its queue, the kernels keep alive and
\* retransmit, and of a segment that a kernel sends again and again one
\* arrives.
FairSpec ==
  /\ Spec
  /\ WF_vars(Retransmit)
  /\ WF_vars(\E m \in outq : m.body = Marker /\ ClientLearning(m))
  /\ SF_vars(\E m \in wire : m.body = Marker /\ Arrive("proxy", m))
  /\ \A x \in Sides :
       /\ WF_vars(Main(x))
       /\ WF_vars(KeepAlive(x))
       /\ SF_vars(\E m \in wire : m.flags = "ack" /\ m.seq # tcp[Peer(x)].nxt /\ Arrive(x, m))
       /\ SF_vars(\E m \in wire : m.flags = "ack" /\ m.seq = tcp[Peer(x)].nxt /\ Arrive(x, m))
-----------------------------------------------------------------------------
Over == \E x \in Sides : phase[x] \in {"stalled", "closing", "down"}

Connected == \A x \in Sides : phase[x] \notin {"closing", "down"}

\* What a side has learned are the numbers of the connection as both kernels
\* have them, though each side has read them from a copy of the marker of its
\* own, sent again, late or twice (client_nfqueue.cpp:243-261,
\* proxy_nfqueue.cpp:254-271).
BasesAgree == Connected =>
  \A x \in Sides : base[x].learned => /\ base[x].seq = tcp[x].nxt
                                      /\ base[x].ack = tcp[Peer(x)].nxt

\* No forged segment gets into the stream of a kernel, at any point of the set-up or
\* of the tunnel: what a kernel has received is what the other has sent.
StreamIntact ==
  Connected => \A x \in Sides : tcp[x].rcv \in {tcp[Peer(x)].una, tcp[Peer(x)].nxt}

\* A tun device is written only packets that the other side has read from its
\* own, whole, and of version 4: never the marker, nor a piece.
NothingInvented ==
  \A x \in Sides : written[x] \subseteq {p \in taken[Peer(x)] : p.version = 4}

\* The forged numbers never go back and leave no hole: the next segment starts
\* within the last one, or where it ends, also when the numbers wrap
\* (client_raw.cpp:233-262, proxy_raw.cpp:228-271).
NoHole == [][\A x \in Sides : base[x].learned =>
               (NextSeq(x)' - NextSeq(x)) % Word <= sent'[x] - sent[x]]_vars

\* The connection is kept alive through the whole of it: while neither side
\* has stopped, a kernel that probes gets its answer, whatever rules and
\* queues are in place and whatever is lost.
ProbeAnswered == \A x \in Sides : tcp[x].probe ~> ~tcp[x].probe \/ Over
=============================================================================
