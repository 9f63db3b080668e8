--------------------------- MODULE ForgedTcpProofs ---------------------------
(***************************************************************************)
(* That the forged segments and the kernels' own keep out of each other's  *)
(* way, for every word, every start of the numbers, every set of packets   *)
(* and every network: proofs about ForgedTcp.                              *)
(*                                                                         *)
(* The invariant says of every segment on its way what it implies about    *)
(* its sender, and of the two kernels how far the marker has come.  It     *)
(* speaks of the connection only until a side begins its cleanup.          *)
(***************************************************************************)
EXTENDS ForgedTcp, TLAPS

Numbers == 0 .. Word - 1

\* The client has not written the marker.
Unwritten == phase["client"] \in {"start", "learnRule"}

\* What a segment on its way says.
Honest(m) ==
  /\ m.body \in {Nothing, Marker} \cup taken[m.from]
  /\ m.body \in Packets => <<Peer(m.from), "tunnel">> \in opened
  /\ m.flags = "fin" => ~Connected
  /\ m.body = Marker => m.from = "client"
  /\ Connected /\ m.body = Marker =>
       /\ ~Unwritten
       /\ Plus(m.seq, 1) = tcp["client"].nxt
       /\ m.ack = tcp["proxy"].nxt
  /\ Connected /\ m.from = "proxy" /\ m.body = Nothing =>
       IF Unwritten THEN m.ack = tcp["client"].nxt
       ELSE m.ack = tcp["client"].nxt => tcp["proxy"].rcv = tcp["client"].nxt

NetInv == \A m \in wire \cup outq : Honest(m)

\* How far the marker has come.
KernelInv == Connected =>
  /\ tcp["proxy"].una = tcp["proxy"].nxt
  /\ tcp["client"].rcv = tcp["proxy"].nxt
  /\ tcp["client"].una # tcp["client"].nxt =>
       ~Unwritten /\ Plus(tcp["client"].una, 1) = tcp["client"].nxt
  /\ tcp["proxy"].rcv \in {tcp["client"].una, tcp["client"].nxt}

LearnedInv ==
  /\ \A x \in Sides : base[x].learned => phase[x] \notin {"start", "learnRule", "learnQueue"}
  /\ Connected => \A x \in Sides : base[x].learned =>
       /\ ~Unwritten
       /\ base[x].seq = tcp[x].nxt /\ base[x].ack = tcp[Peer(x)].nxt

\* What has been opened, and by whom.
OpenInv == \A x \in Sides :
  /\ <<x, "tunnel">> \in opened =>
       phase[x] \in {"tunnelQueue", "plane", "stalled", "closing", "down"}
  /\ <<x, "plane">> \in opened => <<Peer(x), "tunnel">> \in opened

WrittenInv == NothingInvented

Inv == TypeOK /\ NetInv /\ KernelInv /\ LearnedInv /\ OpenInv /\ WrittenInv
-----------------------------------------------------------------------------
(***************************************************************************)
(* Numbers, payloads and the network.                                      *)
(***************************************************************************)
LEMMA SidesAre ==
  /\ Sides = {"client", "proxy"} /\ "client" # "proxy"
  /\ Peer("client") = "proxy" /\ Peer("proxy") = "client"
  /\ \A x \in Sides : Peer(x) \in Sides /\ Peer(x) # x
  BY DEF Sides, Peer

LEMMA PlusType ==
  /\ \A n \in Int, k \in Int : Plus(n, k) \in Numbers
  /\ \A n \in Int : Before(n) \in Numbers
  BY WordAssumption DEF Plus, Before, Numbers

LEMMA PlusNone == \A n \in Numbers : Plus(n, 0) = n
  BY WordAssumption DEF Plus, Numbers

LEMMA PlusOne == \A n \in Numbers : Plus(n, 1) # n
<1> SUFFICES ASSUME NEW n \in Numbers PROVE Plus(n, 1) # n
  OBVIOUS
<1>1. CASE n = Word - 1
  BY <1>1, WordAssumption DEF Plus, Numbers
<1>2. CASE n < Word - 1
  <2>1. (n + 1) % Word = n + 1
    BY <1>2, WordAssumption DEF Numbers
  <2> QED BY <2>1 DEF Plus, Numbers
<1> QED BY <1>1, <1>2, WordAssumption DEF Numbers

LEMMA Bodies ==
  /\ Nothing \notin Packets /\ Marker \notin Packets /\ Nothing # Marker
  /\ Nothing.len = 0 /\ Marker.len = 1
  /\ \A p \in Packets : p.len \in Nat /\ p.len # 0 /\ p.tun \in Sides
  BY PacketsAssumption DEF Nothing, Marker, Sides

LEMMA SegmentType ==
  ASSUME NEW x \in Sides, NEW s \in Numbers, NEW a \in Numbers,
         NEW f \in {"ack", "psh", "fin"}, NEW b \in Payloads
  PROVE  /\ Segment(x, s, a, f, b) \in Segments
         /\ Segment(x, s, a, f, b).from = x /\ Segment(x, s, a, f, b).seq = s
         /\ Segment(x, s, a, f, b).ack = a /\ Segment(x, s, a, f, b).flags = f
         /\ Segment(x, s, a, f, b).body = b
  BY DEF Segment, Segments, Numbers

LEMMA PutAdds ==
  ASSUME NEW w, NEW ms, NEW v \in Put(w, ms)
  PROVE  v \subseteq w \cup ms
  BY DEF Put

LEMMA EmitAdds ==
  ASSUME NEW x, NEW w, NEW ms, Emit(x, w, ms)
  PROVE  wire' \cup outq' \subseteq w \cup outq \cup ms
  BY PutAdds DEF Emit

TcpType == [Sides -> [nxt : Numbers, una : Numbers, rcv : Numbers, probe : BOOLEAN]]

\* What a segment does to the kernel that gets it.
LEMMA KernelEffect ==
  ASSUME TypeOK, NEW x \in Sides, NEW m \in Segments, KernelGets(x, m)
  PROVE  /\ tcp' \in TcpType
         /\ tcp'[Peer(x)] = tcp[Peer(x)]
         /\ tcp'[x].nxt = tcp[x].nxt
         /\ \/ tcp'[x].rcv = tcp[x].rcv
            \/ /\ m.seq = tcp[x].rcv
               /\ tcp'[x].rcv = Plus(m.seq, Extent(m))
         /\ \/ tcp'[x].una = tcp[x].una
            \/ m.ack = tcp[x].nxt /\ tcp'[x].una = tcp[x].nxt
         /\ wire' \cup outq' \subseteq
              wire \cup outq \cup {Segment(x, tcp[x].nxt, tcp'[x].rcv, "ack", Nothing)}
<1>0. tcp \in TcpType
  BY DEF TypeOK, TcpType, Numbers
<1>1. CASE phase[x] = "down"
  BY <1>0, <1>1 DEF KernelGets
<1>2. CASE phase[x] # "down"
  <2> DEFINE ahead == (m.seq - tcp[x].rcv) % Word < Word \div 2
             acked == ahead /\ m.ack = tcp[x].nxt
             rcv   == IF m.seq = tcp[x].rcv THEN Plus(tcp[x].rcv, Extent(m)) ELSE tcp[x].rcv
             una   == IF acked THEN tcp[x].nxt ELSE tcp[x].una
             reply == IF ahead /\ Extent(m) = 0 THEN {}
                      ELSE {Segment(x, tcp[x].nxt, rcv, "ack", Nothing)}
  <2>1. /\ tcp' = [tcp EXCEPT ![x].rcv = rcv, ![x].una = una,
                              ![x].probe = @ /\ ~acked]
        /\ Emit(x, wire \ {m}, reply)
    BY <1>2 DEF KernelGets
  <2>2. rcv \in Numbers
    <3>1. Extent(m) \in Int
      BY PacketsAssumption DEF Extent, Segments, Payloads, Nothing, Marker
    <3>2. tcp[x].rcv \in Numbers /\ Numbers \subseteq Int
      BY <1>0, WordAssumption DEF TcpType, Numbers
    <3> QED BY <3>1, <3>2, PlusType
  <2>3. una \in Numbers /\ acked \in BOOLEAN
    BY <1>0 DEF TcpType
  <2> HIDE DEF ahead, acked, una
  <2>4. rcv = tcp[x].rcv \/ (m.seq = tcp[x].rcv /\ rcv = Plus(m.seq, Extent(m)))
    OBVIOUS
  <2>5. una = tcp[x].una \/ (m.ack = tcp[x].nxt /\ una = tcp[x].nxt)
    BY DEF una, acked
  <2> HIDE DEF rcv
  <2>6. /\ tcp' \in TcpType
        /\ tcp'[Peer(x)] = tcp[Peer(x)]
        /\ tcp'[x].nxt = tcp[x].nxt /\ tcp'[x].rcv = rcv /\ tcp'[x].una = una
    BY <1>0, <2>1, <2>2, <2>3, SidesAre DEF TcpType
  <2>7. wire' \cup outq' \subseteq
          wire \cup outq \cup {Segment(x, tcp[x].nxt, rcv, "ack", Nothing)}
    BY <2>1, EmitAdds
  <2> QED BY <2>4, <2>5, <2>6, <2>7
<1> QED BY <1>1, <1>2
-----------------------------------------------------------------------------
(***************************************************************************)
(* Types.                                                                  *)
(***************************************************************************)

\* What the kernels and the forger put on the network are segments.
LEMMA Sent ==
  ASSUME TypeOK, NEW x \in Sides
  PROVE  /\ Probe(x) \in Segments /\ Resent \in Segments /\ Fin(x) \in Segments
         /\ \A p \in Packets :
              Segment(x, NextSeq(x), base[x].ack, "psh", p) \in Segments
<1>1. /\ tcp \in TcpType
      /\ base \in [Sides -> [learned : BOOLEAN, seq : Numbers, ack : Numbers]]
      /\ sent[x] \in Nat
  BY DEF TypeOK, TcpType, Numbers
<1>2. /\ \A y \in Sides : tcp[y].nxt \in Numbers /\ tcp[y].rcv \in Numbers
                          /\ tcp[y].una \in Numbers
      /\ base[x].seq \in Numbers /\ base[x].ack \in Numbers
  BY <1>1 DEF TcpType
<1>3. Before(tcp[x].nxt) \in Numbers /\ NextSeq(x) \in Numbers
  <2>1. Numbers \subseteq Int /\ Offset(sent[x]) \in Int
    BY <1>1, WordAssumption DEF Numbers, Offset
  <2> QED BY <1>2, <2>1, PlusType DEF NextSeq
<1>4. Nothing \in Payloads /\ Marker \in Payloads /\ Packets \subseteq Payloads
  BY DEF Payloads
<1>5. Probe(x) \in Segments /\ Fin(x) \in Segments
  BY <1>2, <1>3, <1>4, SegmentType DEF Probe, Fin
<1>6. Resent \in Segments
  BY <1>2, <1>4, SegmentType, SidesAre DEF Resent
<1>7. ASSUME NEW p \in Packets
      PROVE  Segment(x, NextSeq(x), base[x].ack, "psh", p) \in Segments
  BY <1>2, <1>3, <1>4, SegmentType
<1> QED BY <1>5, <1>6, <1>7

LEMMA LearnType ==
  ASSUME TypeOK, NEW x \in Sides, NEW m \in Segments, Learn(x, m)
  PROVE  /\ base' \in [Sides -> [learned : BOOLEAN, seq : 0 .. Word - 1, ack : 0 .. Word - 1]]
         /\ base'[Peer(x)] = base[Peer(x)]
         /\ base'[x].seq = IF x = "client" THEN Plus(m.seq, 1) ELSE m.ack
         /\ base'[x].ack = IF x = "client" THEN m.ack ELSE Plus(m.seq, 1)
<1>1. /\ m.seq \in Numbers /\ m.ack \in Numbers
      /\ m.seq \in Int
  BY WordAssumption DEF Segments, Numbers
<1>2. Plus(m.seq, 1) \in Numbers
  BY <1>1, PlusType
<1> DEFINE s == IF x = "client" THEN Plus(m.seq, 1) ELSE m.ack
           a == IF x = "client" THEN m.ack ELSE Plus(m.seq, 1)
<1>3. s \in Numbers /\ a \in Numbers
  BY <1>1, <1>2
<1>4. base' = [base EXCEPT ![x] = [learned |-> TRUE, seq |-> s, ack |-> a]]
  BY DEF Learn
<1> HIDE DEF s, a
<1>5. /\ base' \in [Sides -> [learned : BOOLEAN, seq : 0 .. Word - 1, ack : 0 .. Word - 1]]
      /\ base'[Peer(x)] = base[Peer(x)]
      /\ base'[x].seq = s /\ base'[x].ack = a
  BY <1>3, <1>4, SidesAre DEF TypeOK, Numbers
<1> QED BY <1>5 DEF s, a

LEMMA KernelType ==
  ASSUME TypeOK, NEW x \in Sides, NEW m \in Segments, KernelGets(x, m)
  PROVE  /\ tcp' \in [Sides -> [nxt : 0 .. Word - 1, una : 0 .. Word - 1,
                                rcv : 0 .. Word - 1, probe : BOOLEAN]]
         /\ wire' \subseteq Segments /\ outq' \subseteq Segments
<1>1. tcp \in TcpType /\ tcp' \in TcpType
  BY KernelEffect DEF TypeOK, TcpType, Numbers
<1>2. Segment(x, tcp[x].nxt, tcp'[x].rcv, "ack", Nothing) \in Segments
  BY <1>1, SegmentType DEF TcpType, Payloads
<1> QED BY <1>1, <1>2, KernelEffect DEF TypeOK, TcpType, Numbers

LEMMA TypeStep == TypeOK /\ [Next]_vars => TypeOK'
<1> SUFFICES ASSUME TypeOK, [Next]_vars PROVE TypeOK'
  OBVIOUS
<1> USE DEF TypeOK
<1>1. CASE UNCHANGED vars
  BY <1>1 DEF vars
<1>2. ASSUME NEW x \in Sides,
             HookLearn(x) \/ UnhookLearn(x) \/ HookTunnel(x) \/ Stall(x) \/ Leave(x)
      PROVE  TypeOK'
  <2>1. phase' \in [Sides -> Phases] /\ outq' \subseteq Segments
    BY <1>2 DEF HookLearn, UnhookLearn, HookTunnel, Stall, Leave, Enter, Phases
  <2> QED BY <1>2, <2>1 DEF HookLearn, UnhookLearn, HookTunnel, Stall, Leave
<1>3. ASSUME NEW x \in Sides, OpenLearn(x) PROVE TypeOK'
  <2>1. phase' \in [Sides -> Phases] /\ opened' \subseteq Sides \X {"learn", "tunnel", "plane"}
    BY <1>3 DEF OpenLearn, Enter, Phases
  <2>2. tcp' \in [Sides -> [nxt : 0 .. Word - 1, una : 0 .. Word - 1,
                            rcv : 0 .. Word - 1, probe : BOOLEAN]]
    <3>1. tcp[x].nxt \in Int /\ tcp[x].nxt \in 0 .. Word - 1
      BY WordAssumption
    <3>2. Plus(tcp[x].nxt, 1) \in 0 .. Word - 1
      BY <3>1, PlusType DEF Numbers
    <3> QED BY <1>3, <3>1, <3>2 DEF OpenLearn
  <2>3. outq' \subseteq Segments
    <3>1. Segment(x, tcp[x].nxt, tcp[x].rcv, "psh", Marker) \in Segments
      BY SegmentType DEF Numbers, Payloads
    <3> QED BY <1>3, <3>1 DEF OpenLearn
  <2> QED BY <1>3, <2>1, <2>2, <2>3 DEF OpenLearn
<1>4. ASSUME NEW x \in Sides, OpenTunnel(x) \/ OpenPlane(x) PROVE TypeOK'
  <2>1. phase' \in [Sides -> Phases]
    BY <1>4 DEF OpenTunnel, OpenPlane, Enter, Phases
  <2>2. opened' \subseteq Sides \X {"learn", "tunnel", "plane"}
    <3>1. \E w \in {"tunnel", "plane"} : opened' = opened \cup {<<x, w>>}
      BY <1>4 DEF OpenTunnel, OpenPlane
    <3> QED BY <3>1
  <2> QED BY <1>4, <2>1, <2>2 DEF OpenTunnel, OpenPlane
<1>5. ASSUME NEW x \in Sides, KeepAlive(x) PROVE TypeOK'
  <2>1. wire' \subseteq Segments /\ outq' \subseteq Segments
    BY <1>5, Sent, EmitAdds DEF KeepAlive
  <2>2. tcp' \in [Sides -> [nxt : 0 .. Word - 1, una : 0 .. Word - 1,
                            rcv : 0 .. Word - 1, probe : BOOLEAN]]
    BY <1>5 DEF KeepAlive
  <2> QED BY <1>5, <2>1, <2>2 DEF KeepAlive
<1>6. CASE Retransmit
  <2>1. wire' \subseteq Segments /\ outq' \subseteq Segments
    BY <1>6, Sent, EmitAdds, SidesAre DEF Retransmit
  <2> QED BY <1>6, <2>1 DEF Retransmit
<1>7. ASSUME NEW x \in Sides, NEW p \in Packets, Forge(x, p) PROVE TypeOK'
  <2>1. wire' \subseteq Segments
    BY <1>7, Sent, PutAdds DEF Forge
  <2>2. sent' \in [Sides -> Nat]
    BY <1>7, Bodies DEF Forge
  <2>3. taken' \in [Sides -> SUBSET Packets]
    BY <1>7 DEF Forge
  <2> QED BY <1>7, <2>1, <2>2, <2>3 DEF Forge
<1>8. ASSUME NEW x \in Sides, Close(x) PROVE TypeOK'
  <2>1. wire' \subseteq Segments
    BY <1>8, Sent, PutAdds DEF Close
  <2>2. phase' \in [Sides -> Phases]
    BY <1>8 DEF Close, Enter, Phases
  <2> QED BY <1>8, <2>1, <2>2 DEF Close
<1>9. ASSUME NEW m \in outq, ClientLearning(m) PROVE TypeOK'
  <2>1. wire' \subseteq Segments /\ outq' \subseteq Segments
    BY <1>9, PutAdds DEF ClientLearning
  <2>2. phase' \in [Sides -> Phases]
    BY <1>9 DEF ClientLearning, Enter, Phases
  <2>3. base' \in [Sides -> [learned : BOOLEAN, seq : 0 .. Word - 1, ack : 0 .. Word - 1]]
    BY <1>9, LearnType, SidesAre DEF ClientLearning
  <2> QED BY <1>9, <2>1, <2>2, <2>3 DEF ClientLearning
<1>10. ASSUME NEW m \in wire, ProxyLearning(m) PROVE TypeOK'
  <2>1. phase' \in [Sides -> Phases]
    BY <1>10 DEF ProxyLearning, Enter, Phases
  <2>2. base' \in [Sides -> [learned : BOOLEAN, seq : 0 .. Word - 1, ack : 0 .. Word - 1]]
    BY <1>10, LearnType, SidesAre DEF ProxyLearning
  <2> QED BY <1>10, <2>1, <2>2, KernelType, SidesAre DEF ProxyLearning
<1>11. ASSUME NEW x \in Sides, NEW m \in wire, PassControl(x, m) \/ PassBy(x, m)
       PROVE  TypeOK'
  BY <1>11, KernelType DEF PassControl, PassBy
<1>12. ASSUME NEW x \in Sides, NEW m \in wire, WriteTun(x, m) PROVE TypeOK'
  <2>1. m.body \in Payloads
    BY DEF Segments
  <2> QED BY <1>12, <2>1 DEF WriteTun
<1>13. ASSUME NEW x \in Sides, NEW m \in wire, WriteTunFails(x, m) \/ Drop(x, m) \/ Lose(m)
       PROVE  TypeOK'
  BY <1>13 DEF WriteTunFails, Drop, Lose, Enter, Phases
<1> HIDE DEF TypeOK
<1>14. ASSUME NEW x \in Sides, Main(x) PROVE TypeOK'
  BY <1>2, <1>3, <1>4, <1>14 DEF Main
<1>15. ASSUME NEW x \in Sides, NEW m \in wire, Arrive(x, m) PROVE TypeOK'
  BY <1>10, <1>11, <1>12, <1>13, <1>15 DEF Arrive
<1>16. ASSUME NEW m \in wire, Lose(m) PROVE TypeOK'
  BY <1>13, <1>16, SidesAre
<1> QED BY <1>1, <1>2, <1>5, <1>6, <1>7, <1>8, <1>9, <1>14, <1>15, <1>16 DEF Next
-----------------------------------------------------------------------------
(***************************************************************************)
(* Segments that stay on their way.                                        *)
(***************************************************************************)

\* What a step must leave alone for a segment to stay honest.
Steady ==
  /\ \A x \in Sides : taken[x] \subseteq taken'[x]
  /\ opened \subseteq opened'
  /\ Connected' => Connected
  /\ Connected' =>
       /\ Unwritten' <=> Unwritten
       /\ \A x \in Sides : tcp'[x].nxt = tcp[x].nxt
       /\ tcp["proxy"].rcv = tcp["client"].nxt => tcp'["proxy"].rcv = tcp["client"].nxt

LEMMA StaysHonest ==
  ASSUME Steady, NEW m \in Segments, Honest(m)
  PROVE  Honest(m)'
<1>1. m.from \in Sides
  BY DEF Segments
<1>2. m.body \in {Nothing, Marker} \cup taken'[m.from]
  BY <1>1 DEF Honest, Steady
<1>3. m.body \in Packets => <<Peer(m.from), "tunnel">> \in opened'
  BY DEF Honest, Steady
<1>4. (m.flags = "fin" => ~Connected') /\ (m.body = Marker => m.from = "client")
  BY DEF Honest, Steady
<1>5. Connected' /\ m.body = Marker =>
        /\ ~Unwritten'
        /\ Plus(m.seq, 1) = tcp'["client"].nxt
        /\ m.ack = tcp'["proxy"].nxt
  BY SidesAre DEF Honest, Steady
<1>6. Connected' /\ m.from = "proxy" /\ m.body = Nothing =>
        IF Unwritten' THEN m.ack = tcp'["client"].nxt
        ELSE m.ack = tcp'["client"].nxt => tcp'["proxy"].rcv = tcp'["client"].nxt
  BY SidesAre DEF Honest, Steady
<1> QED BY <1>2, <1>3, <1>4, <1>5, <1>6 DEF Honest

LEMMA NetStep ==
  ASSUME TypeOK, NetInv, Steady,
         \A m \in wire' \cup outq' : m \in wire \cup outq \/ Honest(m)'
  PROVE  NetInv'
<1>1. ASSUME NEW m \in wire \cup outq PROVE Honest(m)'
  BY <1>1, StaysHonest DEF NetInv, TypeOK
<1> QED BY <1>1 DEF NetInv

\* A segment without payload that a kernel sends.
LEMMA PlainHonest ==
  ASSUME NEW m, m.from \in Sides, m.flags = "ack", m.body = Nothing,
         Connected' /\ m.from = "proxy" =>
           IF Unwritten' THEN m.ack = tcp'["client"].nxt
           ELSE m.ack = tcp'["client"].nxt => tcp'["proxy"].rcv = tcp'["client"].nxt
  PROVE  Honest(m)'
  BY Bodies DEF Honest
-----------------------------------------------------------------------------
(***************************************************************************)
(* A segment that reaches a kernel.                                        *)
(***************************************************************************)
Hears(x, m) == \/ x = "proxy" /\ ProxyLearning(m)
               \/ PassControl(x, m) \/ PassBy(x, m)

\* It is never a forged one.
LEMMA Heard ==
  ASSUME Inv, Connected, NEW x \in Sides, NEW m \in wire, m.from = Peer(x), Hears(x, m)
  PROVE  /\ m.body = Nothing \/ (m.body = Marker /\ x = "proxy")
         /\ Extent(m) = IF m.body = Nothing THEN 0 ELSE 1
<1>1. m \in Segments /\ Honest(m)
  BY DEF Inv, TypeOK, NetInv
<1>2. m.body \in {Nothing, Marker} \cup Packets
  BY <1>1 DEF Segments, Payloads
<1>3. m.body \notin Packets
  <2> SUFFICES ASSUME m.body \in Packets PROVE FALSE
    OBVIOUS
  <2>1. <<x, "tunnel">> \in opened
    BY <1>1, SidesAre DEF Honest
  <2>2. phase[x] \in {"tunnelQueue", "plane", "stalled"}
    BY <2>1 DEF Inv, OpenInv, Connected
  <2>3. m.body.len # 0
    BY Bodies
  <2> QED BY <2>2, <2>3 DEF Hears, ProxyLearning, PassControl, PassBy, Hooked, Tunnelled
<1>4. m.body = Marker => x = "proxy"
  BY <1>1, SidesAre DEF Honest
<1>5. m.flags # "fin"
  BY <1>1 DEF Honest
<1> QED BY <1>2, <1>3, <1>4, <1>5, Bodies DEF Extent

LEMMA HearsKernel ==
  ASSUME NEW x \in Sides, NEW m, Hears(x, m)
  PROVE  KernelGets(x, m) /\ UNCHANGED <<opened, sent, taken, written>>
  BY DEF Hears, ProxyLearning, PassControl, PassBy

\* What it does to the two kernels keeps to the stream.
LEMMA KernelStep ==
  ASSUME Inv, Connected, NEW x \in Sides, NEW m \in wire, m.from = Peer(x), Hears(x, m)
  PROVE  /\ \A y \in Sides : tcp'[y].nxt = tcp[y].nxt
         /\ tcp["proxy"].rcv = tcp["client"].nxt => tcp'["proxy"].rcv = tcp["client"].nxt
         /\ tcp'["proxy"].una = tcp["proxy"].nxt
         /\ tcp'["client"].rcv = tcp["proxy"].nxt
         /\ tcp'["client"].una # tcp["client"].nxt =>
              tcp'["client"].una = tcp["client"].una
         /\ tcp'["proxy"].rcv \in {tcp'["client"].una, tcp["client"].nxt}
         /\ Unwritten => tcp'["proxy"].rcv = tcp["client"].nxt
<1>1. m \in Segments /\ Honest(m) /\ TypeOK
  BY DEF Inv, TypeOK, NetInv
<1>2. /\ tcp["proxy"].una = tcp["proxy"].nxt
      /\ tcp["client"].rcv = tcp["proxy"].nxt
      /\ tcp["client"].una # tcp["client"].nxt =>
           ~Unwritten /\ Plus(tcp["client"].una, 1) = tcp["client"].nxt
      /\ tcp["proxy"].rcv \in {tcp["client"].una, tcp["client"].nxt}
  BY DEF Inv, KernelInv
<1>3. /\ tcp'[Peer(x)] = tcp[Peer(x)]
      /\ tcp'[x].nxt = tcp[x].nxt
      /\ \/ tcp'[x].rcv = tcp[x].rcv
         \/ m.seq = tcp[x].rcv /\ tcp'[x].rcv = Plus(m.seq, Extent(m))
      /\ \/ tcp'[x].una = tcp[x].una
         \/ m.ack = tcp[x].nxt /\ tcp'[x].una = tcp[x].nxt
  BY <1>1, HearsKernel, KernelEffect
<1>4. m.seq \in Numbers /\ Plus(m.seq, 0) = m.seq
  BY <1>1, PlusNone DEF Segments, Numbers
<1>5. CASE x = "client"
  <2>1. m.body = Nothing /\ Extent(m) = 0 /\ m.from = "proxy"
    BY <1>5, Heard, SidesAre
  <2>2. tcp'["client"].rcv = tcp["client"].rcv /\ tcp'["proxy"] = tcp["proxy"]
    BY <1>3, <1>4, <1>5, <2>1, SidesAre
  <2>3. m.ack = tcp["client"].nxt => tcp["proxy"].rcv = tcp["client"].nxt
    BY <1>1, <1>2, <2>1 DEF Honest
  <2>4. /\ tcp'["client"].nxt = tcp["client"].nxt
        /\ \/ tcp'["client"].una = tcp["client"].una
           \/ /\ tcp["proxy"].rcv = tcp["client"].nxt
              /\ tcp'["client"].una = tcp["client"].nxt
    BY <1>3, <1>5, <2>3
  <2> QED BY <1>2, <2>2, <2>4, SidesAre
<1>6. CASE x = "proxy"
  <2>1. tcp'["client"] = tcp["client"] /\ tcp'["proxy"].nxt = tcp["proxy"].nxt
    BY <1>3, <1>6, SidesAre
  <2>2. tcp'["proxy"].una = tcp["proxy"].nxt
    BY <1>2, <1>3, <1>6
  <2>3. tcp'["proxy"].rcv \in {tcp["proxy"].rcv, tcp["client"].nxt}
    <3>1. CASE m.body = Nothing
      BY <1>3, <1>4, <1>6, <3>1, Heard
    <3>2. CASE m.body = Marker
      <4>1. Extent(m) = 1 /\ Plus(m.seq, 1) = tcp["client"].nxt
        BY <1>1, <3>2, Heard, Bodies DEF Honest
      <4> QED BY <1>3, <1>6, <4>1
    <3> QED BY <3>1, <3>2, Heard
  <2> QED BY <1>2, <2>1, <2>2, <2>3, SidesAre
<1> QED BY <1>5, <1>6, SidesAre
-----------------------------------------------------------------------------
(***************************************************************************)
(* The mains.  Nobody comes back from the cleanup or to an earlier phase.  *)
(***************************************************************************)
Onward ==
  /\ opened \subseteq opened'
  /\ Connected' => Connected
  /\ Connected' => (Unwritten' <=> Unwritten)
  /\ \A x \in Sides : /\ phase'[x] \in {"start", "learnRule", "learnQueue"}
                         => phase[x] \in {"start", "learnRule", "learnQueue"}
                      /\ phase[x] \in {"tunnelQueue", "plane", "stalled", "closing", "down"}
                         => phase'[x] \in {"tunnelQueue", "plane", "stalled", "closing", "down"}

\* A move of one main from one phase to a later one.
LEMMA PhaseMove ==
  ASSUME TypeOK, NEW x \in Sides, NEW p \in Phases, Enter(x, p), opened \subseteq opened',
         \/ phase[x] = "start" /\ p = "learnRule"
         \/ phase[x] = "learnRule" /\ p = "learnQueue" /\ x = "proxy"
         \/ phase[x] = "learnQueue" /\ p = "learned"
         \/ phase[x] = "learned" /\ p = "unhooked"
         \/ phase[x] = "unhooked" /\ p = "tunnelRule"
         \/ phase[x] = "tunnelRule" /\ p = "tunnelQueue"
         \/ phase[x] \in {"tunnelQueue", "plane"} /\ p \in {"plane", "stalled"}
         \/ p = "closing" /\ phase[x] # "down"
         \/ phase[x] = "closing" /\ p = "down"
  PROVE  Onward
<1>1. phase'[x] = p /\ \A y \in Sides \ {x} : phase'[y] = phase[y]
  BY DEF TypeOK, Enter
<1>2. Connected' => Connected
  BY <1>1 DEF Connected
<1>3. Connected' => (Unwritten' <=> Unwritten)
  BY <1>1, SidesAre DEF Connected, Unwritten
<1>4. \A y \in Sides :
        /\ phase'[y] \in {"start", "learnRule", "learnQueue"}
             => phase[y] \in {"start", "learnRule", "learnQueue"}
        /\ phase[y] \in {"tunnelQueue", "plane", "stalled", "closing", "down"}
             => phase'[y] \in {"tunnelQueue", "plane", "stalled", "closing", "down"}
  BY <1>1
<1> QED BY <1>2, <1>3, <1>4 DEF Onward

LEMMA PhaseSame ==
  ASSUME UNCHANGED phase, opened \subseteq opened'
  PROVE  Onward
  BY DEF Onward, Connected, Unwritten

LEMMA MovesOn ==
  ASSUME TypeOK, Next
  PROVE  Onward \/ OpenLearn("client")
<1>1. ASSUME NEW x \in Sides, HookLearn(x) \/ UnhookLearn(x) \/ HookTunnel(x)
      PROVE  Onward
  BY <1>1, PhaseMove DEF HookLearn, UnhookLearn, HookTunnel, Phases
<1>2. ASSUME NEW x \in Sides, OpenLearn(x), x # "client" PROVE Onward
  BY <1>2, PhaseMove, SidesAre DEF OpenLearn, Phases
<1>3. ASSUME NEW x \in Sides, OpenTunnel(x) \/ OpenPlane(x) PROVE Onward
  <2>1. opened \subseteq opened'
    BY <1>3 DEF OpenTunnel, OpenPlane
  <2> QED BY <1>3, <2>1, PhaseMove DEF OpenTunnel, OpenPlane, Phases
<1>4. ASSUME NEW x \in Sides, Stall(x) \/ Leave(x) \/ Close(x) PROVE Onward
  BY <1>4, PhaseMove DEF Stall, Leave, Close, Phases
<1>5. ASSUME NEW m \in outq, ClientLearning(m) PROVE Onward
  BY <1>5, PhaseMove, PhaseSame, SidesAre DEF ClientLearning, Phases
<1>6. ASSUME NEW x \in Sides, NEW m \in wire, Arrive(x, m) PROVE Onward
  <2>1. CASE ProxyLearning(m)
    BY <2>1, PhaseMove, PhaseSame, SidesAre DEF ProxyLearning, Phases
  <2>2. CASE WriteTunFails(x, m)
    BY <2>2, PhaseMove DEF WriteTunFails, Phases
  <2>3. CASE PassControl(x, m) \/ WriteTun(x, m) \/ Drop(x, m) \/ PassBy(x, m)
    BY <2>3, PhaseSame DEF PassControl, WriteTun, Drop, PassBy
  <2> QED BY <1>6, <2>1, <2>2, <2>3 DEF Arrive
<1>7. ASSUME NEW x \in Sides, KeepAlive(x) \/ (\E p \in Packets : Forge(x, p)) PROVE Onward
  BY <1>7, PhaseSame DEF KeepAlive, Forge
<1>8. CASE Retransmit \/ \E m \in wire : Lose(m)
  BY <1>8, PhaseSame DEF Retransmit, Lose
<1>9. ASSUME NEW x \in Sides, Main(x) PROVE Onward \/ OpenLearn("client")
  BY <1>1, <1>2, <1>3, <1>9 DEF Main
<1> QED BY <1>4, <1>5, <1>6, <1>7, <1>8, <1>9 DEF Next

\* The client opens its learning queue: the moment of the marker.
LEMMA MarkerMove ==
  ASSUME TypeOK, OpenLearn("client")
  PROVE  /\ opened \subseteq opened'
         /\ phase["client"] = "learnRule" /\ phase'["client"] = "learnQueue"
         /\ phase'["proxy"] = phase["proxy"]
         /\ Connected' => Connected
  BY SidesAre DEF TypeOK, OpenLearn, Enter, Connected

LEMMA OpenStep ==
  ASSUME TypeOK, OpenInv, Next
  PROVE  OpenInv'
<1>1. ASSUME NEW x \in Sides, <<x, "tunnel">> \in opened'
      PROVE  phase'[x] \in {"tunnelQueue", "plane", "stalled", "closing", "down"}
  <2>1. CASE <<x, "tunnel">> \in opened
    BY <2>1, SidesAre, MovesOn, MarkerMove DEF OpenInv, Onward
  <2>2. CASE <<x, "tunnel">> \notin opened
    <3>1. OpenTunnel(x)
      <4>1. opened' # opened
        BY <1>1, <2>2
      <4>2. PICK y \in Sides : OpenLearn(y) \/ OpenTunnel(y) \/ OpenPlane(y)
        BY <4>1, ZenonT(40) DEF Next, Main, HookLearn, UnhookLearn, HookTunnel, KeepAlive, Stall,
          Leave, Close, Forge, Arrive, ProxyLearning, PassControl, WriteTun,
          WriteTunFails, Drop, PassBy, ClientLearning, Lose, Retransmit
      <4> QED BY <1>1, <2>2, <4>2 DEF OpenLearn, OpenTunnel, OpenPlane
    <3> QED BY <3>1 DEF OpenTunnel, Enter, TypeOK
  <2> QED BY <2>1, <2>2
<1>2. ASSUME NEW x \in Sides, <<x, "plane">> \in opened'
      PROVE  <<Peer(x), "tunnel">> \in opened'
  <2>1. opened \subseteq opened'
    BY MovesOn, MarkerMove DEF Onward
  <2>2. CASE <<x, "plane">> \in opened
    BY <2>1, <2>2 DEF OpenInv
  <2>3. CASE <<x, "plane">> \notin opened
    <3>1. opened' # opened
      BY <1>2, <2>3
    <3>2. PICK y \in Sides : OpenLearn(y) \/ OpenTunnel(y) \/ OpenPlane(y)
      BY <3>1, ZenonT(40) DEF Next, Main, HookLearn, UnhookLearn, HookTunnel, KeepAlive, Stall,
        Leave, Close, Forge, Arrive, ProxyLearning, PassControl, WriteTun,
        WriteTunFails, Drop, PassBy, ClientLearning, Lose, Retransmit
    <3>3. OpenPlane(x)
      BY <1>2, <2>3, <3>2 DEF OpenLearn, OpenTunnel, OpenPlane
    <3>4. <<Peer(x), "tunnel">> \in Order!Needs(x, "plane")
      BY DEF Order!Needs, Order!Sides, Order!Stages, Sides, Peer
    <3> QED BY <3>3, <3>4, <2>1 DEF OpenPlane
  <2> QED BY <2>2, <2>3
<1> QED BY <1>1, <1>2 DEF OpenInv
-----------------------------------------------------------------------------
(***************************************************************************)
(* The invariant, step by step.                                            *)
(***************************************************************************)

\* Nothing but the marker moves the numbers of the two kernels.
TcpSteady ==
  /\ \A y \in Sides : tcp'[y].nxt = tcp[y].nxt
  /\ tcp["proxy"].rcv = tcp["client"].nxt => tcp'["proxy"].rcv = tcp["client"].nxt
  /\ tcp'["proxy"].una = tcp["proxy"].nxt
  /\ tcp'["client"].rcv = tcp["proxy"].nxt
  /\ tcp'["client"].una # tcp["client"].nxt => tcp'["client"].una = tcp["client"].una
  /\ tcp'["proxy"].rcv \in {tcp'["client"].una, tcp["client"].nxt}

\* A side has learned the numbers of the two kernels.
LearnedWell(x) ==
  Connected' => /\ ~Unwritten
                /\ base'[x].seq = tcp[x].nxt /\ base'[x].ack = tcp[Peer(x)].nxt

LEMMA CoreStep ==
  ASSUME Inv, Onward, \A x \in Sides : taken[x] \subseteq taken'[x],
         Connected' => TcpSteady,
         \A m \in wire' \cup outq' : m \in wire \cup outq \/ Honest(m)',
         \A x \in Sides : base'[x] = base[x] \/ (phase'[x] = "learned" /\ LearnedWell(x))
  PROVE  NetInv' /\ KernelInv' /\ LearnedInv'
<1>1. Steady
  BY DEF Steady, Onward, TcpSteady
<1>2. NetInv'
  BY <1>1, NetStep DEF Inv
<1>3. KernelInv'
  <2> SUFFICES ASSUME Connected' PROVE KernelInv'
    BY DEF KernelInv
  <2>1. /\ tcp["client"].una # tcp["client"].nxt =>
             ~Unwritten /\ Plus(tcp["client"].una, 1) = tcp["client"].nxt
        /\ Unwritten' <=> Unwritten
    BY DEF Inv, KernelInv, Onward
  <2> QED BY <2>1, SidesAre DEF KernelInv, TcpSteady
<1>4. LearnedInv'
  <2>1. ASSUME NEW x \in Sides, base'[x].learned
        PROVE  phase'[x] \notin {"start", "learnRule", "learnQueue"}
    BY <2>1 DEF Inv, LearnedInv, Onward
  <2>2. ASSUME Connected', NEW x \in Sides, base'[x].learned
        PROVE  /\ ~Unwritten'
               /\ base'[x].seq = tcp'[x].nxt /\ base'[x].ack = tcp'[Peer(x)].nxt
    <3>1. ~Unwritten /\ base'[x].seq = tcp[x].nxt /\ base'[x].ack = tcp[Peer(x)].nxt
      BY <2>2 DEF Inv, LearnedInv, LearnedWell, Onward
    <3> QED BY <2>2, <3>1, SidesAre DEF TcpSteady, Onward
  <2> QED BY <2>1, <2>2 DEF LearnedInv
<1> QED BY <1>2, <1>3, <1>4

LEMMA SameIsSteady ==
  ASSUME Inv, Connected,
         \A x \in Sides : /\ tcp'[x].nxt = tcp[x].nxt /\ tcp'[x].rcv = tcp[x].rcv
                          /\ tcp'[x].una = tcp[x].una
  PROVE  TcpSteady
  BY SidesAre DEF TcpSteady, Inv, KernelInv

\* Steps that send nothing and leave the kernels alone.
LEMMA AsideStep ==
  ASSUME Inv, Onward, UNCHANGED <<tcp, base, taken>>, wire' \cup outq' \subseteq wire \cup outq
  PROVE  NetInv' /\ KernelInv' /\ LearnedInv'
<1>1. Connected' => TcpSteady
  BY SameIsSteady DEF Onward
<1> QED BY <1>1, CoreStep

\* What the proxy's kernel acknowledges before and after the marker.
LEMMA ProxyAcks ==
  ASSUME Inv, Connected
  PROVE  Unwritten => tcp["proxy"].rcv = tcp["client"].nxt
  BY DEF Inv, KernelInv

LEMMA KeepAliveStep ==
  ASSUME Inv, Onward, NEW x \in Sides, KeepAlive(x)
  PROVE  NetInv' /\ KernelInv' /\ LearnedInv'
<1>1. /\ UNCHANGED <<phase, opened, base, taken>>
      /\ wire' \cup outq' \subseteq wire \cup outq \cup {Probe(x)}
  BY EmitAdds DEF KeepAlive
<1>2. \A y \in Sides : /\ tcp'[y].nxt = tcp[y].nxt /\ tcp'[y].rcv = tcp[y].rcv
                       /\ tcp'[y].una = tcp[y].una
  BY DEF KeepAlive, Inv, TypeOK
<1>3. Connected' => TcpSteady
  BY <1>2, SameIsSteady DEF Onward
<1>4. ASSUME NEW m, m = Probe(x) PROVE Honest(m)'
  <2>1. m.from = x /\ m.ack = tcp[x].rcv /\ m.flags = "ack" /\ m.body = Nothing
    BY <1>4 DEF Probe, Segment
  <2>2. Connected' /\ x = "proxy" =>
           IF Unwritten' THEN m.ack = tcp'["client"].nxt
           ELSE m.ack = tcp'["client"].nxt => tcp'["proxy"].rcv = tcp'["client"].nxt
    BY <1>2, <2>1, ProxyAcks, SidesAre DEF Onward
  <2> QED BY <2>1, <2>2, PlainHonest
<1> QED BY <1>1, <1>3, <1>4, CoreStep

LEMMA RetransmitStep ==
  ASSUME Inv, Onward, Retransmit
  PROVE  NetInv' /\ KernelInv' /\ LearnedInv'
<1>1. /\ UNCHANGED <<phase, opened, tcp, base, taken>>
      /\ wire' \cup outq' \subseteq wire \cup outq \cup {Resent}
      /\ tcp["client"].una # tcp["client"].nxt
  BY EmitAdds DEF Retransmit
<1>2. Connected' => TcpSteady
  BY <1>1, SameIsSteady DEF Onward
<1>3. ASSUME NEW m, m = Resent PROVE Honest(m)'
  <2>1. /\ m.from = "client" /\ m.seq = tcp["client"].una
        /\ m.ack = tcp["client"].rcv /\ m.flags = "psh" /\ m.body = Marker
    BY <1>3 DEF Resent, Segment
  <2>2. Connected' => /\ ~Unwritten'
                      /\ Plus(m.seq, 1) = tcp'["client"].nxt
                      /\ m.ack = tcp'["proxy"].nxt
    BY <1>1, <2>1 DEF Inv, KernelInv, Onward
  <2> QED BY <2>1, <2>2, Bodies DEF Honest
<1> QED BY <1>1, <1>2, <1>3, CoreStep

LEMMA ForgeStep ==
  ASSUME Inv, Onward, NEW x \in Sides, NEW p \in Packets, Forge(x, p)
  PROVE  NetInv' /\ KernelInv' /\ LearnedInv'
<1> DEFINE f == Segment(x, NextSeq(x), base[x].ack, "psh", p)
<1>1. /\ UNCHANGED <<phase, opened, tcp, base>>
      /\ wire' \cup outq' \subseteq wire \cup outq \cup {f}
      /\ p \in taken'[x] /\ \A y \in Sides : taken[y] \subseteq taken'[y]
      /\ <<x, "plane">> \in opened
  BY PutAdds DEF Forge, Inv, TypeOK
<1>2. Connected' => TcpSteady
  BY <1>1, SameIsSteady DEF Onward
<1>3. ASSUME NEW m, m = f PROVE Honest(m)'
  <2>1. m.from = x /\ m.flags = "psh" /\ m.body = p
    BY <1>3 DEF Segment
  <2>2. <<Peer(m.from), "tunnel">> \in opened'
    BY <1>1, <2>1 DEF Inv, OpenInv
  <2> QED BY <1>1, <2>1, <2>2, Bodies DEF Honest
<1> QED BY <1>1, <1>2, <1>3, CoreStep

LEMMA CloseStep ==
  ASSUME Inv, Onward, NEW x \in Sides, Close(x)
  PROVE  NetInv' /\ KernelInv' /\ LearnedInv'
<1>1. /\ UNCHANGED <<opened, tcp, base, taken>>
      /\ wire' \cup outq' \subseteq wire \cup outq \cup {Fin(x)}
      /\ ~Connected'
  BY PutAdds DEF Close, Inv, TypeOK, Enter, Connected
<1>2. ASSUME NEW m, m = Fin(x) PROVE Honest(m)'
  <2>1. m.flags = "fin" /\ m.body = Nothing
    BY <1>2 DEF Fin, Segment
  <2> QED BY <1>1, <2>1, Bodies DEF Honest
<1> QED BY <1>1, <1>2, CoreStep

LEMMA ClientLearningStep ==
  ASSUME Inv, Onward, NEW m \in outq, ClientLearning(m)
  PROVE  NetInv' /\ KernelInv' /\ LearnedInv'
<1>1. /\ UNCHANGED <<opened, tcp, taken>>
      /\ wire' \cup outq' \subseteq wire \cup outq
  BY PutAdds DEF ClientLearning
<1>2. Connected' => TcpSteady
  BY <1>1, SameIsSteady DEF Onward
<1>3. CASE m.body # Marker
  BY <1>1, <1>2, <1>3, CoreStep DEF ClientLearning
<1>4. CASE m.body = Marker
  <2>1. Learn("client", m) /\ m \in Segments /\ Honest(m)
    BY <1>4 DEF ClientLearning, Inv, TypeOK, NetInv
  <2>2. phase'["client"] = "learned"
    BY <1>4, SidesAre DEF ClientLearning, Enter, Inv, TypeOK
  <2>3. /\ base'["proxy"] = base["proxy"]
        /\ base'["client"].seq = Plus(m.seq, 1) /\ base'["client"].ack = m.ack
    BY <2>1, LearnType, SidesAre DEF Inv
  <2>4. LearnedWell("client")
    BY <1>4, <2>1, <2>3, SidesAre DEF LearnedWell, Honest, Onward
  <2> QED BY <1>1, <1>2, <2>2, <2>3, <2>4, SidesAre, CoreStep
<1> QED BY <1>3, <1>4

LEMMA HearsStep ==
  ASSUME Inv, Onward, NEW x \in Sides, NEW m \in wire, m.from = Peer(x), Hears(x, m)
  PROVE  NetInv' /\ KernelInv' /\ LearnedInv'
<1>1. TypeOK /\ m \in Segments /\ Honest(m)
  BY DEF Inv, TypeOK, NetInv
<1>2. KernelGets(x, m) /\ UNCHANGED <<opened, taken>>
  BY HearsKernel
<1>3. Connected' => TcpSteady /\ (Unwritten => tcp'["proxy"].rcv = tcp["client"].nxt)
  BY KernelStep DEF TcpSteady, Onward
<1> DEFINE r == Segment(x, tcp[x].nxt, tcp'[x].rcv, "ack", Nothing)
<1>4. wire' \cup outq' \subseteq wire \cup outq \cup {r}
  BY <1>1, <1>2, KernelEffect
<1>5. ASSUME NEW n, n = r PROVE Honest(n)'
  <2>1. n.from = x /\ n.ack = tcp'[x].rcv /\ n.flags = "ack" /\ n.body = Nothing
    BY <1>5 DEF Segment
  <2>2. Connected' /\ x = "proxy" =>
           IF Unwritten' THEN n.ack = tcp'["client"].nxt
           ELSE n.ack = tcp'["client"].nxt => tcp'["proxy"].rcv = tcp'["client"].nxt
    BY <1>3, <2>1, SidesAre DEF Onward, TcpSteady
  <2> QED BY <2>1, <2>2, PlainHonest
<1>6. \A y \in Sides : base'[y] = base[y] \/ (phase'[y] = "learned" /\ LearnedWell(y))
  <2>1. CASE UNCHANGED base
    BY <2>1
  <2>2. CASE x = "proxy" /\ ProxyLearning(m) /\ m.body = Marker
    <3>1. Learn("proxy", m) /\ phase'["proxy"] = "learned"
      BY <2>2, SidesAre DEF ProxyLearning, Enter, Inv, TypeOK
    <3>2. /\ base'["client"] = base["client"]
          /\ base'["proxy"].seq = m.ack /\ base'["proxy"].ack = Plus(m.seq, 1)
      BY <1>1, <3>1, LearnType, SidesAre
    <3>3. LearnedWell("proxy")
      BY <1>1, <2>2, <3>2, SidesAre DEF LearnedWell, Honest, Onward
    <3> QED BY <3>1, <3>2, <3>3, SidesAre
  <2> QED BY <2>1, <2>2 DEF Hears, ProxyLearning, PassControl, PassBy
<1> HIDE DEF r
<1> QED BY <1>2, <1>3, <1>4, <1>5, <1>6, CoreStep

\* The marker is written: the client's number moves, and nothing that is on
\* its way acknowledges the new one.
LEMMA MarkerStep ==
  ASSUME Inv, OpenLearn("client")
  PROVE  NetInv' /\ KernelInv' /\ LearnedInv'
<1> DEFINE c == tcp["client"]
           n == Segment("client", c.nxt, c.rcv, "psh", Marker)
<1>1. /\ UNCHANGED <<base, wire, taken>> /\ opened \subseteq opened'
      /\ outq' = outq \cup {n}
      /\ tcp'["proxy"] = tcp["proxy"]
      /\ tcp'["client"].nxt = Plus(c.nxt, 1) /\ tcp'["client"].una = c.nxt
      /\ tcp'["client"].rcv = c.rcv
  BY SidesAre DEF OpenLearn, Inv, TypeOK
<1>2. /\ phase["client"] = "learnRule" /\ phase'["client"] = "learnQueue"
      /\ phase'["proxy"] = phase["proxy"]
      /\ Connected' => Connected
      /\ Unwritten /\ ~Unwritten'
  BY MarkerMove DEF Inv, Unwritten
<1>3. Connected => /\ tcp["proxy"].una = tcp["proxy"].nxt
                   /\ c.rcv = tcp["proxy"].nxt
                   /\ c.una = c.nxt /\ tcp["proxy"].rcv = c.nxt
  BY <1>2 DEF Inv, KernelInv
<1>4. Plus(c.nxt, 1) # c.nxt
  BY PlusOne, SidesAre DEF Inv, TypeOK, Numbers
<1>5. KernelInv'
  <2> SUFFICES ASSUME Connected' PROVE KernelInv'
    BY DEF KernelInv
  <2> QED BY <1>1, <1>2, <1>3 DEF KernelInv
<1>6. LearnedInv'
  <2>1. ASSUME NEW x \in Sides, base'[x].learned
        PROVE  phase'[x] \notin {"start", "learnRule", "learnQueue"} /\ ~Connected'
    BY <1>1, <1>2, <2>1, SidesAre DEF Inv, LearnedInv
  <2> QED BY <2>1 DEF LearnedInv
<1>7. ASSUME NEW m \in wire \cup outq PROVE Honest(m)'
  <2>1. Honest(m) /\ m \in Segments /\ m.from \in Sides
    BY DEF Inv, NetInv, TypeOK, Segments
  <2>2. /\ m.body \in {Nothing, Marker} \cup taken'[m.from]
        /\ m.body \in Packets => <<Peer(m.from), "tunnel">> \in opened'
        /\ m.flags = "fin" => ~Connected'
        /\ m.body = Marker => m.from = "client"
    BY <1>1, <1>2, <2>1 DEF Honest
  <2>3. Connected' => m.body # Marker
    BY <1>2, <2>1 DEF Honest
  <2>4. Connected' /\ m.from = "proxy" /\ m.body = Nothing => m.ack # tcp'["client"].nxt
    BY <1>1, <1>2, <1>4, <2>1 DEF Honest
  <2> QED BY <1>2, <2>2, <2>3, <2>4 DEF Honest
<1>8. ASSUME NEW m, m = n PROVE Honest(m)'
  <2>1. /\ m.from = "client" /\ m.seq = c.nxt /\ m.ack = c.rcv
        /\ m.flags = "psh" /\ m.body = Marker
    BY <1>8 DEF Segment
  <2>2. Connected' => Plus(m.seq, 1) = tcp'["client"].nxt /\ m.ack = tcp'["proxy"].nxt
    BY <1>1, <1>2, <1>3, <2>1
  <2> QED BY <1>2, <2>1, <2>2, Bodies DEF Honest
<1> HIDE DEF n
<1>9. NetInv'
  BY <1>1, <1>7, <1>8 DEF NetInv
<1> QED BY <1>5, <1>6, <1>9

LEMMA WrittenStep ==
  ASSUME Inv, Next
  PROVE  WrittenInv'
<1>1. \A x \in Sides : taken[x] \subseteq taken'[x]
  <2>1. ASSUME NEW x \in Sides, NEW p \in Packets, Forge(x, p)
        PROVE  \A y \in Sides : taken[y] \subseteq taken'[y]
    <3>1. taken' = [taken EXCEPT ![x] = @ \cup {p}]
      BY <2>1 DEF Forge
    <3>2. taken \in [Sides -> SUBSET Packets]
      BY DEF Inv, TypeOK
    <3> QED BY <3>1, <3>2
  <2>2. CASE UNCHANGED taken
    BY <2>2
  <2> QED BY <2>1, <2>2, ZenonT(40) DEF Next, Main, HookLearn, OpenLearn, UnhookLearn, HookTunnel,
        OpenTunnel, OpenPlane, KeepAlive, Stall, Leave, Close, Arrive, ProxyLearning,
        PassControl, WriteTun, WriteTunFails, Drop, PassBy, ClientLearning, Lose,
        Retransmit
<1>2. CASE UNCHANGED written
  BY <1>1, <1>2, SidesAre DEF Inv, WrittenInv, NothingInvented
<1>3. ASSUME NEW x \in Sides, NEW m \in wire, m.from = Peer(x), WriteTun(x, m)
      PROVE  WrittenInv'
  <2>1. written' = [written EXCEPT ![x] = @ \cup {m.body}] /\ taken' = taken
    BY <1>3 DEF WriteTun
  <2>2. m.body.version = 4 /\ m.body \in taken[Peer(x)]
    <3>1. m.body.version = 4 /\ 1 < m.body.len
      <4>1. Header <= m.body.len /\ m.body \in Payloads
        BY <1>3 DEF WriteTun, Extractable, Inv, TypeOK, Segments
      <4>2. m.body.len \in Nat
        BY <4>1, PacketsAssumption DEF Payloads, Nothing, Marker
      <4> QED BY <1>3, <4>1, <4>2, LengthsAssumption DEF WriteTun, Extractable
    <3>2. m.body \in {Nothing, Marker} \cup taken[Peer(x)]
      BY <1>3 DEF Inv, NetInv, Honest
    <3> QED BY <3>1, <3>2, Bodies
  <2>3. written \in [Sides -> SUBSET Payloads] /\ NothingInvented
    BY DEF Inv, TypeOK, WrittenInv
  <2>4. ASSUME NEW y \in Sides
        PROVE  written'[y] \subseteq {p \in taken[Peer(y)] : p.version = 4}
    <3>1. CASE y = x
      BY <2>1, <2>2, <2>3, <3>1 DEF NothingInvented
    <3>2. CASE y # x
      BY <2>1, <2>3, <3>2 DEF NothingInvented
    <3> QED BY <3>1, <3>2
  <2> QED BY <2>1, <2>4 DEF WrittenInv, NothingInvented
<1> QED BY <1>2, <1>3, ZenonT(40) DEF Next, Main, HookLearn, OpenLearn, UnhookLearn, HookTunnel,
      OpenTunnel, OpenPlane, KeepAlive, Stall, Leave, Close, Arrive, ProxyLearning,
      PassControl, WriteTunFails, Drop, PassBy, ClientLearning, Lose, Retransmit, Forge

LEMMA InvInit == Init => Inv
<1> SUFFICES ASSUME Init PROVE Inv
  OBVIOUS
<1>1. PICK c \in Starts, p \in Starts :
        tcp = [x \in Sides |-> LET n == IF x = "client" THEN c ELSE p
                                   r == IF x = "client" THEN p ELSE c
                               IN [nxt |-> n, una |-> n, rcv |-> r, probe |-> FALSE]]
  BY DEF Init
<1>2. c \in 0 .. Word - 1 /\ p \in 0 .. Word - 1 /\ 0 \in 0 .. Word - 1
  BY StartsAssumption, WordAssumption
<1>3. /\ tcp["client"] = [nxt |-> c, una |-> c, rcv |-> p, probe |-> FALSE]
      /\ tcp["proxy"] = [nxt |-> p, una |-> p, rcv |-> c, probe |-> FALSE]
  BY <1>1, SidesAre
<1>4. TypeOK
  <2>1. tcp \in [Sides -> [nxt : 0 .. Word - 1, una : 0 .. Word - 1,
                           rcv : 0 .. Word - 1, probe : BOOLEAN]]
    BY <1>1, <1>2
  <2> QED BY <1>2, <2>1 DEF Init, TypeOK, Phases
<1>5. NetInv /\ OpenInv /\ WrittenInv
  BY SidesAre DEF Init, NetInv, OpenInv, WrittenInv, NothingInvented
<1>6. KernelInv
  BY <1>3 DEF KernelInv
<1>7. LearnedInv
  BY DEF Init, LearnedInv
<1> QED BY <1>4, <1>5, <1>6, <1>7 DEF Inv

LEMMA InvStep == Inv /\ [Next]_vars => Inv'
<1> SUFFICES ASSUME Inv, [Next]_vars PROVE Inv'
  OBVIOUS
<1>1. TypeOK'
  BY TypeStep DEF Inv
<1>2. CASE UNCHANGED vars
  BY <1>1, <1>2 DEF vars, Inv, NetInv, Honest, KernelInv, LearnedInv, OpenInv,
    WrittenInv, NothingInvented, Connected, Unwritten
<1>3. CASE Next
  <2>1. OpenInv' /\ WrittenInv'
    BY <1>3, OpenStep, WrittenStep DEF Inv
  <2>2. CASE OpenLearn("client")
    BY <1>1, <2>1, <2>2, MarkerStep DEF Inv
  <2>3. CASE Onward
    <3>1. ASSUME NEW x \in Sides, Main(x), ~OpenLearn("client")
          PROVE  NetInv' /\ KernelInv' /\ LearnedInv'
      BY <2>3, <3>1, AsideStep DEF Main, HookLearn, OpenLearn, UnhookLearn,
        HookTunnel, OpenTunnel, OpenPlane
    <3>2. ASSUME NEW x \in Sides, Stall(x) \/ Leave(x)
          PROVE  NetInv' /\ KernelInv' /\ LearnedInv'
      BY <2>3, <3>2, AsideStep DEF Stall, Leave
    <3>3. ASSUME NEW x \in Sides, NEW m \in wire, Arrive(x, m)
          PROVE  NetInv' /\ KernelInv' /\ LearnedInv'
      <4>1. CASE WriteTun(x, m) \/ WriteTunFails(x, m) \/ Drop(x, m)
        BY <2>3, <4>1, AsideStep DEF WriteTun, WriteTunFails, Drop
      <4>2. CASE Hears(x, m)
        BY <2>3, <3>3, <4>2, HearsStep DEF Arrive
      <4> QED BY <3>3, <4>1, <4>2 DEF Arrive, Hears
    <3>4. ASSUME NEW m \in wire, Lose(m) PROVE NetInv' /\ KernelInv' /\ LearnedInv'
      BY <2>3, <3>4, AsideStep DEF Lose
    <3>5. (NetInv' /\ KernelInv' /\ LearnedInv') \/ OpenLearn("client")
      BY <1>3, <2>3, <3>1, <3>2, <3>3, <3>4, KeepAliveStep, RetransmitStep, ForgeStep,
        CloseStep, ClientLearningStep DEF Next
    <3> QED BY <1>1, <2>1, <2>2, <3>5 DEF Inv
  <2> QED BY <1>3, <2>2, <2>3, MovesOn DEF Inv
<1> QED BY <1>2, <1>3
-----------------------------------------------------------------------------
(***************************************************************************)
(* The theorems.                                                           *)
(***************************************************************************)

\* Every reachable state satisfies the invariant.
THEOREM InvAlways == Spec => []Inv
  BY InvInit, InvStep, PTL DEF Spec

\* Every variable keeps its type; the sums of the callbacks stay in a word
\* (client_nfqueue.cpp:248, proxy_nfqueue.cpp:259).
THEOREM TypeCorrect == Spec => []TypeOK
  BY InvAlways, PTL DEF Inv

\* Both sides learn the numbers of the connection, from whatever copy of the
\* marker (client_nfqueue.cpp:243-261, proxy_nfqueue.cpp:254-271).
THEOREM BasesAreTheSame == Spec => []BasesAgree
<1>1. Inv => BasesAgree
  BY DEF Inv, LearnedInv, BasesAgree
<1> QED BY <1>1, InvAlways, PTL

\* No forged segment gets into the stream of a kernel (proxy_nfqueue.cpp:574-605,
\* client_nfqueue.cpp:349-410).
THEOREM StreamStaysIntact == Spec => []StreamIntact
<1>1. Inv => StreamIntact
  BY SidesAre DEF Inv, KernelInv, StreamIntact
<1> QED BY <1>1, InvAlways, PTL

\* What is written to a tun device was read from the other
\* (client_nfqueue.cpp:315-410).
THEOREM NothingIsInvented == Spec => []NothingInvented
  BY InvAlways, PTL DEF Inv, WrittenInv
-----------------------------------------------------------------------------
(***************************************************************************)
(* The forged numbers: quotients and remainders, and then the step.        *)
(***************************************************************************)
LEMMA DivMod ==
  ASSUME NEW W \in Nat \ {0}, NEW a \in Int
  PROVE  /\ a % W \in 0 .. W - 1
         /\ \E q \in Int : a = W * q + (a % W)
<1>1. a \div W \in Int /\ a % W \in 0 .. W - 1 /\ a = W * (a \div W) + (a % W)
  OBVIOUS
<1> QED BY <1>1

LEMMA ModOf ==
  ASSUME NEW W \in Nat \ {0}, NEW q \in Int, NEW r \in 0 .. W - 1
  PROVE  (W * q + r) % W = r
  OBVIOUS

LEMMA Distributes ==
  ASSUME NEW W \in Int, NEW p \in Int, NEW q \in Int, NEW k \in Int
  PROVE  W * (q - p + k) = W * q - W * p + W * k
  OBVIOUS

LEMMA ModDifference ==
  ASSUME NEW W \in Nat \ {0}, NEW a \in Int, NEW b \in Int
  PROVE  ((b % W) - (a % W)) % W = (b - a) % W
<1> DEFINE d == (b % W) - (a % W)
<1>1. PICK p \in Int : a = W * p + (a % W)
  BY DivMod
<1>2. PICK q \in Int : b = W * q + (b % W)
  BY DivMod
<1>3. a % W \in Int /\ b % W \in Int /\ d \in Int
  BY DivMod
<1>4. d % W \in 0 .. W - 1 /\ \E k \in Int : d = W * k + (d % W)
  <2> HIDE DEF d
  <2> QED BY <1>3, DivMod
<1>5. PICK k \in Int : d = W * k + (d % W)
  BY <1>4
<1>6. b - a = W * (q - p + k) + (d % W)
  <2>1. W * (q - p + k) = W * q - W * p + W * k
    BY Distributes
  <2>2. d % W \in Int /\ W * q \in Int /\ W * p \in Int /\ W * k \in Int
    BY <1>4
  <2> DEFINE ra == a % W
             rb == b % W
             rd == d % W
             P  == W * p
             Q  == W * q
             K  == W * k
  <2>3. /\ ra \in Int /\ rb \in Int /\ rd \in Int
        /\ P \in Int /\ Q \in Int /\ K \in Int
        /\ a = P + ra /\ b = Q + rb /\ rb - ra = K + rd
    BY <1>1, <1>2, <1>3, <1>5, <2>2
  <2> HIDE DEF ra, rb, rd, P, Q, K
  <2>4. b - a = (Q - P + K) + rd
    BY <2>3
  <2> QED BY <2>1, <2>4 DEF P, Q, K, rd
<1>7. q - p + k \in Int
  OBVIOUS
<1> HIDE DEF d
<1>8. (b - a) % W = d % W
  BY <1>4, <1>6, <1>7, ModOf
<1> QED BY <1>8 DEF d

LEMMA ModSmall ==
  ASSUME NEW W \in Nat \ {0}, NEW a \in Nat
  PROVE  a % W <= a
  OBVIOUS

\* A tenth of the bytes grows with them, and never faster.
LEMMA OffsetGrows ==
  ASSUME NEW a \in Nat, NEW k \in Nat
  PROVE  /\ Offset(a) \in Nat /\ Offset(a + k) \in Nat
         /\ Offset(a) <= Offset(a + k)
         /\ Offset(a + k) - Offset(a) <= k
  BY DEF Offset

LEMMA PlusGrows ==
  ASSUME NEW n \in Int, NEW i \in Nat, NEW j \in Nat, i <= j
  PROVE  (Plus(n, j) - Plus(n, i)) % Word <= j - i
<1>1. Word \in Nat \ {0}
  BY WordAssumption
<1>2. n + j \in Int /\ n + i \in Int /\ (n + j) - (n + i) = j - i /\ j - i \in Nat
  OBVIOUS
<1>3. (Plus(n, j) - Plus(n, i)) % Word = (j - i) % Word
  <2>1. (Plus(n, j) - Plus(n, i)) % Word = ((n + j) - (n + i)) % Word
    BY <1>1, <1>2, ModDifference, Zenon DEF Plus
  <2> QED BY <1>2, <2>1
<1> QED BY <1>1, <1>2, <1>3, ModSmall

\* What is learned stays, and bytes are counted only when they are sent.
LEMMA NumbersStep ==
  ASSUME Inv, [Next]_vars, NEW x \in Sides, base[x].learned
  PROVE  /\ base'[x] = base[x]
         /\ \E k \in Nat : sent'[x] = sent[x] + k
<1>0. /\ sent[x] \in Nat /\ sent[x] + 0 = sent[x]
      /\ phase[x] # "learnQueue"
  BY DEF Inv, TypeOK, LearnedInv
<1> DEFINE Goal == base'[x] = base[x] /\ \E k \in Nat : sent'[x] = sent[x] + k
<1>1. CASE UNCHANGED <<base, sent>>
  BY <1>0, <1>1
<1>2. ASSUME NEW m, ClientLearning(m) PROVE Goal
  <2>1. /\ phase["client"] = "learnQueue" /\ UNCHANGED sent
        /\ Learn("client", m) \/ UNCHANGED base
    BY <1>2 DEF ClientLearning
  <2>2. base'[x] = base[x]
    BY <1>0, <2>1 DEF Learn, Inv, TypeOK, Sides
  <2> QED BY <1>0, <2>1, <2>2
<1>3. ASSUME NEW m, ProxyLearning(m) PROVE Goal
  <2>1. /\ phase["proxy"] = "learnQueue" /\ UNCHANGED sent
        /\ Learn("proxy", m) \/ UNCHANGED base
    BY <1>3 DEF ProxyLearning
  <2>2. base'[x] = base[x]
    BY <1>0, <2>1 DEF Learn, Inv, TypeOK, Sides
  <2> QED BY <1>0, <2>1, <2>2
<1>4. ASSUME NEW y \in Sides, NEW p \in Packets, Forge(y, p) PROVE Goal
  <2>1. base'[x] = base[x] /\ p.len \in Nat
    BY <1>4, Bodies DEF Forge
  <2>2. sent' = [sent EXCEPT ![y] = @ + p.len] /\ sent \in [Sides -> Nat]
    BY <1>4 DEF Forge, Inv, TypeOK
  <2>3. sent'[x] = sent[x] + p.len \/ sent'[x] = sent[x] + 0
    BY <1>0, <2>1, <2>2
  <2> QED BY <2>1, <2>3
<1>5. ASSUME NEW y \in Sides, Main(y) PROVE Goal
  <2>1. UNCHANGED <<base, sent>>
    BY <1>5 DEF Main, HookLearn, OpenLearn, UnhookLearn, HookTunnel, OpenTunnel, OpenPlane
  <2> QED BY <1>1, <2>1
<1>6. ASSUME NEW y \in Sides, KeepAlive(y) \/ Stall(y) \/ Leave(y) \/ Close(y) \/ Retransmit
      PROVE  Goal
  <2>1. UNCHANGED <<base, sent>>
    BY <1>6 DEF KeepAlive, Stall, Leave, Close, Retransmit
  <2> QED BY <1>1, <2>1
<1>7. ASSUME NEW y \in Sides, NEW m, Arrive(y, m) PROVE Goal
  <2>1. ProxyLearning(m) \/ UNCHANGED <<base, sent>>
    BY <1>7 DEF Arrive, PassControl, WriteTun, WriteTunFails, Drop, PassBy
  <2> QED BY <1>1, <1>3, <2>1
<1>8. ASSUME NEW m, Lose(m) PROVE Goal
  BY <1>1, <1>8 DEF Lose
<1>9. CASE UNCHANGED vars
  BY <1>1, <1>9 DEF vars
<1> QED BY <1>2, <1>4, <1>5, <1>6, <1>7, <1>8, <1>9, SidesAre DEF Next

\* A forged segment starts within the one before it, or where that one ends,
\* whatever Word is and however often the numbers wrap.
THEOREM NumbersHaveNoHole == Spec => NoHole
<1>1. ASSUME Inv, [Next]_vars, NEW x \in Sides, base[x].learned
      PROVE  (NextSeq(x)' - NextSeq(x)) % Word <= sent'[x] - sent[x]
  <2>1. PICK k \in Nat : base'[x] = base[x] /\ sent'[x] = sent[x] + k
    BY <1>1, NumbersStep
  <2>2. sent[x] \in Nat /\ base[x].seq \in Int
    BY <1>1, WordAssumption DEF Inv, TypeOK
  <2> DEFINE i == Offset(sent[x])
             j == Offset(sent[x] + k)
  <2>3. i \in Nat /\ j \in Nat /\ i <= j /\ j - i <= k
    BY <2>2, OffsetGrows
  <2>4. NextSeq(x) = Plus(base[x].seq, i) /\ NextSeq(x)' = Plus(base[x].seq, j)
    BY <2>1 DEF NextSeq
  <2> HIDE DEF i, j
  <2>5. (Plus(base[x].seq, j) - Plus(base[x].seq, i)) % Word <= j - i
    BY <2>2, <2>3, PlusGrows
  <2>6. (NextSeq(x)' - NextSeq(x)) % Word \in Int
    <3>1. Plus(base[x].seq, j) \in Int /\ Plus(base[x].seq, i) \in Int
      BY <2>2, <2>3, WordAssumption DEF Plus
    <3> QED BY <2>4, <3>1, WordAssumption
  <2> QED BY <2>1, <2>2, <2>3, <2>4, <2>5, <2>6
<1>2. Inv /\ [Next]_vars =>
        [\A x \in Sides : base[x].learned =>
           (NextSeq(x)' - NextSeq(x)) % Word <= sent'[x] - sent[x]]_vars
  BY <1>1
<1> QED BY <1>2, InvAlways, PTL DEF Spec, NoHole
=============================================================================
