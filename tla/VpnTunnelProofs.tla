--------------------------- MODULE VpnTunnelProofs ---------------------------
(***************************************************************************)
(* What the two programs of the VPN leave on their hosts, and that the     *)
(* connection never runs through its own tunnel, for every supply of       *)
(* packets, every window and every number of rules: proofs about VpnTunnel.*)
(*                                                                         *)
(* The invariant says of every phase of a main what is on the host then,   *)
(* and that a worker lives only between the start of the threads and their *)
(* join: where SIGPIPE may find it.                                        *)
(***************************************************************************)
EXTENDS VpnTunnel, TLAPS

Phases == MainPhases("client") \cup MainPhases("proxy")

Live == {"check", "read", "send"}

ThreadTypes ==
  /\ main \in [Sides -> Phases]
  /\ \A x \in Sides : main[x] \in MainPhases(x)
  /\ up \in [Sides -> Live \cup {"none", "over"}]

\* A worker lives only while its main is between start and join.
Working == {"up", "stopping", "restored", "unrouted", "join"}

WorkerInv == \A x \in Sides : up[x] \in Live => main[x] \in Working

\* The client's routes in every phase of its main.
ClientInv ==
  /\ main["client"] # "lost"
  /\ main["client"] \in {"start", "tun"} => ~except /\ gateway = "gateway"
  /\ main["client"] \in {"routed", "connected"} => except /\ gateway = "gateway"
  /\ main["client"] \in {"up", "stopping"} => except /\ gateway = "tun"
  /\ main["client"] = "restored" => gateway = "gateway"
  /\ main["client"] \in {"unrouted", "join", "ended"} => ~except /\ gateway = "gateway"
  /\ main["client"] = "killed" => gateway # "tun"

\* The phases in which the proxy has no rule.
ProxyInv == main["proxy"] \in {"listen", "accepted", "joined", "ended"} => nat = 0

Inv == ThreadTypes /\ WorkerInv /\ ClientInv /\ ProxyInv

LEMMA SidesAre == Sides = {"client", "proxy"} /\ "client" # "proxy"
  BY DEF Sides
-----------------------------------------------------------------------------
(***************************************************************************)
(* Steps that leave the mains alone: a worker stays alive or ends.         *)
(***************************************************************************)
LEMMA QuietSteps ==
  ASSUME Inv,
         \/ \E x \in Sides : \/ UpCheck(x) \/ ReadTun(x) \/ ReadNothing(x)
                             \/ SendSome(x) \/ SendFails(x) \/ ReadFails(x)
                             \/ Down(x) \/ WriteFails(x) \/ Reset(x)
         \/ SendInterrupted \/ RecvInterrupted \/ Signal \/ AddRule
  PROVE  /\ UNCHANGED <<main, gateway, except>>
         /\ nat' = nat \/ main["proxy"] = "tun"
         /\ up' \in [Sides -> Live \cup {"none", "over"}]
         /\ \A x \in Sides : up'[x] \in Live => up[x] \in Live
<1> USE DEF Inv, ThreadTypes, threads, socket, data, host
<1>1. ASSUME NEW x \in Sides, UpCheck(x) \/ ReadTun(x) \/ ReadNothing(x)
      PROVE  /\ UNCHANGED <<main, gateway, except, nat>>
             /\ \E w \in Live \cup {"over"} : up' = [up EXCEPT ![x] = w]
             /\ up[x] \in Live
  BY <1>1 DEF UpCheck, ReadTun, ReadNothing, Live
<1>2. ASSUME NEW x \in Sides, SendSome(x)
      PROVE  /\ UNCHANGED <<main, gateway, except, nat>>
             /\ \E w \in Live \cup {"over"} : up' = [up EXCEPT ![x] = w]
             /\ up[x] \in Live
  BY <1>2 DEF SendSome, Live
<1>3. ASSUME NEW x \in Sides, SendFails(x) \/ ReadFails(x)
      PROVE  /\ UNCHANGED <<main, gateway, except, nat>>
             /\ \E w \in Live \cup {"over"} : up' = [up EXCEPT ![x] = w]
             /\ up[x] \in Live
  BY <1>3 DEF SendFails, ReadFails, UpOver, Live
<1>4. CASE SendInterrupted
  BY <1>4, SidesAre DEF SendInterrupted, UpOver, Live
<1>5. ASSUME NEW x \in Sides, Down(x) \/ WriteFails(x) \/ Reset(x)
      PROVE  UNCHANGED <<main, up, gateway, except, nat>>
  BY <1>5 DEF Down, WriteFails, Reset, DownCheck, RecvSome, RecvEnds, WriteTun,
    PoppedAll, DownOver
<1>6. CASE RecvInterrupted \/ Signal \/ AddRule
  BY <1>6 DEF RecvInterrupted, Signal, AddRule
<1>7. ASSUME NEW x \in Sides, NEW w \in Live \cup {"over"},
             up' = [up EXCEPT ![x] = w], up[x] \in Live
      PROVE  /\ up' \in [Sides -> Live \cup {"none", "over"}]
             /\ \A y \in Sides : up'[y] \in Live => up[y] \in Live
  BY <1>7
<1> QED BY <1>1, <1>2, <1>3, <1>4, <1>5, <1>6, <1>7
-----------------------------------------------------------------------------
(***************************************************************************)
(* Steps of a main: where it comes from, where it goes, and what it does   *)
(* to its host.                                                            *)
(***************************************************************************)
Moves(x, from, to) == main[x] \in from /\ \E p \in to : main' = [main EXCEPT ![x] = p]

\* One disjunct for each kind of step of the client's main.
ClientMoves ==
  /\ nat' = nat
  /\ \/ /\ Moves("client", {"start"}, {"tun"}) /\ up' = up
        /\ UNCHANGED <<gateway, except>>
     \/ /\ Moves("client", {"tun"}, {"routed"}) /\ up' = up
        /\ except' = TRUE /\ UNCHANGED gateway
     \/ /\ Moves("client", {"routed"}, {"connected"}) /\ up' = up
        /\ UNCHANGED <<gateway, except>>
     \/ /\ Moves("client", {"connected"}, {"up"})
        /\ up' = [up EXCEPT !["client"] = "check"]
        /\ gateway' = "tun" /\ UNCHANGED except
     \/ /\ Moves("client", {"start", "tun", "routed", "connected"}, {"ended"})
        /\ up' = up /\ except' = FALSE /\ UNCHANGED gateway
     \/ /\ Moves("client", {"up"}, {"stopping"}) /\ up' = up
        /\ UNCHANGED <<gateway, except>>
     \/ /\ Moves("client", {"stopping"}, {"restored"}) /\ up' = up
        /\ gateway' = "gateway" /\ UNCHANGED except
     \/ /\ Moves("client", {"restored"}, {"unrouted"}) /\ up' = up
        /\ except' = FALSE /\ UNCHANGED gateway
     \/ /\ Moves("client", {"unrouted"}, {"join"}) /\ up' = up
        /\ UNCHANGED <<gateway, except>>
     \/ /\ Moves("client", {"join"}, {"ended"}) /\ up' = up /\ up["client"] = "over"
        /\ UNCHANGED <<gateway, except>>
     \/ /\ Moves("client", Working, {"killed"})
        /\ up' = [up EXCEPT !["client"] = "over"]
        /\ gateway' = IF gateway = "tun" THEN "none" ELSE gateway
        /\ UNCHANGED except

\* The same for the proxy's.
ProxyMoves ==
  /\ UNCHANGED <<gateway, except>>
  /\ \/ /\ Moves("proxy", {"listen"}, {"accepted", "ended"}) /\ UNCHANGED <<up, nat>>
     \/ /\ Moves("proxy", {"accepted"}, {"tun", "ended"}) /\ UNCHANGED <<up, nat>>
     \/ /\ Moves("proxy", {"tun"}, {"lost"}) /\ UNCHANGED <<up, nat>>
     \/ /\ Moves("proxy", {"tun"}, {"up"}) /\ nat' = nat
        /\ up' = [up EXCEPT !["proxy"] = "check"]
     \/ /\ Moves("proxy", {"up"}, {"stopping"}) /\ UNCHANGED <<up, nat>>
     \/ /\ Moves("proxy", {"stopping"}, {"join"}) /\ UNCHANGED <<up, nat>>
     \/ /\ Moves("proxy", {"join"}, {"joined"}) /\ up["proxy"] = "over"
        /\ nat' = 0 /\ up' = up
     \/ /\ Moves("proxy", {"joined"}, {"ended"}) /\ UNCHANGED <<up, nat>>
     \/ /\ Moves("proxy", Working, {"killed"}) /\ nat' = nat
        /\ up' = [up EXCEPT !["proxy"] = "over"]

LEMMA ClientSteps ==
  ASSUME Inv,
         \/ OpenTun("client") \/ AddRoute \/ ConnectProxy \/ ReplaceDefault
         \/ ClientSetupFails \/ ClientStops \/ RestoreDefault \/ CleanupRoutes
         \/ Shutdown("client") \/ ClientCloses \/ Killed("client")
  PROVE  ClientMoves
<1> USE DEF ClientMoves, Moves, Enter, socket, data, host
<1>1. CASE OpenTun("client") \/ AddRoute \/ ConnectProxy
  BY <1>1 DEF OpenTun, AddRoute, ConnectProxy
<1>2. CASE ReplaceDefault
  BY <1>2 DEF ReplaceDefault, Start
<1>3. CASE ClientSetupFails \/ ClientStops
  BY <1>3 DEF ClientSetupFails, ClientStops
<1>4. CASE RestoreDefault \/ CleanupRoutes
  BY <1>4 DEF RestoreDefault, CleanupRoutes
<1>5. CASE Shutdown("client") \/ ClientCloses
  BY <1>5 DEF Shutdown, ClientCloses, Joined
<1>6. CASE Killed("client")
  <2>1. main["client"] \in Working
    BY <1>6, SidesAre DEF Killed, Inv, WorkerInv, Live
  <2> QED BY <1>6, <2>1 DEF Killed
<1> QED BY <1>1, <1>2, <1>3, <1>4, <1>5, <1>6

LEMMA ProxySteps ==
  ASSUME Inv,
         \/ AcceptClient \/ Unlisten \/ OpenTun("proxy") \/ ProxyTunFails \/ NatFails
         \/ StartProxy \/ ProxyStops \/ Shutdown("proxy") \/ CleanupNat
         \/ ProxyCloses \/ Killed("proxy")
  PROVE  ProxyMoves
<1> USE DEF ProxyMoves, Moves, Enter, socket, data, host
<1>1. CASE AcceptClient \/ Unlisten
  BY <1>1 DEF AcceptClient, Unlisten
<1>2. CASE OpenTun("proxy") \/ ProxyTunFails \/ NatFails
  BY <1>2, SidesAre DEF OpenTun, ProxyTunFails, NatFails
<1>3. CASE StartProxy \/ ProxyStops
  BY <1>3 DEF StartProxy, ProxyStops, Start
<1>4. CASE Shutdown("proxy") \/ CleanupNat \/ ProxyCloses
  BY <1>4, SidesAre DEF Shutdown, CleanupNat, ProxyCloses, Joined
<1>5. CASE Killed("proxy")
  <2>1. main["proxy"] \in Working
    BY <1>5, SidesAre DEF Killed, Inv, WorkerInv, Live
  <2> QED BY <1>5, <2>1, SidesAre DEF Killed
<1> QED BY <1>1, <1>2, <1>3, <1>4, <1>5

\* Every step is one of these.
LEMMA Kinds ==
  ASSUME Inv, Next
  PROVE  \/ ClientMoves
         \/ ProxyMoves
         \/ /\ UNCHANGED <<main, gateway, except>>
            /\ nat' = nat \/ main["proxy"] = "tun"
            /\ up' \in [Sides -> Live \cup {"none", "over"}]
            /\ \A x \in Sides : up'[x] \in Live => up[x] \in Live
<1>1. ASSUME NEW x \in Sides, Killed(x) PROVE ClientMoves \/ ProxyMoves
  BY <1>1, ClientSteps, ProxySteps, SidesAre
<1> QED BY <1>1, ClientSteps, ProxySteps, QuietSteps DEF Next, Up, Faults, ClientMain,
  ProxyMain, StopListening, AcceptFails
-----------------------------------------------------------------------------
LEMMA InvInit == Init => Inv
  BY SidesAre DEF Init, Inv, ThreadTypes, WorkerInv, ClientInv, ProxyInv, Live,
    Phases, MainPhases, Over

LEMMA InvStep == Inv /\ [Next]_vars => Inv'
<1> SUFFICES ASSUME Inv, [Next]_vars PROVE Inv'
  OBVIOUS
<1>1. CASE ClientMoves
  <2>1. ThreadTypes' /\ UNCHANGED main["proxy"]
    BY <1>1, SidesAre DEF ClientMoves, Moves, Inv, ThreadTypes, Phases, MainPhases,
      Over, Working, Live
  <2>2. ClientInv'
    BY <1>1, SidesAre DEF ClientMoves, Moves, Inv, ClientInv, ThreadTypes, Working
  <2>3. WorkerInv'
    BY <1>1, SidesAre DEF ClientMoves, Moves, Inv, WorkerInv, ThreadTypes, Working, Live
  <2>4. ProxyInv'
    BY <1>1, <2>1 DEF ClientMoves, Inv, ProxyInv
  <2> QED BY <2>1, <2>2, <2>3, <2>4 DEF Inv
<1>2. CASE ProxyMoves
  <2>1. ThreadTypes' /\ UNCHANGED main["client"]
    BY <1>2, SidesAre DEF ProxyMoves, Moves, Inv, ThreadTypes, Phases, MainPhases,
      Over, Working, Live
  <2>2. ClientInv'
    BY <1>2, <2>1 DEF ProxyMoves, Inv, ClientInv
  <2>3. WorkerInv'
    BY <1>2, SidesAre DEF ProxyMoves, Moves, Inv, WorkerInv, ThreadTypes, Working, Live
  <2>4. ProxyInv'
    BY <1>2, SidesAre DEF ProxyMoves, Moves, Inv, ProxyInv, ThreadTypes, Working
  <2> QED BY <2>1, <2>2, <2>3, <2>4 DEF Inv
<1>3. CASE /\ UNCHANGED <<main, gateway, except>>
           /\ nat' = nat \/ main["proxy"] = "tun"
           /\ up' \in [Sides -> Live \cup {"none", "over"}]
           /\ \A x \in Sides : up'[x] \in Live => up[x] \in Live
  BY <1>3 DEF Inv, ThreadTypes, WorkerInv, ClientInv, ProxyInv
<1>4. CASE UNCHANGED vars
  BY <1>4 DEF vars, threads, host, Inv, ThreadTypes, WorkerInv, ClientInv, ProxyInv
<1> QED BY <1>1, <1>2, <1>3, <1>4, Kinds

\* Every reachable state satisfies the invariant.
THEOREM InvAlways == Spec => []Inv
  BY InvInit, InvStep, PTL DEF Spec

\* The connection never runs through the tunnel it carries (main.cpp:77-98,
\* 120-121 of the client).
THEOREM ProxyStaysReachable == Spec => []ProxyReachable
<1>1. Inv => ProxyReachable
  BY SidesAre DEF Inv, ThreadTypes, ClientInv, ProxyReachable, MainPhases, Over
<1> QED BY <1>1, InvAlways, PTL
-----------------------------------------------------------------------------
\* A client and a proxy that come to their end give their hosts back: the
\* tunnel refines BorrowedHost on either side.
THEOREM HostsAreGivenBack == Spec => HostGivenBack
<1>1. Init => ClientBorrows!Init /\ ProxyBorrows!Init
  BY SidesAre DEF Init, ClientBorrows!Init, ProxyBorrows!Init, Phase, ClientMarks,
    ProxyMarks
<1>2. Inv /\ Inv' /\ [Next]_vars => [ClientBorrows!Next]_ClientBorrows!vars
  <2> SUFFICES ASSUME Inv, Inv', [Next]_vars
               PROVE  [ClientBorrows!Next]_ClientBorrows!vars
    OBVIOUS
  <2>1. CASE ClientMoves
    <3> USE DEF ClientBorrows!Next, ClientBorrows!vars, ClientBorrows!Borrow,
      ClientBorrows!Use, ClientBorrows!GiveBack, ClientBorrows!Lose, Phase, ClientMarks
    <3> QED
      BY <2>1, SidesAre DEF ClientMoves, Moves, Inv, ClientInv, ThreadTypes, Working
  <2>2. CASE UNCHANGED <<main["client"], gateway, except>>
    BY <2>2 DEF ClientBorrows!vars, Phase, ClientMarks
  <2>3. ProxyMoves => UNCHANGED <<main["client"], gateway, except>>
    BY SidesAre DEF ProxyMoves, Moves, Inv, ThreadTypes
  <2> QED BY <2>1, <2>2, <2>3, Kinds DEF vars, threads, host
<1>3. Inv /\ Inv' /\ [Next]_vars => [ProxyBorrows!Next]_ProxyBorrows!vars
  <2> SUFFICES ASSUME Inv, Inv', [Next]_vars
               PROVE  [ProxyBorrows!Next]_ProxyBorrows!vars
    OBVIOUS
  <2> USE DEF ProxyBorrows!Next, ProxyBorrows!vars, ProxyBorrows!Borrow,
    ProxyBorrows!Use, ProxyBorrows!GiveBack, ProxyBorrows!Lose, Phase, ProxyMarks
  <2>1. CASE ProxyMoves
    BY <2>1, SidesAre DEF ProxyMoves, Moves, Inv, ProxyInv, ThreadTypes, Working
  <2>2. CASE UNCHANGED <<main["proxy"], nat>>
    BY <2>2
  <2>3. CASE UNCHANGED main["proxy"] /\ main["proxy"] = "tun"
    BY <2>3
  <2>4. ClientMoves => UNCHANGED <<main["proxy"], nat>>
    BY SidesAre DEF ClientMoves, Moves, Inv, ThreadTypes
  <2> QED BY <2>1, <2>2, <2>3, <2>4, Kinds DEF vars, threads, host
<1> QED BY <1>1, <1>2, <1>3, InvAlways, PTL DEF Spec, HostGivenBack,
  ClientBorrows!Spec, ProxyBorrows!Spec
=============================================================================
