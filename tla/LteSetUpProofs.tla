-------------------------- MODULE LteSetUpProofs --------------------------
(***************************************************************************)
(* Proofs about LteSetUp: every pairing of a client with a session opens   *)
(* its queues and data planes in the order of SetUpOrder, for any clients, *)
(* any number of sessions and any set of faults.                           *)
(***************************************************************************)
EXTENDS LteSetUp, LteControlProofs
-----------------------------------------------------------------------------
(***************************************************************************)
(* The invariant.  The note keeps what is, or was, open: nothing gets past *)
(* the learning of either side, or past the opening of its tunnel queue,   *)
(* without it, and PROXY_LEARN_READY speaks of a queue that is in it.      *)
(***************************************************************************)
OpenedInv ==
  /\ opened \in [Pairings -> SUBSET (Order!Sides \X Order!Stages)]
  /\ \A p \in Pairings : OpenOf(p) \subseteq opened[p]

ClientNotes(c, s) ==
  cl[c].pn = s =>
    /\ cl[c].tunnel # "off" => <<"client", "learn">> \in opened[<<c, s>>]
    /\ QueueOpened(cl[c])   => <<"client", "tunnel">> \in opened[<<c, s>>]
    /\ "learnReady" \in cl[c].got => <<"proxy", "learn">> \in opened[<<c, s>>]

SessionNotes(c, s) ==
  px[s].cn = c =>
    /\ px[s].pc \in {"learn", "consume"} \/ px[s].tunnel # "off"
                           => <<"proxy", "learn">> \in opened[<<c, s>>]
    /\ QueueOpened(px[s])  => <<"proxy", "tunnel">> \in opened[<<c, s>>]

NetNotes(c, s) ==
  LearnReady(c, s) \in net => <<"proxy", "learn">> \in opened[<<c, s>>]

Notes == \A c \in Clients, s \in Sessions :
           ClientNotes(c, s) /\ SessionNotes(c, s) /\ NetNotes(c, s)

\* Who has left the READY handshake has its answer.
Answered ==
  /\ \A c \in Clients : cl[c].pc \in {"settle", "build"} => "readyAck" \in cl[c].got
  /\ \A s \in Sessions : px[s].pc = "build" => "startAck" \in px[s].got

HInv == Inv /\ OpenedInv /\ Notes /\ Answered
-----------------------------------------------------------------------------
(***************************************************************************)
(* What a step may do to a client, to a session and to the network, as far *)
(* as the invariant looks.                                                 *)
(***************************************************************************)

\* Nothing is open in u that is not open in t.
NoneOpens(t, u) == /\ u.pc = "learn"     => t.pc = "learn"
                   /\ u.tunnel = "ready" => t.tunnel = "ready"
                   /\ u.plane            => t.plane

\* w alone is open in u and need not be in t.
OneOpens(t, u, w) == /\ u.pc = "learn"     => t.pc = "learn" \/ w = "learn"
                     /\ u.tunnel = "ready" => t.tunnel = "ready" \/ w = "tunnel"
                     /\ u.plane            => t.plane \/ w = "plane"
                     /\ w \in OpenIn(u)

ClientMoves(c) ==
  /\ \/ cl'[c].pn = cl[c].pn
     \/ NoneOpens(InitClient, cl'[c]) /\ cl'[c].tunnel = "off" /\ cl'[c].got = {}
  /\ cl'[c].tunnel # "off" => cl[c].tunnel # "off" \/ cl[c].pc = "learn"
  /\ QueueOpened(cl'[c]) => QueueOpened(cl[c]) \/ cl'[c].tunnel = "ready"
  /\ "learnReady" \in cl'[c].got =>
       "learnReady" \in cl[c].got \/ LearnReady(c, cl[c].pn) \in net
  /\ "readyAck" \in cl[c].got => "readyAck" \in cl'[c].got
  /\ cl'[c].pc \in {"settle", "build"} =>
       cl[c].pc \in {"settle", "build"} \/ "readyAck" \in cl[c].got

SessionMoves(s) ==
  /\ \/ px'[s].cn = px[s].cn
     \/ /\ NoneOpens(InitSession, px'[s]) /\ px'[s].tunnel = "off"
        /\ px'[s].pc \notin {"learn", "consume"}
  /\ px'[s].pc = "consume" => px[s].pc \in {"learn", "consume"}
  /\ px'[s].tunnel # "off" => px[s].tunnel # "off" \/ px[s].pc = "consume"
  /\ QueueOpened(px'[s]) => QueueOpened(px[s]) \/ px'[s].tunnel = "ready"
  /\ "startAck" \in px[s].got => "startAck" \in px'[s].got
  /\ px'[s].pc = "build" => px[s].pc = "build" \/ "startAck" \in px[s].got

NetMoves(c, s) == LearnReady(c, s) \in net' =>
                    \/ LearnReady(c, s) \in net
                    \/ px'[s].pc = "learn" /\ px'[s].cn = c

\* When a client opens what it opens, and when a session does.
ClientMay(c, w) == \/ w = "learn"  /\ "learnReady" \in cl[c].got
                   \/ w = "tunnel" /\ cl[c].tunnel # "off"
                   \/ w = "plane"  /\ cl[c].pc = "build"

SessionMay(s, w) == \/ w = "learn"
                    \/ w = "tunnel" /\ px[s].tunnel # "off"
                    \/ w = "plane"  /\ px[s].pc = "build"

ClientOpens(c, w) == /\ ClientMay(c, w)
                     /\ OneOpens(cl[c], cl'[c], w)
                     /\ cl'[c].pn = cl[c].pn
                     /\ px' = px
                     /\ \A d \in Clients \ {c} : cl'[d] = cl[d]

SessionOpens(s, w) == /\ SessionMay(s, w)
                      /\ OneOpens(px[s], px'[s], w)
                      /\ px'[s].cn = px[s].cn
                      /\ cl' = cl
                      /\ \A r \in Sessions \ {s} : px'[r] = px[r]

NobodyOpens == /\ \A c \in Clients : NoneOpens(cl[c], cl'[c])
               /\ \A s \in Sessions : NoneOpens(px[s], px'[s])

Moves == /\ \A c \in Clients : ClientMoves(c)
         /\ \A s \in Sessions : SessionMoves(s)
         /\ \A c \in Clients, s \in Sessions : NetMoves(c, s)
         /\ \/ NobodyOpens
            \/ \E c \in Clients, w \in Order!Stages : ClientOpens(c, w)
            \/ \E s \in Sessions, w \in Order!Stages : SessionOpens(s, w)

\* A step that changes one client at most, and asks for no learning.
LEMMA ClientMoved ==
  ASSUME NEW c \in Clients, ClientMoves(c), px' = px,
         \A d \in Clients \ {c} : cl'[d] = cl[d],
         \A d \in Clients, s \in Sessions : LearnReady(d, s) \in net' => LearnReady(d, s) \in net,
         NoneOpens(cl[c], cl'[c]) \/ \E w \in Order!Stages : ClientOpens(c, w)
  PROVE  Moves
<1>1. \A d \in Clients : ClientMoves(d)
  BY DEF ClientMoves
<1>2. \A s \in Sessions : SessionMoves(s)
  BY DEF SessionMoves
<1>3. \A d \in Clients, s \in Sessions : NetMoves(d, s)
  BY DEF NetMoves
<1>4. NobodyOpens \/ \E w \in Order!Stages : ClientOpens(c, w)
  BY DEF NobodyOpens, NoneOpens
<1> QED BY <1>1, <1>2, <1>3, <1>4 DEF Moves

\* The same of a session.
LEMMA SessionMoved ==
  ASSUME NEW s \in Sessions, SessionMoves(s), cl' = cl,
         \A r \in Sessions \ {s} : px'[r] = px[r],
         \A c \in Clients, r \in Sessions : NetMoves(c, r),
         NoneOpens(px[s], px'[s]) \/ \E w \in Order!Stages : SessionOpens(s, w)
  PROVE  Moves
<1>1. \A c \in Clients : ClientMoves(c)
  BY DEF ClientMoves
<1>2. \A r \in Sessions : SessionMoves(r)
  BY DEF SessionMoves
<1>3. NobodyOpens \/ \E w \in Order!Stages : SessionOpens(s, w)
  BY DEF NobodyOpens, NoneOpens
<1> QED BY <1>1, <1>2, <1>3 DEF Moves

\* What the network keeps of a datagram, and what else is sent, asks for no
\* learning.
LEMMA NothingAsked ==
  ASSUME NEW c \in Clients, NEW s \in Sessions
  PROVE  /\ \A m : LearnReady(c, s) \in After(m) => LearnReady(c, s) \in net
         /\ \A d, r : LearnReady(c, s) \notin
              {Register(d), RegisterAck(d, r), Ready(d), ReadyAck(d, r), StartAck(r),
               StopToClient(d, r), StopToProxy(d, r)}
BY DEF After, LearnReady, Register, RegisterAck, Ready, ReadyAck, StartAck,
  StopToClient, StopToProxy

\* The steps of a client's main thread.
LEMMA ClientMainMoves ==
  ASSUME Inv, NEW c \in Clients, ClientMain(c)
  PROVE  Moves
<1>1. cl \in [Clients -> ClientState] /\ ClientReached(cl[c])
  BY DEF Inv, TypeOK, ClientLocal
<1>2. CASE StartLearn(c)
  <2>1. ClientMoves(c)
    BY <1>1, <1>2 DEF StartLearn, ClientMoves, ClientState, QueueOpened
  <2>2. ClientOpens(c, "learn")
    BY <1>1, <1>2 DEF StartLearn, ClientOpens, ClientMay, OneOpens, OpenIn, ClientState
  <2> QED BY <1>2, <2>1, <2>2, ClientMoved DEF StartLearn, Order!Stages, ClientOpens
<1>3. CASE OpenDataPlane(c)
  <2>1. ClientMoves(c)
    BY <1>1, <1>3 DEF OpenDataPlane, ClientMoves, ClientState, QueueOpened
  <2>2. ClientOpens(c, "plane")
    BY <1>1, <1>3 DEF OpenDataPlane, ClientOpens, ClientMay, OneOpens, OpenIn, ClientState
  <2> QED BY <1>3, <2>1, <2>2, ClientMoved DEF OpenDataPlane, Order!Stages, ClientOpens
<1>4. CASE \/ Connect(c) \/ LearnCapture(c) \/ WaitNfqDone(c) \/ ReadyDone(c) \/ SettleDone(c)
           \/ ClientInterrupt(c) \/ ClientClose(c) \/ ClientJoin(c)
  <2>1. /\ ClientMoves(c) /\ NoneOpens(cl[c], cl'[c])
        /\ \A d \in Clients \ {c} : cl'[d] = cl[d]
        /\ UNCHANGED <<px, net>>
    BY <1>1, <1>4 DEF Connect, LearnCapture, WaitNfqDone, ReadyDone, SettleDone,
      ClientInterrupt, ClientClose, ClientJoin, ClientGoto, ClientMoves, NoneOpens,
      ClientState, QueueOpened, ClientReached
  <2> QED BY <2>1, ClientMoved
<1>5. CASE SendStartAck(c) \/ ClientCleanup(c)
  <2>1. /\ ClientMoves(c) /\ NoneOpens(cl[c], cl'[c])
        /\ \A d \in Clients \ {c} : cl'[d] = cl[d]
        /\ px' = px
    BY <1>1, <1>5 DEF SendStartAck, ClientCleanup, ClientGoto, ClientMoves, NoneOpens,
      ClientState, QueueOpened, ClientReached
  <2>2. net' \subseteq net \cup {StartAck(cl[c].pn), StopToProxy(c, cl[c].pn)}
    BY <1>5 DEF SendStartAck, ClientCleanup
  <2> QED BY <2>1, <2>2, NothingAsked, ClientMoved
<1> QED BY <1>2, <1>3, <1>4, <1>5 DEF ClientMain

\* What a client sends.
LEMMA ClientSendMoves ==
  ASSUME Inv, NEW c \in Clients, ClientSend(c)
  PROVE  Moves
<1>1. ClientMoves(c) /\ NoneOpens(cl[c], cl'[c]) /\ UNCHANGED <<cl, px>>
  BY DEF ClientSend, RegisterSend, ReadySend, ClientMoves, NoneOpens
<1>2. net' \subseteq net \cup {Register(c), Ready(c)}
  BY DEF ClientSend, RegisterSend, ReadySend
<1> QED BY <1>1, <1>2, NothingAsked, ClientMoved

\* The steps of a client's helper threads.
LEMMA ClientThreadsMoves ==
  ASSUME Inv, NEW c \in Clients, ClientThreads(c)
  PROVE  Moves
<1>1. cl \in [Clients -> ClientState]
  BY DEF Inv, TypeOK
<1>2. CASE ClientTunnelReady(c)
  <2>1. ClientMoves(c)
    BY <1>1, <1>2 DEF ClientTunnelReady, ClientMoves, ClientState
  <2>2. ClientOpens(c, "tunnel")
    BY <1>1, <1>2 DEF ClientTunnelReady, ClientOpens, ClientMay, OneOpens, OpenIn, ClientState
  <2> QED BY <1>2, <2>1, <2>2, ClientMoved DEF ClientTunnelReady, Order!Stages, ClientOpens
<1>3. CASE ClientControlStop(c) \/ ClientControlExit(c) \/ ClientTunnelEnd(c)
  <2>1. /\ ClientMoves(c) /\ NoneOpens(cl[c], cl'[c])
        /\ \A d \in Clients \ {c} : cl'[d] = cl[d]
        /\ UNCHANGED <<px, net>>
    BY <1>1, <1>3 DEF ClientControlStop, ClientControlExit, ClientTunnelEnd, ClientMoves,
      NoneOpens, ClientState, QueueOpened
  <2> QED BY <2>1, ClientMoved
<1> QED BY <1>2, <1>3 DEF ClientThreads

\* The faults that strike a client.
LEMMA ClientFaultMoves ==
  ASSUME Inv, NEW c \in Clients, ClientFault(c)
  PROVE  Moves
<1>1. cl \in [Clients -> ClientState]
  BY DEF Inv, TypeOK
<1>2. /\ ClientMoves(c) /\ NoneOpens(cl[c], cl'[c])
      /\ \A d \in Clients \ {c} : cl'[d] = cl[d]
      /\ UNCHANGED <<px, net>>
  <2> USE <1>1 DEF ClientMoves, NoneOpens, ClientState, QueueOpened
  <2>1. CASE ClientFail(c) \/ ClientTimeout(c) \/ ClientEnter(c)
    BY <2>1 DEF ClientFail, ClientTimeout, ClientEnter, ClientAbandon
  <2>2. CASE ClientTunnelFail(c)
    BY <2>2 DEF ClientTunnelFail
  <2>3. CASE ClientRawFail(c) \/ ClientSignal(c)
    BY <2>3 DEF ClientRawFail, ClientSignal
  <2>4. CASE ClientCrash(c)
    BY <2>4 DEF ClientCrash
  <2> QED BY <2>1, <2>2, <2>3, <2>4 DEF ClientFault
<1> QED BY <1>2, ClientMoved

\* What a client receives.
LEMMA ClientRecvMoves ==
  ASSUME Inv, NEW c \in Clients, NEW m \in net, ClientRecv(c, m)
  PROVE  Moves
<1>1. cl \in [Clients -> ClientState] /\ ClientReached(cl[c])
  BY DEF Inv, TypeOK, ClientLocal
<1>2. px' = px /\ net' = After(m)
  BY DEF ClientRecv, RegisterRecv, ClientControlRecv
<1>3. /\ ClientMoves(c) /\ NoneOpens(cl[c], cl'[c])
      /\ \A d \in Clients \ {c} : cl'[d] = cl[d]
  <2> USE <1>1 DEF ClientMoves, NoneOpens, ClientState, QueueOpened, InitClient
  <2>1. CASE RegisterRecv(c, m)
    BY <2>1 DEF RegisterRecv, ClientReached
  <2>2. CASE ClientControlRecv(c, m)
    BY <2>2 DEF ClientControlRecv, LearnReady, ReadyAck
  <2> QED BY <2>1, <2>2 DEF ClientRecv
<1> QED BY <1>2, <1>3, NothingAsked, ClientMoved

\* The arrival of a marker, which a session may see.
LEMMA MarkerArriveMoves ==
  ASSUME Inv, NEW c \in Clients, MarkerArrive(c)
  PROVE  Moves
<1>1. cl \in [Clients -> ClientState] /\ px \in [Sessions -> ProxyState]
  BY DEF Inv, TypeOK
<1>2. \A d \in Clients : ClientMoves(d) /\ NoneOpens(cl[d], cl'[d])
  <2>1. \A d \in Clients : cl'[d] \in {cl[d], [cl[d] EXCEPT !.marker = "arrived"]}
    BY <1>1 DEF MarkerArrive
  <2>2. \A d \in Clients : cl[d] \in ClientState
    BY <1>1
  <2> QED BY <2>1, <2>2 DEF ClientMoves, NoneOpens, ClientState, QueueOpened
<1>3. \A s \in Sessions : SessionMoves(s) /\ NoneOpens(px[s], px'[s])
  BY <1>1 DEF MarkerArrive, SessionMoves, NoneOpens, ProxyState, QueueOpened
<1>4. \A d \in Clients, s \in Sessions : NetMoves(d, s)
  BY DEF MarkerArrive, NetMoves
<1> QED BY <1>2, <1>3, <1>4 DEF Moves, NobodyOpens

\* The steps of a session's main thread.
LEMMA ProxyMainMoves ==
  ASSUME Inv, NEW s \in Sessions, ProxyMain(s)
  PROVE  Moves
<1>1. px \in [Sessions -> ProxyState] /\ ProxyReached(px[s])
  BY DEF Inv, TypeOK, ProxyLocal
<1>2. CASE StartProxyLearn(s)
  <2>1. SessionMoves(s)
    BY <1>1, <1>2 DEF StartProxyLearn, SessionMoves, ProxyState, QueueOpened
  <2>2. SessionOpens(s, "learn")
    BY <1>1, <1>2 DEF StartProxyLearn, SessionOpens, SessionMay, OneOpens, OpenIn, ProxyState
  <2>3. \A c \in Clients, r \in Sessions : NetMoves(c, r)
    <3>1. px'[s].pc = "learn" /\ px'[s].cn = px[s].cn
      BY <1>1, <1>2 DEF StartProxyLearn, ProxyState
    <3> QED BY <1>2, <3>1 DEF StartProxyLearn, NetMoves, LearnReady
  <2> QED BY <2>1, <2>2, <2>3, SessionMoved DEF Order!Stages, SessionOpens
<1>3. CASE OpenProxyDataPlane(s)
  <2>1. SessionMoves(s)
    BY <1>1, <1>3 DEF OpenProxyDataPlane, SessionMoves, ProxyState, QueueOpened
  <2>2. SessionOpens(s, "plane")
    BY <1>1, <1>3 DEF OpenProxyDataPlane, SessionOpens, SessionMay, OneOpens, OpenIn, ProxyState
  <2>3. \A c \in Clients, r \in Sessions : NetMoves(c, r)
    BY <1>3 DEF OpenProxyDataPlane, NetMoves
  <2> QED BY <2>1, <2>2, <2>3, SessionMoved DEF Order!Stages, SessionOpens
<1>4. CASE \/ Accept(s) \/ ProxyLearnDone(s) \/ ProxyNfqDone(s) \/ ProxyReadyDone(s)
           \/ ProxyInterrupt(s) \/ ProxyClose(s) \/ ProxyJoin(s)
  <2>1. /\ SessionMoves(s) /\ NoneOpens(px[s], px'[s])
        /\ \A r \in Sessions \ {s} : px'[r] = px[r]
        /\ UNCHANGED <<cl, net>>
    BY <1>1, <1>4 DEF Accept, ProxyLearnDone, ProxyNfqDone, ProxyReadyDone, ProxyInterrupt,
      ProxyClose, ProxyJoin, SessionMoves, NoneOpens, ProxyState, QueueOpened, ProxyReached
  <2> QED BY <2>1, SessionMoved DEF NetMoves
<1>5. CASE ProxyCleanup(s)
  <2>1. /\ SessionMoves(s) /\ NoneOpens(px[s], px'[s])
        /\ \A r \in Sessions \ {s} : px'[r] = px[r]
        /\ cl' = cl
    BY <1>1, <1>5 DEF ProxyCleanup, SessionMoves, NoneOpens, ProxyState, QueueOpened
  <2>2. net' \subseteq net \cup {StopToClient(px[s].cn, s)}
    BY <1>5 DEF ProxyCleanup
  <2> QED BY <2>1, <2>2, NothingAsked, SessionMoved DEF NetMoves
<1> QED BY <1>2, <1>3, <1>4, <1>5 DEF ProxyMain

\* The READY_ACK of a session.
LEMMA ProxySendMoves ==
  ASSUME Inv, NEW s \in Sessions, ProxyReadySend(s)
  PROVE  Moves
<1>1. SessionMoves(s) /\ NoneOpens(px[s], px'[s]) /\ UNCHANGED <<cl, px>>
  BY DEF ProxyReadySend, SessionMoves, NoneOpens
<1>2. net' \subseteq net \cup {ReadyAck(px[s].cn, s)}
  BY DEF ProxyReadySend
<1> QED BY <1>1, <1>2, NothingAsked, SessionMoved DEF NetMoves

\* The steps of a session's helper threads.
LEMMA ProxyThreadsMoves ==
  ASSUME Inv, NEW s \in Sessions, ProxyThreads(s)
  PROVE  Moves
<1>1. px \in [Sessions -> ProxyState]
  BY DEF Inv, TypeOK
<1>2. \A c \in Clients, r \in Sessions : NetMoves(c, r)
  BY DEF ProxyThreads, ProxyTunnelReady, ProxyControlStop, ProxyControlExit, ProxyTunnelEnd,
    NetMoves
<1>3. CASE ProxyTunnelReady(s)
  <2>1. SessionMoves(s)
    BY <1>1, <1>3 DEF ProxyTunnelReady, SessionMoves, ProxyState
  <2>2. SessionOpens(s, "tunnel")
    BY <1>1, <1>3 DEF ProxyTunnelReady, SessionOpens, SessionMay, OneOpens, OpenIn, ProxyState
  <2> QED BY <1>2, <2>1, <2>2, SessionMoved DEF Order!Stages, SessionOpens
<1>4. CASE ProxyControlStop(s) \/ ProxyControlExit(s) \/ ProxyTunnelEnd(s)
  <2>1. /\ SessionMoves(s) /\ NoneOpens(px[s], px'[s])
        /\ \A r \in Sessions \ {s} : px'[r] = px[r]
        /\ cl' = cl
    BY <1>1, <1>4 DEF ProxyControlStop, ProxyControlExit, ProxyTunnelEnd, SessionMoves,
      NoneOpens, ProxyState, QueueOpened
  <2> QED BY <1>2, <2>1, SessionMoved
<1> QED BY <1>3, <1>4 DEF ProxyThreads

\* The faults that strike a session.
LEMMA ProxyFaultMoves ==
  ASSUME Inv, NEW s \in Sessions, ProxyFault(s)
  PROVE  Moves
<1>1. px \in [Sessions -> ProxyState]
  BY DEF Inv, TypeOK
<1>2. /\ SessionMoves(s) /\ NoneOpens(px[s], px'[s])
      /\ \A r \in Sessions \ {s} : px'[r] = px[r]
      /\ UNCHANGED <<cl, net>>
  BY <1>1 DEF ProxyFault, ProxyFail, ProxyTimeout, ProxyTunnelFail, ProxyRawFail, ProxyAbandon,
    SessionMoves, NoneOpens, ProxyState, QueueOpened
<1> QED BY <1>2, SessionMoved DEF NetMoves

\* What a session receives.
LEMMA ProxyRecvMoves ==
  ASSUME Inv, NEW s \in Sessions, NEW m \in net, ProxyRecv(s, m)
  PROVE  Moves
<1>1. px \in [Sessions -> ProxyState] /\ ProxyReached(px[s])
  BY DEF Inv, TypeOK, ProxyLocal
<1>2. cl' = cl /\ net' \subseteq After(m) \cup {RegisterAck(m.c, s)}
  BY DEF ProxyRecv, ProxyRegisterRecv, ProxyControlRecv
<1>3. /\ SessionMoves(s) /\ NoneOpens(px[s], px'[s])
      /\ \A r \in Sessions \ {s} : px'[r] = px[r]
  <2> USE <1>1 DEF SessionMoves, NoneOpens, ProxyState, QueueOpened, InitSession
  <2>1. CASE ProxyRegisterRecv(s, m)
    BY <2>1 DEF ProxyRegisterRecv, ProxyReached
  <2>2. CASE ProxyControlRecv(s, m)
    BY <2>2 DEF ProxyControlRecv
  <2> QED BY <2>1, <2>2 DEF ProxyRecv
<1> QED BY <1>2, <1>3, NothingAsked, SessionMoved DEF NetMoves

\* Every step.
LEMMA NextMoves ==
  ASSUME Inv, [Next]_vars
  PROVE  Moves
<1>1. CASE UNCHANGED <<cl, px>> /\ net' \subseteq net
  BY <1>1 DEF Moves, NobodyOpens, NoneOpens, ClientMoves, SessionMoves, NetMoves
<1>2. ASSUME NEW c \in Clients, ClientNext(c) PROVE Moves
  BY <1>2, ClientMainMoves, ClientSendMoves, ClientThreadsMoves, ClientFaultMoves,
    ClientRecvMoves, MarkerArriveMoves DEF ClientNext
<1>3. ASSUME NEW s \in Sessions, ProxyNext(s) PROVE Moves
  BY <1>3, ProxyMainMoves, ProxySendMoves, ProxyThreadsMoves, ProxyFaultMoves,
    ProxyRecvMoves DEF ProxyNext
<1> QED BY <1>1, <1>2, <1>3 DEF Next, ProxySignal, Lose, vars
-----------------------------------------------------------------------------
(* The invariant.                                                          *)

\* What is open after a step was open before it, but for what the step opens.
LEMMA OpenInMoves ==
  /\ \A t, u : NoneOpens(t, u) => OpenIn(u) \subseteq OpenIn(t)
  /\ \A t, u, w : OneOpens(t, u, w) => w \in OpenIn(u) /\ OpenIn(u) \subseteq OpenIn(t) \cup {w}
BY DEF NoneOpens, OneOpens, OpenIn

\* The note grows with what is open, pairing by pairing.
LEMMA NoteGrows ==
  ASSUME OpenedInv, HNext
  PROVE  /\ OpenedInv'
         /\ \A p \in Pairings : /\ opened[p] \subseteq opened'[p]
                                /\ opened'[p] = opened[p] \cup OpenOf(p)'
<1>1. opened' = [p \in Pairings |-> opened[p] \cup OpenOf(p)']
  BY DEF HNext
<1>2. \A p \in Pairings : OpenOf(p)' \subseteq Order!Sides \X Order!Stages
  BY DEF OpenOf, OpenIn, Order!Sides, Order!Stages
<1> QED BY <1>1, <1>2 DEF OpenedInv

\* The invariant holds before anything has happened.
LEMMA HInvInit ==
  ASSUME HInit
  PROVE  HInv
<1>1. Inv
  BY InvInit DEF HInit
<1>2. OpenedInv
  <2>1. \A p \in Pairings : OpenOf(p) = {}
    BY DEF OpenOf, OpenIn, HInit, Init, InitClient, InitSession, Pairings
  <2> QED BY <2>1 DEF HInit, OpenedInv
<1>3. Notes
  BY DEF HInit, Init, InitClient, InitSession, Notes, ClientNotes, SessionNotes, NetNotes,
    QueueOpened, LearnReady
<1>4. Answered
  BY DEF HInit, Init, InitClient, InitSession, Answered
<1> QED BY <1>1, <1>2, <1>3, <1>4 DEF HInv

\* Every step keeps it.
LEMMA HInvNext ==
  ASSUME HInv, [HNext]_hvars
  PROVE  HInv'
<1>1. CASE UNCHANGED hvars
  <2>1. OpenedInv' /\ Notes' /\ Answered'
    BY <1>1 DEF HInv, hvars, vars, OpenedInv, OpenOf, Notes, ClientNotes, SessionNotes,
      NetNotes, Answered
  <2> QED BY <1>1, <2>1, InvNext DEF HInv, hvars
<1>2. CASE HNext
  <2>1. Inv' /\ Moves
    BY <1>2, InvNext, NextMoves DEF HInv, HNext
  <2>2. /\ OpenedInv'
        /\ \A p \in Pairings : /\ opened[p] \subseteq opened'[p]
                               /\ OpenOf(p) \subseteq opened[p]
                               /\ OpenOf(p)' \subseteq opened'[p]
    BY <1>2, NoteGrows DEF HInv, OpenedInv
  <2>3. ASSUME NEW c \in Clients, NEW s \in Sessions
        PROVE  ClientNotes(c, s)' /\ SessionNotes(c, s)' /\ NetNotes(c, s)'
    <3> DEFINE p == <<c, s>>
    <3>1. /\ ClientNotes(c, s) /\ SessionNotes(c, s) /\ NetNotes(c, s)
          /\ ClientMoves(c) /\ SessionMoves(s) /\ NetMoves(c, s)
      BY <2>1 DEF HInv, Notes, Moves
    <3>2. p \in Pairings
      BY DEF Pairings
    <3>3. /\ opened[p] \subseteq opened'[p]
          /\ OpenOf(p) \subseteq opened[p]
          /\ OpenOf(p)' \subseteq opened'[p]
      BY <2>2, <3>2
    <3>4. /\ cl[c].pn = s /\ cl[c].pc = "learn" => <<"client", "learn">> \in OpenOf(p)
          /\ cl'[c].pn = s /\ cl'[c].tunnel = "ready" => <<"client", "tunnel">> \in OpenOf(p)'
      BY DEF OpenOf, OpenIn
    <3>5. /\ px'[s].cn = c /\ px'[s].pc = "learn" => <<"proxy", "learn">> \in OpenOf(p)'
          /\ px'[s].cn = c /\ px'[s].tunnel = "ready" => <<"proxy", "tunnel">> \in OpenOf(p)'
      BY DEF OpenOf, OpenIn
    <3> HIDE DEF p
    <3>6. ClientNotes(c, s)'
      <4>1. CASE cl'[c].pn # cl[c].pn
        BY <3>1, <4>1 DEF ClientMoves, ClientNotes, QueueOpened
      <4>2. CASE cl'[c].pn = cl[c].pn
        BY <3>1, <3>3, <3>4, <4>2 DEF ClientMoves, ClientNotes, NetNotes, p
      <4> QED BY <4>1, <4>2
    <3>7. SessionNotes(c, s)'
      <4>1. CASE px'[s].cn # px[s].cn
        BY <3>1, <4>1 DEF SessionMoves, SessionNotes, QueueOpened
      <4>2. CASE px'[s].cn = px[s].cn
        BY <3>1, <3>3, <3>5, <4>2 DEF SessionMoves, SessionNotes, p
      <4> QED BY <4>1, <4>2
    <3>8. NetNotes(c, s)'
      BY <3>1, <3>3, <3>5 DEF NetMoves, NetNotes, p, LearnReady
    <3> QED BY <3>6, <3>7, <3>8
  <2>4. Answered'
    BY <2>1 DEF Moves, ClientMoves, SessionMoves, HInv, Answered
  <2> QED BY <2>1, <2>2, <2>3, <2>4 DEF HInv, Notes
<1> QED BY <1>1, <1>2

\* The invariant holds throughout every run of the two programs.
LEMMA HInvAlways == HSpec => []HInv
BY HInvInit, HInvNext, PTL DEF HSpec
-----------------------------------------------------------------------------
(* The refinement.                                                         *)

\* A step in which nobody opens anything adds nothing to the note.
LEMMA NobodyNotes ==
  ASSUME HInv, HNext, Moves, NobodyOpens
  PROVE  opened' = opened
<1>1. ASSUME NEW p \in Pairings PROVE OpenOf(p)' \subseteq OpenOf(p)
  <2>1. p[1] \in Clients /\ p[2] \in Sessions /\ p[2] # 0 /\ p[1] # NoClient
    BY ClientsAssumption, SessionsAssumption DEF Pairings, Sessions
  <2>2. /\ NoneOpens(cl[p[1]], cl'[p[1]]) /\ NoneOpens(px[p[2]], px'[p[2]])
        /\ ClientMoves(p[1]) /\ SessionMoves(p[2])
    BY <2>1 DEF Moves, NobodyOpens
  <2>3. OpenIn(InitClient) = {} /\ OpenIn(InitSession) = {}
    BY DEF OpenIn, InitClient, InitSession
  <2>4. /\ cl'[p[1]].pn = cl[p[1]].pn \/ OpenIn(cl'[p[1]]) = {}
        /\ px'[p[2]].cn = px[p[2]].cn \/ OpenIn(px'[p[2]]) = {}
    BY <2>2, <2>3, OpenInMoves DEF ClientMoves, SessionMoves
  <2>5. /\ OpenIn(cl'[p[1]]) \subseteq OpenIn(cl[p[1]])
        /\ OpenIn(px'[p[2]]) \subseteq OpenIn(px[p[2]])
    BY <2>2, OpenInMoves
  <2> QED BY <2>4, <2>5 DEF OpenOf
<1>2. \A p \in Pairings : opened'[p] = opened[p]
  BY <1>1, NoteGrows DEF HInv, OpenedInv
<1> QED BY <1>2, NoteGrows DEF HInv, OpenedInv

\* A step in which one side of a pairing opens its w adds that to the pairing.
LEMMA OneNotes ==
  ASSUME HInv, HNext, NEW q \in Pairings, NEW e,
         OpenOf(q)' \subseteq OpenOf(q) \cup {e}, e \in OpenOf(q)',
         \A p \in Pairings \ {q} : OpenOf(p)' \subseteq OpenOf(p)
  PROVE  opened' = [opened EXCEPT ![q] = @ \cup {e}]
<1>1. \A p \in Pairings : opened'[p] = IF p = q THEN opened[p] \cup {e} ELSE opened[p]
  BY NoteGrows DEF HInv, OpenedInv
<1> QED BY <1>1, NoteGrows DEF HInv, OpenedInv

\* What a client opens it may open.
LEMMA ClientOrder ==
  ASSUME HInv, HNext, NEW c \in Clients, NEW w \in Order!Stages, ClientOpens(c, w)
  PROVE  [Order!Next]_opened
<1>1. OpenIn(cl'[c]) \subseteq OpenIn(cl[c]) \cup {w} /\ w \in OpenIn(cl'[c])
  BY OpenInMoves DEF ClientOpens
<1>2. \A p \in Pairings : p # <<c, cl[c].pn>> => OpenOf(p)' \subseteq OpenOf(p)
  <2>1. ASSUME NEW p \in Pairings, p # <<c, cl[c].pn>> PROVE OpenOf(p)' = OpenOf(p)
    <3>1. p[1] \in Clients /\ p = <<p[1], p[2]>>
      BY DEF Pairings
    <3>2. CASE p[1] # c
      BY <3>1, <3>2 DEF OpenOf, ClientOpens
    <3>3. CASE p[1] = c
      BY <2>1, <3>1, <3>3 DEF OpenOf, ClientOpens
    <3> QED BY <3>2, <3>3
  <2> QED BY <2>1
<1>3. CASE cl[c].pn \notin Sessions
  <2>1. \A p \in Pairings : p # <<c, cl[c].pn>>
    BY <1>3 DEF Pairings
  <2>2. \A p \in Pairings : opened'[p] = opened[p]
    BY <1>2, <2>1, NoteGrows DEF HInv, OpenedInv
  <2> QED BY <2>2, NoteGrows DEF HInv, OpenedInv
<1>4. ASSUME NEW s \in Sessions, cl[c].pn = s PROVE [Order!Next]_opened
  <2> DEFINE q == <<c, s>>
  <2>1. q \in Pairings
    BY <1>4 DEF Pairings
  <2>2. OpenOf(q)' \subseteq OpenOf(q) \cup {<<"client", w>>} /\ <<"client", w>> \in OpenOf(q)'
    BY <1>1, <1>4 DEF OpenOf, ClientOpens
  <2>3. opened' = [opened EXCEPT ![q] = @ \cup {<<"client", w>>}]
    <3>1. \A p \in Pairings \ {q} : OpenOf(p)' \subseteq OpenOf(p)
      BY <1>2, <1>4
    <3> HIDE DEF q
    <3> QED BY <2>1, <2>2, <3>1, OneNotes
  <2>4. ClientNotes(c, s) /\ px[s].cn = c /\ SessionNotes(c, s)
    BY <1>4 DEF HInv, Notes, Inv, GotFacts, ClientGotFact, Sessions
  <2>5. Order!Needs("client", w) \subseteq opened[q]
    <3>1. CASE w = "learn"
      BY <1>4, <2>4, <3>1 DEF ClientOpens, ClientMay, ClientNotes, Order!Needs
    <3>2. CASE w = "tunnel"
      BY <1>4, <2>4, <3>2 DEF ClientOpens, ClientMay, ClientNotes, Order!Needs
    <3>3. CASE w = "plane"
      <4>1. cl[c].pc = "build" /\ "readyAck" \in cl[c].got
        BY <3>3 DEF ClientOpens, ClientMay, HInv, Answered
      <4>2. QueueOpened(cl[c]) /\ QueueOpened(px[s])
        BY <1>4, <4>1 DEF HInv, Inv, ClientLocal, ClientReached, GotFacts, ClientGotFact
      <4>3. {<<"client", "tunnel">>, <<"proxy", "tunnel">>} \subseteq opened[q]
        BY <1>4, <2>4, <4>2 DEF ClientNotes, SessionNotes
      <4> QED BY <3>3, <4>3 DEF Order!Needs, Order!Sides
    <3> QED BY <3>1, <3>2, <3>3 DEF Order!Stages
  <2> QED BY <2>1, <2>3, <2>5 DEF Order!Next, Order!Open, Order!Sides
<1> QED BY <1>3, <1>4

\* What a session opens it may open.
LEMMA SessionOrder ==
  ASSUME HInv, HNext, NEW s \in Sessions, NEW w \in Order!Stages, SessionOpens(s, w)
  PROVE  [Order!Next]_opened
<1>1. OpenIn(px'[s]) \subseteq OpenIn(px[s]) \cup {w} /\ w \in OpenIn(px'[s])
  BY OpenInMoves DEF SessionOpens
<1>2. \A p \in Pairings : p # <<px[s].cn, s>> => OpenOf(p)' \subseteq OpenOf(p)
  <2>1. ASSUME NEW p \in Pairings, p # <<px[s].cn, s>> PROVE OpenOf(p)' = OpenOf(p)
    <3>1. p[2] \in Sessions /\ p = <<p[1], p[2]>>
      BY DEF Pairings
    <3>2. CASE p[2] # s
      BY <3>1, <3>2 DEF OpenOf, SessionOpens
    <3>3. CASE p[2] = s
      BY <2>1, <3>1, <3>3 DEF OpenOf, SessionOpens
    <3> QED BY <3>2, <3>3
  <2> QED BY <2>1
<1>3. CASE px[s].cn \notin Clients
  <2>1. \A p \in Pairings : p # <<px[s].cn, s>>
    BY <1>3 DEF Pairings
  <2>2. \A p \in Pairings : opened'[p] = opened[p]
    BY <1>2, <2>1, NoteGrows DEF HInv, OpenedInv
  <2> QED BY <2>2, NoteGrows DEF HInv, OpenedInv
<1>4. ASSUME NEW c \in Clients, px[s].cn = c PROVE [Order!Next]_opened
  <2> DEFINE q == <<c, s>>
  <2>1. q \in Pairings
    BY <1>4 DEF Pairings
  <2>2. OpenOf(q)' \subseteq OpenOf(q) \cup {<<"proxy", w>>} /\ <<"proxy", w>> \in OpenOf(q)'
    BY <1>1, <1>4 DEF OpenOf, SessionOpens
  <2>3. opened' = [opened EXCEPT ![q] = @ \cup {<<"proxy", w>>}]
    <3>1. \A p \in Pairings \ {q} : OpenOf(p)' \subseteq OpenOf(p)
      BY <1>2, <1>4
    <3> HIDE DEF q
    <3> QED BY <2>1, <2>2, <3>1, OneNotes
  <2>4. ClientNotes(c, s) /\ SessionNotes(c, s)
    BY <1>4 DEF HInv, Notes
  <2>5. Order!Needs("proxy", w) \subseteq opened[q]
    <3>1. CASE w = "learn"
      BY <3>1 DEF Order!Needs
    <3>2. CASE w = "tunnel"
      BY <1>4, <2>4, <3>2 DEF SessionOpens, SessionMay, SessionNotes, Order!Needs
    <3>3. CASE w = "plane"
      <4>1. px[s].pc = "build" /\ "startAck" \in px[s].got
        BY <3>3 DEF SessionOpens, SessionMay, HInv, Answered
      <4>2. QueueOpened(px[s]) /\ cl[c].pn = s /\ QueueOpened(cl[c])
        BY <1>4, <4>1 DEF HInv, Inv, ProxyLocal, ProxyReached, GotFacts, ProxyGotFact, StartAcked
      <4>3. {<<"client", "tunnel">>, <<"proxy", "tunnel">>} \subseteq opened[q]
        BY <1>4, <2>4, <4>2 DEF ClientNotes, SessionNotes
      <4> QED BY <3>3, <4>3 DEF Order!Needs, Order!Sides
    <3> QED BY <3>1, <3>2, <3>3 DEF Order!Stages
  <2> QED BY <2>1, <2>3, <2>5 DEF Order!Next, Order!Open, Order!Sides
<1> QED BY <1>3, <1>4

\* The pairings of clients and sessions open their queues and data planes in
\* the order of SetUpOrder.
THEOREM SetUpIsInOrder == HSpec => SetUpInOrder
<1>1. HInit => Order!Init
  BY DEF HInit, Order!Init
<1>2. ASSUME HInv, [HNext]_hvars PROVE [Order!Next]_opened
  <2>1. CASE UNCHANGED hvars
    BY <2>1 DEF hvars
  <2>2. CASE HNext
    <3>1. Moves
      BY <2>2, <1>2, NextMoves DEF HInv, HNext
    <3>2. CASE NobodyOpens
      BY <1>2, <2>2, <3>1, <3>2, NobodyNotes
    <3> QED BY <1>2, <2>2, <3>1, <3>2, ClientOrder, SessionOrder DEF Moves
  <2> QED BY <1>2, <2>1, <2>2
<1>3. HInv /\ [HNext]_hvars => [Order!Next]_opened
  BY <1>2
<1> QED BY <1>1, <1>3, HInvAlways, PTL DEF HSpec, SetUpInOrder, Order!Spec
=============================================================================
