--------------------------- MODULE LteControlProofs ---------------------------
(***************************************************************************)
(* Proofs about LteControl: its safety invariants hold for any clients,    *)
(* any number of sessions and any set of faults.  One inductive invariant, *)
(* Inv, carries them all.                                                  *)
(***************************************************************************)
EXTENDS LteControl, TLAPS
-----------------------------------------------------------------------------
(***************************************************************************)
(* The inductive invariant.  ClientLocal and ProxyLocal say how far each   *)
(* main thread must have come for its other variables to have the values   *)
(* they have; they need nothing of the other side.  NetFacts and GotFacts  *)
(* say what a datagram in flight, and a note the control thread has made   *)
(* of one, imply about the side that sent it; both only name facts that no *)
(* step makes false again (ClientGrows, ProxyGrows).                       *)
(***************************************************************************)
ClientReached(t) ==
  /\ t.pc \in {"start", "register"} =>
       t.pn = 0 /\ t.control = "off" /\ t.got = {}
  /\ t.pc \in {"start", "register", "waitLearn"} => t.marker = "none"
  /\ t.pc \in {"start", "register", "waitLearn", "learn"} => t.tunnel = "off"
  /\ t.pc \in {"waitLearn", "learn", "waitNfq", "ready", "startAck"} => t.pn # 0
  /\ t.pc \in {"ready", "startAck", "settle", "build", "up"} => QueueOpened(t)
  /\ t.pc = "startAck" => "readyAck" \in t.got
  /\ t.done => "readyAck" \in t.got /\ QueueOpened(t)
  /\ t.marker # "none" => "learnReady" \in t.got
  /\ t.control # "off" \/ t.got # {} => t.pn # 0
  /\ t.plane => t.pc \in {"up", "cleanup", "closing"}
  /\ t.pc = "done" => t.control = "off" /\ t.tunnel \in {"off", "over", "failed"}

ClientLocal == \A c \in Clients : ClientReached(cl[c])

ProxyReached(t) ==
  /\ t.pc \in {"idle", "register"} =>
       t.cn = NoClient /\ t.control = "off" /\ t.got = {}
  /\ t.pc \in {"idle", "register", "learnInit", "learn", "consume"} =>
       t.tunnel = "off"
  /\ t.pc \in {"learnInit", "learn", "consume", "waitNfq", "ready"} =>
       t.cn \in Clients
  /\ t.pc \in {"ready", "build", "up"} => QueueOpened(t)
  /\ t.done => "startAck" \in t.got /\ QueueOpened(t)
  /\ t.control # "off" => t.cn \in Clients
  /\ t.plane => t.pc \in {"up", "cleanup", "closing"}
  /\ t.pc = "closed" => t.control = "off" /\ t.tunnel \in {"off", "over", "failed"}

ProxyLocal == \A s \in Sessions : /\ s > cur => px[s].pc = "idle"
                                 /\ ProxyReached(px[s])

LearnStarted(s) == px[s].pc \notin {"idle", "register", "learnInit"}

StartAcked(s) == /\ px[s].cn \in Clients
                 /\ cl[px[s].cn].pn = s
                 /\ QueueOpened(cl[px[s].cn])

ClientEnded(c, s) == cl[c].pn = s /\ cl[c].pc \in ClientEnding

NetFact(m) ==
  /\ m.type \in ToClient => /\ m.c \in Clients
                            /\ m.s \in Sessions
                            /\ px[m.s].cn = m.c
  /\ m.type = "learnReady"   => LearnStarted(m.s)
  /\ m.type = "readyAck"     => QueueOpened(px[m.s])
  /\ m.type = "stopToClient" => px[m.s].pc \in ProxyEnding
  /\ m.type = "register"     => m.c \in Clients
  /\ m.type = "startAck"     => m.s \in Sessions /\ StartAcked(m.s)
  /\ m.type = "stopToProxy"  => /\ m.c \in Clients /\ m.s # 0
                               /\ ClientEnded(m.c, m.s)

NetFacts == \A m \in net : NetFact(m)

ClientGotFact(c) ==
  /\ cl[c].pn # 0               => cl[c].pn \in Sessions /\ px[cl[c].pn].cn = c
  /\ "learnReady" \in cl[c].got => LearnStarted(cl[c].pn)
  /\ "readyAck"   \in cl[c].got => QueueOpened(px[cl[c].pn])
  /\ "stop"       \in cl[c].got => px[cl[c].pn].pc \in ProxyEnding

ProxyGotFact(s) ==
  /\ "startAck" \in px[s].got => StartAcked(s)
  /\ "stop"     \in px[s].got => px[s].cn \in Clients /\ ClientEnded(px[s].cn, s)

GotFacts == /\ \A c \in Clients : ClientGotFact(c)
            /\ \A s \in Sessions : ProxyGotFact(s)

MarkerFacts ==
  \A c \in Clients :
    cl[c].marker = "arrived" /\ px[cl[c].pn].conn = c => px[cl[c].pn].pc # "learn"

Inv == /\ TypeOK /\ ClientLocal /\ ProxyLocal
       /\ NetFacts /\ GotFacts /\ MarkerFacts
-----------------------------------------------------------------------------
(***************************************************************************)
(* What no step undoes, of a client that goes from t to u and of a session *)
(* that goes from t to u, and the part of a step that is local to a side.  *)
(***************************************************************************)
ClientGrows(t, u) == /\ t.pn # 0 => u.pn = t.pn
                     /\ QueueOpened(t) => QueueOpened(u)
                     /\ t.pc \in ClientEnding => u.pc \in ClientEnding

ProxyGrows(t, u) ==
  /\ t.cn # NoClient => u.cn = t.cn
  /\ QueueOpened(t) => QueueOpened(u)
  /\ t.pc \notin {"idle", "register", "learnInit"} =>
       u.pc \notin {"idle", "register", "learnInit"}
  /\ t.pc \in ProxyEnding => u.pc \in ProxyEnding
  /\ u.pc = "learn" => t.pc \in {"learnInit", "learn"} /\ u.conn = t.conn

LocalStep == /\ TypeOK' /\ ClientLocal' /\ ProxyLocal'
             /\ \A c \in Clients : ClientGrows(cl[c], cl'[c])
             /\ \A s \in Sessions : ProxyGrows(px[s], px'[s])

\* A step that gives one client a new state, reached and grown as the invariant
\* asks, and leaves the rest of the local state alone is a local step.
LEMMA ClientUpdated ==
  ASSUME TypeOK, ClientLocal, ProxyLocal,
         NEW c \in Clients, NEW t \in ClientState,
         ClientReached(t), ClientGrows(cl[c], t),
         cl' = [cl EXCEPT ![c] = t], UNCHANGED <<px, cur, psignal>>,
         backlog' \in Seq(Clients), net' \subseteq Messages
  PROVE  LocalStep
<1>1. TypeOK'
  BY DEF TypeOK
<1>2. ClientLocal' /\ \A d \in Clients : ClientGrows(cl[d], cl'[d])
  BY DEF TypeOK, ClientLocal, ClientGrows
<1>3. ProxyLocal' /\ \A s \in Sessions : ProxyGrows(px[s], px'[s])
  BY DEF ProxyLocal, ProxyGrows
<1> QED BY <1>1, <1>2, <1>3 DEF LocalStep

\* The same of a step that gives one accepted session a new state.
LEMMA ProxyUpdated ==
  ASSUME TypeOK, ClientLocal, ProxyLocal,
         NEW s \in Sessions, NEW t \in ProxyState,
         ProxyReached(t), ProxyGrows(px[s], t), s <= cur,
         px' = [px EXCEPT ![s] = t], UNCHANGED <<cl, cur, psignal, backlog>>,
         net' \subseteq Messages
  PROVE  LocalStep
<1>1. TypeOK'
  BY DEF TypeOK
<1>2. ClientLocal' /\ \A c \in Clients : ClientGrows(cl[c], cl'[c])
  BY DEF ClientLocal, ClientGrows
<1>3. \A r \in Sessions : px'[r] = IF r = s THEN t ELSE px[r]
  BY DEF TypeOK
<1>4. ProxyLocal'
  <2>1. \A r \in Sessions : r > cur => px'[r].pc = "idle"
    BY <1>3, SessionsAssumption DEF ProxyLocal, Sessions, TypeOK
  <2>2. \A r \in Sessions : ProxyReached(px'[r])
    BY <1>3 DEF ProxyLocal
  <2> QED BY <2>1, <2>2 DEF ProxyLocal
<1>5. \A r \in Sessions : ProxyGrows(px[r], px'[r])
  BY <1>3 DEF ProxyGrows
<1> QED BY <1>1, <1>2, <1>4, <1>5 DEF LocalStep

-----------------------------------------------------------------------------
(* One lemma for each action: it is a local step.                          *)
\* A local step: connecting to the proxy and entering the REGISTER loop.
LEMMA ConnectLocal ==
  ASSUME TypeOK, ClientLocal, ProxyLocal, NEW c \in Clients, Connect(c)
  PROVE  LocalStep
<1> DEFINE t == [cl[c] EXCEPT !.pc = "register"]
<1>1. cl[c] \in ClientState /\ ClientReached(cl[c])
  BY DEF TypeOK, ClientLocal
<1>2. t \in ClientState
  BY <1>1 DEF ClientState, ClientPcs
<1>3. ClientReached(t) /\ ClientGrows(cl[c], t)
  BY <1>1 DEF ClientReached, ClientGrows, QueueOpened, ClientEnding, Connect,
     ClientGoto, ClientState
<1>4. backlog' \in Seq(Clients)
  BY DEF Connect, TypeOK
<1>5. cl' = [cl EXCEPT ![c] = t]
  BY DEF Connect, ClientGoto, TypeOK
<1> HIDE DEF t
<1> QED
  BY <1>2, <1>3, <1>4, <1>5, ClientUpdated DEF Connect, ClientGoto, TypeOK

\* A local step: opening the client's learning queue and writing the marker byte.
LEMMA StartLearnLocal ==
  ASSUME TypeOK, ClientLocal, ProxyLocal, NEW c \in Clients, StartLearn(c)
  PROVE  LocalStep
<1> DEFINE t == [cl[c] EXCEPT !.pc = "learn", !.marker = "sent"]
<1>1. cl[c] \in ClientState /\ ClientReached(cl[c])
  BY DEF TypeOK, ClientLocal
<1>2. t \in ClientState
  BY <1>1 DEF ClientState, ClientPcs
<1>3. ClientReached(t) /\ ClientGrows(cl[c], t)
  BY <1>1 DEF ClientReached, ClientGrows, QueueOpened, ClientEnding,
     StartLearn, ClientState
<1>4. cl' = [cl EXCEPT ![c] = t]
  BY DEF StartLearn, TypeOK
<1> HIDE DEF t
<1> QED
  BY <1>2, <1>3, <1>4, ClientUpdated DEF StartLearn, TypeOK

\* A local step: capturing the marker and starting the client's tunnel thread.
LEMMA LearnCaptureLocal ==
  ASSUME TypeOK, ClientLocal, ProxyLocal, NEW c \in Clients, LearnCapture(c)
  PROVE  LocalStep
<1> DEFINE t == [cl[c] EXCEPT !.pc = "waitNfq", !.tunnel = "starting"]
<1>1. cl[c] \in ClientState /\ ClientReached(cl[c])
  BY DEF TypeOK, ClientLocal
<1>2. t \in ClientState
  BY <1>1 DEF ClientState, ClientPcs, TunnelPcs
<1>3. ClientReached(t) /\ ClientGrows(cl[c], t)
  BY <1>1 DEF ClientReached, ClientGrows, QueueOpened, ClientEnding,
     LearnCapture, ClientState
<1>4. cl' = [cl EXCEPT ![c] = t]
  BY DEF LearnCapture, TypeOK
<1> HIDE DEF t
<1> QED
  BY <1>2, <1>3, <1>4, ClientUpdated DEF LearnCapture, TypeOK

\* A local step: the end of the client's wait for nfqueue_ready.
LEMMA WaitNfqDoneLocal ==
  ASSUME TypeOK, ClientLocal, ProxyLocal, NEW c \in Clients, WaitNfqDone(c)
  PROVE  LocalStep
<1> DEFINE t == [cl[c] EXCEPT !.pc = "ready"]
<1>1. cl[c] \in ClientState /\ ClientReached(cl[c])
  BY DEF TypeOK, ClientLocal
<1>2. t \in ClientState
  BY <1>1 DEF ClientState, ClientPcs
<1>3. ClientReached(t) /\ ClientGrows(cl[c], t)
  BY <1>1 DEF ClientReached, ClientGrows, QueueOpened, ClientEnding,
     WaitNfqDone, ClientGoto, ClientState
<1>4. cl' = [cl EXCEPT ![c] = t]
  BY DEF WaitNfqDone, ClientGoto, TypeOK
<1> HIDE DEF t
<1> QED
  BY <1>2, <1>3, <1>4, ClientUpdated DEF WaitNfqDone, ClientGoto, TypeOK

\* A local step: the client's CLIENT_START_ACK.
LEMMA SendStartAckLocal ==
  ASSUME TypeOK, ClientLocal, ProxyLocal, NEW c \in Clients, SendStartAck(c)
  PROVE  LocalStep
<1> DEFINE t == [cl[c] EXCEPT !.pc = "startAck"]
<1>1. cl[c] \in ClientState /\ ClientReached(cl[c])
  BY DEF TypeOK, ClientLocal
<1>2. t \in ClientState
  BY <1>1 DEF ClientState, ClientPcs
<1>3. ClientReached(t) /\ ClientGrows(cl[c], t)
  BY <1>1 DEF ClientReached, ClientGrows, QueueOpened, ClientEnding,
     SendStartAck, ClientGoto, ClientState
<1>4. net' \subseteq Messages
  BY <1>1, SessionsAssumption DEF SendStartAck, ClientGoto, TypeOK, Messages,
     StartAck, ToClient, ToProxy, Sessions, ClientState
<1>5. cl' = [cl EXCEPT ![c] = t]
  BY DEF SendStartAck, ClientGoto, TypeOK
<1> HIDE DEF t
<1> QED
  BY <1>2, <1>3, <1>4, <1>5, ClientUpdated DEF SendStartAck, ClientGoto,
     TypeOK

\* A local step: the end of run_client_ready_handshake.
LEMMA ReadyDoneLocal ==
  ASSUME TypeOK, ClientLocal, ProxyLocal, NEW c \in Clients, ReadyDone(c)
  PROVE  LocalStep
<1> DEFINE t == [cl[c] EXCEPT !.pc = "settle", !.done = TRUE]
<1>1. cl[c] \in ClientState /\ ClientReached(cl[c])
  BY DEF TypeOK, ClientLocal
<1>2. t \in ClientState
  BY <1>1 DEF ClientState, ClientPcs
<1>3. ClientReached(t) /\ ClientGrows(cl[c], t)
  BY <1>1 DEF ClientReached, ClientGrows, QueueOpened, ClientEnding,
     ReadyDone, ClientState
<1>4. cl' = [cl EXCEPT ![c] = t]
  BY DEF ReadyDone, TypeOK
<1> HIDE DEF t
<1> QED
  BY <1>2, <1>3, <1>4, ClientUpdated DEF ReadyDone, TypeOK

\* A local step: the end of the settle time.
LEMMA SettleDoneLocal ==
  ASSUME TypeOK, ClientLocal, ProxyLocal, NEW c \in Clients, SettleDone(c)
  PROVE  LocalStep
<1> DEFINE t == [cl[c] EXCEPT !.pc = "build"]
<1>1. cl[c] \in ClientState /\ ClientReached(cl[c])
  BY DEF TypeOK, ClientLocal
<1>2. t \in ClientState
  BY <1>1 DEF ClientState, ClientPcs
<1>3. ClientReached(t) /\ ClientGrows(cl[c], t)
  BY <1>1 DEF ClientReached, ClientGrows, QueueOpened, ClientEnding,
     SettleDone, ClientGoto, ClientState
<1>4. cl' = [cl EXCEPT ![c] = t]
  BY DEF SettleDone, ClientGoto, TypeOK
<1> HIDE DEF t
<1> QED
  BY <1>2, <1>3, <1>4, ClientUpdated DEF SettleDone, ClientGoto, TypeOK

\* A local step: the store to the client's data_plane_ready.
LEMMA OpenDataPlaneLocal ==
  ASSUME TypeOK, ClientLocal, ProxyLocal, NEW c \in Clients, OpenDataPlane(c)
  PROVE  LocalStep
<1> DEFINE t == [cl[c] EXCEPT !.pc = "up", !.plane = TRUE]
<1>1. cl[c] \in ClientState /\ ClientReached(cl[c])
  BY DEF TypeOK, ClientLocal
<1>2. t \in ClientState
  BY <1>1 DEF ClientState, ClientPcs
<1>3. ClientReached(t) /\ ClientGrows(cl[c], t)
  BY <1>1 DEF ClientReached, ClientGrows, QueueOpened, ClientEnding,
     OpenDataPlane, ClientState
<1>4. cl' = [cl EXCEPT ![c] = t]
  BY DEF OpenDataPlane, TypeOK
<1> HIDE DEF t
<1> QED
  BY <1>2, <1>3, <1>4, ClientUpdated DEF OpenDataPlane, TypeOK

\* A local step: a client wait that finds a flag raised.
LEMMA ClientInterruptLocal ==
  ASSUME TypeOK, ClientLocal, ProxyLocal, NEW c \in Clients,
         ClientInterrupt(c)
  PROVE  LocalStep
<1> DEFINE t == [cl[c] EXCEPT !.pc = "cleanup"]
<1>1. cl[c] \in ClientState /\ ClientReached(cl[c])
  BY DEF TypeOK, ClientLocal
<1>2. cl[c].pc \in {"register", "waitLearn", "learn", "waitNfq",
                  "ready", "settle", "build", "up"}
  BY DEF ClientInterrupt, ClientInterrupted, ClientPolls
<1>3. t \in ClientState
  BY <1>1, <1>2 DEF ClientState, ClientPcs
<1>4. ClientReached(t) /\ ClientGrows(cl[c], t)
  BY <1>1, <1>2 DEF ClientReached, ClientGrows, QueueOpened, ClientEnding,
     ClientInterrupt, ClientState
<1>5. cl' = [cl EXCEPT ![c] = t]
  BY DEF ClientInterrupt, TypeOK
<1> HIDE DEF t
<1> QED
  BY <1>3, <1>4, <1>5, ClientUpdated DEF ClientInterrupt, TypeOK

\* A local step: the client's UDP STOP.
LEMMA ClientCleanupLocal ==
  ASSUME TypeOK, ClientLocal, ProxyLocal, NEW c \in Clients, ClientCleanup(c)
  PROVE  LocalStep
<1> DEFINE t == [cl[c] EXCEPT !.pc = "closing"]
<1>1. cl[c] \in ClientState /\ ClientReached(cl[c])
  BY DEF TypeOK, ClientLocal
<1>2. t \in ClientState
  BY <1>1 DEF ClientState, ClientPcs
<1>3. ClientReached(t) /\ ClientGrows(cl[c], t)
  BY <1>1 DEF ClientReached, ClientGrows, QueueOpened, ClientEnding,
     ClientCleanup, ClientState
<1>4. net' \subseteq Messages
  BY <1>1, SessionsAssumption DEF ClientCleanup, TypeOK, Messages,
     StopToProxy, ToClient, ToProxy, Sessions, ClientState
<1>5. cl' = [cl EXCEPT ![c] = t]
  BY DEF ClientCleanup, TypeOK
<1> HIDE DEF t
<1> QED
  BY <1>2, <1>3, <1>4, <1>5, ClientUpdated DEF ClientCleanup, TypeOK

\* A local step: the client's stores that end its threads.
LEMMA ClientCloseLocal ==
  ASSUME TypeOK, ClientLocal, ProxyLocal, NEW c \in Clients, ClientClose(c)
  PROVE  LocalStep
<1> DEFINE t == [cl[c] EXCEPT !.pc = "join", !.plane = FALSE,
                              !.flags = @ \cup {"stop", "sessionStop"}]
<1>1. cl[c] \in ClientState /\ ClientReached(cl[c])
  BY DEF TypeOK, ClientLocal
<1>2. t \in ClientState
  BY <1>1 DEF ClientState, ClientPcs, Flags
<1>3. ClientReached(t) /\ ClientGrows(cl[c], t)
  BY <1>1 DEF ClientReached, ClientGrows, QueueOpened, ClientEnding,
     ClientClose, ClientState
<1>4. cl' = [cl EXCEPT ![c] = t]
  BY DEF ClientClose, TypeOK
<1> HIDE DEF t
<1> QED
  BY <1>2, <1>3, <1>4, ClientUpdated DEF ClientClose, TypeOK

\* A local step: the client's joins.
LEMMA ClientJoinLocal ==
  ASSUME TypeOK, ClientLocal, ProxyLocal, NEW c \in Clients, ClientJoin(c)
  PROVE  LocalStep
<1> DEFINE t == [cl[c] EXCEPT !.pc = "done"]
<1>1. cl[c] \in ClientState /\ ClientReached(cl[c])
  BY DEF TypeOK, ClientLocal
<1>2. t \in ClientState
  BY <1>1 DEF ClientState, ClientPcs
<1>3. ClientReached(t) /\ ClientGrows(cl[c], t)
  BY <1>1 DEF ClientReached, ClientGrows, QueueOpened, ClientEnding,
     ClientJoin, ClientState
<1>4. cl' = [cl EXCEPT ![c] = t]
  BY DEF ClientJoin, TypeOK
<1> HIDE DEF t
<1> QED
  BY <1>2, <1>3, <1>4, ClientUpdated DEF ClientJoin, TypeOK

\* A local step: the client's control thread carrying a STOP through.
LEMMA ClientControlStopLocal ==
  ASSUME TypeOK, ClientLocal, ProxyLocal, NEW c \in Clients,
         ClientControlStop(c)
  PROVE  LocalStep
<1> DEFINE t == [cl[c] EXCEPT !.control = "stop2",
                              !.flags = @ \cup {"sessionStop"}]
<1> DEFINE u == [cl[c] EXCEPT !.control = "off", !.flags = @ \cup {"stop"}]
<1>1. cl[c] \in ClientState /\ ClientReached(cl[c])
  BY DEF TypeOK, ClientLocal
<1>2. t \in ClientState
  BY <1>1 DEF ClientState, ControlPcs, Flags
<1>3. cl[c].control = "stop1" =>
        ClientReached(t) /\ ClientGrows(cl[c], t)
  BY <1>1 DEF ClientReached, ClientGrows, QueueOpened, ClientEnding,
     ClientControlStop, ClientState
<1>4. u \in ClientState
  BY <1>1 DEF ClientState, ControlPcs, Flags
<1>5. cl[c].control = "stop2" =>
        ClientReached(u) /\ ClientGrows(cl[c], u)
  BY <1>1 DEF ClientReached, ClientGrows, QueueOpened, ClientEnding,
     ClientControlStop, ClientState
<1>6. \/ cl[c].control = "stop1" /\ cl' = [cl EXCEPT ![c] = t]
      \/ cl[c].control = "stop2" /\ cl' = [cl EXCEPT ![c] = u]
  BY DEF ClientControlStop, TypeOK
<1> HIDE DEF t, u
<1> QED
  BY <1>2, <1>3, <1>4, <1>5, <1>6, ClientUpdated DEF ClientControlStop, TypeOK

\* A local step: the client's control thread leaving its loop.
LEMMA ClientControlExitLocal ==
  ASSUME TypeOK, ClientLocal, ProxyLocal, NEW c \in Clients,
         ClientControlExit(c)
  PROVE  LocalStep
<1> DEFINE t == [cl[c] EXCEPT !.control = "off"]
<1>1. cl[c] \in ClientState /\ ClientReached(cl[c])
  BY DEF TypeOK, ClientLocal
<1>2. t \in ClientState
  BY <1>1 DEF ClientState, ControlPcs
<1>3. ClientReached(t) /\ ClientGrows(cl[c], t)
  BY <1>1 DEF ClientReached, ClientGrows, QueueOpened, ClientEnding,
     ClientControlExit, ClientState
<1>4. cl' = [cl EXCEPT ![c] = t]
  BY DEF ClientControlExit, TypeOK
<1> HIDE DEF t
<1> QED
  BY <1>2, <1>3, <1>4, ClientUpdated DEF ClientControlExit, TypeOK

\* A local step: the client's tunnel queue becoming ready.
LEMMA ClientTunnelReadyLocal ==
  ASSUME TypeOK, ClientLocal, ProxyLocal, NEW c \in Clients,
         ClientTunnelReady(c)
  PROVE  LocalStep
<1> DEFINE t == [cl[c] EXCEPT !.tunnel = "ready"]
<1>1. cl[c] \in ClientState /\ ClientReached(cl[c])
  BY DEF TypeOK, ClientLocal
<1>2. t \in ClientState
  BY <1>1 DEF ClientState, TunnelPcs
<1>3. ClientReached(t) /\ ClientGrows(cl[c], t)
  BY <1>1 DEF ClientReached, ClientGrows, QueueOpened, ClientEnding,
     ClientTunnelReady, ClientState
<1>4. cl' = [cl EXCEPT ![c] = t]
  BY DEF ClientTunnelReady, TypeOK
<1> HIDE DEF t
<1> QED
  BY <1>2, <1>3, <1>4, ClientUpdated DEF ClientTunnelReady, TypeOK

\* A local step: the end of the client's tunnel thread.
LEMMA ClientTunnelEndLocal ==
  ASSUME TypeOK, ClientLocal, ProxyLocal, NEW c \in Clients,
         ClientTunnelEnd(c)
  PROVE  LocalStep
<1> DEFINE t == [cl[c] EXCEPT !.tunnel = "over"]
<1>1. cl[c] \in ClientState /\ ClientReached(cl[c])
  BY DEF TypeOK, ClientLocal
<1>2. t \in ClientState
  BY <1>1 DEF ClientState, TunnelPcs
<1>3. ClientReached(t) /\ ClientGrows(cl[c], t)
  BY <1>1 DEF ClientReached, ClientGrows, QueueOpened, ClientEnding,
     ClientTunnelEnd, ClientState
<1>4. cl' = [cl EXCEPT ![c] = t]
  BY DEF ClientTunnelEnd, TypeOK
<1> HIDE DEF t
<1> QED
  BY <1>2, <1>3, <1>4, ClientUpdated DEF ClientTunnelEnd, TypeOK

\* A local step: a failing call of the client's main thread.
LEMMA ClientFailLocal ==
  ASSUME TypeOK, ClientLocal, ProxyLocal, NEW c \in Clients, ClientFail(c)
  PROVE  LocalStep
<1> DEFINE t == [cl[c] EXCEPT !.pc = "cleanup"]
<1>1. cl[c] \in ClientState /\ ClientReached(cl[c])
  BY DEF TypeOK, ClientLocal
<1>2. t \in ClientState
  BY <1>1 DEF ClientState, ClientPcs
<1>3. ClientReached(t) /\ ClientGrows(cl[c], t)
  BY <1>1 DEF ClientReached, ClientGrows, QueueOpened, ClientEnding,
     ClientFail, ClientAbandon, ClientState
<1>4. cl' = [cl EXCEPT ![c] = t]
  BY DEF ClientFail, ClientAbandon, TypeOK
<1> HIDE DEF t
<1> QED
  BY <1>2, <1>3, <1>4, ClientUpdated DEF ClientFail, ClientAbandon, TypeOK

\* A local step: a handshake timeout of the client.
LEMMA ClientTimeoutLocal ==
  ASSUME TypeOK, ClientLocal, ProxyLocal, NEW c \in Clients, ClientTimeout(c)
  PROVE  LocalStep
<1> DEFINE t == [cl[c] EXCEPT !.pc = "cleanup"]
<1>1. cl[c] \in ClientState /\ ClientReached(cl[c])
  BY DEF TypeOK, ClientLocal
<1>2. t \in ClientState
  BY <1>1 DEF ClientState, ClientPcs
<1>3. ClientReached(t) /\ ClientGrows(cl[c], t)
  BY <1>1 DEF ClientReached, ClientGrows, QueueOpened, ClientEnding,
     ClientTimeout, ClientAbandon, ClientState
<1>4. cl' = [cl EXCEPT ![c] = t]
  BY DEF ClientTimeout, ClientAbandon, TypeOK
<1> HIDE DEF t
<1> QED
  BY <1>2, <1>3, <1>4, ClientUpdated DEF ClientTimeout, ClientAbandon, TypeOK

\* A local step: the Enter key.
LEMMA ClientEnterLocal ==
  ASSUME TypeOK, ClientLocal, ProxyLocal, NEW c \in Clients, ClientEnter(c)
  PROVE  LocalStep
<1> DEFINE t == [cl[c] EXCEPT !.pc = "cleanup"]
<1>1. cl[c] \in ClientState /\ ClientReached(cl[c])
  BY DEF TypeOK, ClientLocal
<1>2. t \in ClientState
  BY <1>1 DEF ClientState, ClientPcs
<1>3. ClientReached(t) /\ ClientGrows(cl[c], t)
  BY <1>1 DEF ClientReached, ClientGrows, QueueOpened, ClientEnding,
     ClientEnter, ClientAbandon, ClientState
<1>4. cl' = [cl EXCEPT ![c] = t]
  BY DEF ClientEnter, ClientAbandon, TypeOK
<1> HIDE DEF t
<1> QED
  BY <1>2, <1>3, <1>4, ClientUpdated DEF ClientEnter, ClientAbandon, TypeOK

\* A local step: an error of the client's tunnel thread.
LEMMA ClientTunnelFailLocal ==
  ASSUME TypeOK, ClientLocal, ProxyLocal, NEW c \in Clients,
         ClientTunnelFail(c)
  PROVE  LocalStep
<1> DEFINE t == [cl[c] EXCEPT !.tunnel = "failed",
                              !.flags = @ \cup {"sessionError"}]
<1> DEFINE u == [cl[c] EXCEPT !.tunnel = "over",
                              !.flags = @ \cup {"sessionError"}]
<1>1. cl[c] \in ClientState /\ ClientReached(cl[c])
  BY DEF TypeOK, ClientLocal
<1>2. t \in ClientState
  BY <1>1 DEF ClientState, TunnelPcs, Flags
<1>3. cl[c].tunnel = "starting" =>
        ClientReached(t) /\ ClientGrows(cl[c], t)
  BY <1>1 DEF ClientReached, ClientGrows, QueueOpened, ClientEnding,
     ClientTunnelFail, ClientState
<1>4. u \in ClientState
  BY <1>1 DEF ClientState, TunnelPcs, Flags
<1>5. cl[c].tunnel = "ready" =>
        ClientReached(u) /\ ClientGrows(cl[c], u)
  BY <1>1 DEF ClientReached, ClientGrows, QueueOpened, ClientEnding,
     ClientTunnelFail, ClientState
<1>6. \/ cl[c].tunnel = "starting" /\ cl' = [cl EXCEPT ![c] = t]
      \/ cl[c].tunnel = "ready" /\ cl' = [cl EXCEPT ![c] = u]
  BY DEF ClientTunnelFail, TypeOK
<1> HIDE DEF t, u
<1> QED
  BY <1>2, <1>3, <1>4, <1>5, <1>6, ClientUpdated DEF ClientTunnelFail, TypeOK

\* A local step: an error of the client's raw thread.
LEMMA ClientRawFailLocal ==
  ASSUME TypeOK, ClientLocal, ProxyLocal, NEW c \in Clients, ClientRawFail(c)
  PROVE  LocalStep
<1> DEFINE t == [cl[c] EXCEPT !.flags = @ \cup {"stop"}]
<1>1. cl[c] \in ClientState /\ ClientReached(cl[c])
  BY DEF TypeOK, ClientLocal
<1>2. t \in ClientState
  BY <1>1 DEF ClientState, Flags
<1>3. ClientReached(t) /\ ClientGrows(cl[c], t)
  BY <1>1 DEF ClientReached, ClientGrows, QueueOpened, ClientEnding,
     ClientRawFail, ClientState
<1>4. cl' = [cl EXCEPT ![c] = t]
  BY DEF ClientRawFail, TypeOK
<1> HIDE DEF t
<1> QED
  BY <1>2, <1>3, <1>4, ClientUpdated DEF ClientRawFail, TypeOK

\* A local step: a signal to the client.
LEMMA ClientSignalLocal ==
  ASSUME TypeOK, ClientLocal, ProxyLocal, NEW c \in Clients, ClientSignal(c)
  PROVE  LocalStep
<1> DEFINE t == [cl[c] EXCEPT !.flags = @ \cup {"signal"}]
<1>1. cl[c] \in ClientState /\ ClientReached(cl[c])
  BY DEF TypeOK, ClientLocal
<1>2. t \in ClientState
  BY <1>1 DEF ClientState, Flags
<1>3. ClientReached(t) /\ ClientGrows(cl[c], t)
  BY <1>1 DEF ClientReached, ClientGrows, QueueOpened, ClientEnding,
     ClientSignal, ClientState
<1>4. cl' = [cl EXCEPT ![c] = t]
  BY DEF ClientSignal, TypeOK
<1> HIDE DEF t
<1> QED
  BY <1>2, <1>3, <1>4, ClientUpdated DEF ClientSignal, TypeOK

\* A local step: opening the proxy's learning queue and PROXY_LEARN_READY.
LEMMA StartProxyLearnLocal ==
  ASSUME TypeOK, ClientLocal, ProxyLocal, NEW s \in Sessions,
         StartProxyLearn(s)
  PROVE  LocalStep
<1> DEFINE t == [px[s] EXCEPT !.pc = "learn"]
<1>1. px[s] \in ProxyState /\ ProxyReached(px[s])
  BY DEF TypeOK, ProxyLocal
<1>2. s <= cur
  BY <1>1, SessionsAssumption DEF ProxyLocal, ProxyReached, TypeOK, Sessions,
     StartProxyLearn
<1>3. t \in ProxyState
  BY <1>1 DEF ProxyState, ProxyPcs
<1>4. ProxyReached(t) /\ ProxyGrows(px[s], t)
  BY <1>1 DEF ProxyReached, ProxyGrows, QueueOpened, ProxyEnding,
     StartProxyLearn, ProxyState
<1>5. net' \subseteq Messages
  BY <1>1, SessionsAssumption DEF StartProxyLearn, TypeOK, Messages,
     LearnReady, ToClient, ToProxy, Sessions, ProxyState
<1>6. px' = [px EXCEPT ![s] = t]
  BY DEF StartProxyLearn, TypeOK
<1> HIDE DEF t
<1> QED
  BY <1>2, <1>3, <1>4, <1>5, <1>6, ProxyUpdated DEF StartProxyLearn, TypeOK

\* A local step: reading the marker byte and starting the proxy's tunnel thread.
LEMMA ProxyLearnDoneLocal ==
  ASSUME TypeOK, ClientLocal, ProxyLocal, NEW s \in Sessions,
         ProxyLearnDone(s)
  PROVE  LocalStep
<1> DEFINE t == [px[s] EXCEPT !.pc = "waitNfq", !.tunnel = "starting"]
<1>1. px[s] \in ProxyState /\ ProxyReached(px[s])
  BY DEF TypeOK, ProxyLocal
<1>2. s <= cur
  BY <1>1, SessionsAssumption DEF ProxyLocal, ProxyReached, TypeOK, Sessions,
     ProxyLearnDone
<1>3. t \in ProxyState
  BY <1>1 DEF ProxyState, ProxyPcs, TunnelPcs
<1>4. ProxyReached(t) /\ ProxyGrows(px[s], t)
  BY <1>1 DEF ProxyReached, ProxyGrows, QueueOpened, ProxyEnding,
     ProxyLearnDone, ProxyState
<1>5. px' = [px EXCEPT ![s] = t]
  BY DEF ProxyLearnDone, TypeOK
<1> HIDE DEF t
<1> QED
  BY <1>2, <1>3, <1>4, <1>5, ProxyUpdated DEF ProxyLearnDone, TypeOK

\* A local step: the end of the proxy's wait for nfqueue_ready.
LEMMA ProxyNfqDoneLocal ==
  ASSUME TypeOK, ClientLocal, ProxyLocal, NEW s \in Sessions, ProxyNfqDone(s)
  PROVE  LocalStep
<1> DEFINE t == [px[s] EXCEPT !.pc = "ready"]
<1>1. px[s] \in ProxyState /\ ProxyReached(px[s])
  BY DEF TypeOK, ProxyLocal
<1>2. s <= cur
  BY <1>1, SessionsAssumption DEF ProxyLocal, ProxyReached, TypeOK, Sessions,
     ProxyNfqDone
<1>3. t \in ProxyState
  BY <1>1 DEF ProxyState, ProxyPcs
<1>4. ProxyReached(t) /\ ProxyGrows(px[s], t)
  BY <1>1 DEF ProxyReached, ProxyGrows, QueueOpened, ProxyEnding,
     ProxyNfqDone, ProxyState
<1>5. px' = [px EXCEPT ![s] = t]
  BY DEF ProxyNfqDone, TypeOK
<1> HIDE DEF t
<1> QED
  BY <1>2, <1>3, <1>4, <1>5, ProxyUpdated DEF ProxyNfqDone, TypeOK

\* A local step: the end of run_proxy_ready_handshake.
LEMMA ProxyReadyDoneLocal ==
  ASSUME TypeOK, ClientLocal, ProxyLocal, NEW s \in Sessions,
         ProxyReadyDone(s)
  PROVE  LocalStep
<1> DEFINE t == [px[s] EXCEPT !.pc = "build", !.done = TRUE]
<1>1. px[s] \in ProxyState /\ ProxyReached(px[s])
  BY DEF TypeOK, ProxyLocal
<1>2. s <= cur
  BY <1>1, SessionsAssumption DEF ProxyLocal, ProxyReached, TypeOK, Sessions,
     ProxyReadyDone
<1>3. t \in ProxyState
  BY <1>1 DEF ProxyState, ProxyPcs
<1>4. ProxyReached(t) /\ ProxyGrows(px[s], t)
  BY <1>1 DEF ProxyReached, ProxyGrows, QueueOpened, ProxyEnding,
     ProxyReadyDone, ProxyState
<1>5. px' = [px EXCEPT ![s] = t]
  BY DEF ProxyReadyDone, TypeOK
<1> HIDE DEF t
<1> QED
  BY <1>2, <1>3, <1>4, <1>5, ProxyUpdated DEF ProxyReadyDone, TypeOK

\* A local step: the store to the proxy's data_plane_ready.
LEMMA OpenProxyDataPlaneLocal ==
  ASSUME TypeOK, ClientLocal, ProxyLocal, NEW s \in Sessions,
         OpenProxyDataPlane(s)
  PROVE  LocalStep
<1> DEFINE t == [px[s] EXCEPT !.pc = "up", !.plane = TRUE]
<1>1. px[s] \in ProxyState /\ ProxyReached(px[s])
  BY DEF TypeOK, ProxyLocal
<1>2. s <= cur
  BY <1>1, SessionsAssumption DEF ProxyLocal, ProxyReached, TypeOK, Sessions,
     OpenProxyDataPlane
<1>3. t \in ProxyState
  BY <1>1 DEF ProxyState, ProxyPcs
<1>4. ProxyReached(t) /\ ProxyGrows(px[s], t)
  BY <1>1 DEF ProxyReached, ProxyGrows, QueueOpened, ProxyEnding,
     OpenProxyDataPlane, ProxyState
<1>5. px' = [px EXCEPT ![s] = t]
  BY DEF OpenProxyDataPlane, TypeOK
<1> HIDE DEF t
<1> QED
  BY <1>2, <1>3, <1>4, <1>5, ProxyUpdated DEF OpenProxyDataPlane, TypeOK

\* A local step: a proxy wait that finds the session stopping.
LEMMA ProxyInterruptLocal ==
  ASSUME TypeOK, ClientLocal, ProxyLocal, NEW s \in Sessions,
         ProxyInterrupt(s)
  PROVE  LocalStep
<1> DEFINE t == [px[s] EXCEPT !.pc = "cleanup",
                              !.flags = IF px[s].pc = "up" THEN @ ELSE @ \cup {"stop"}]
<1>1. px[s] \in ProxyState /\ ProxyReached(px[s])
  BY DEF TypeOK, ProxyLocal
<1>2. px[s].pc \in {"register", "learnInit", "learn", "consume",
                  "waitNfq", "ready", "build", "up"}
  BY DEF ProxyInterrupt, ProxyInterrupted
<1>3. s <= cur
  BY <1>1, <1>2, SessionsAssumption DEF ProxyLocal, ProxyReached, TypeOK,
     Sessions, ProxyInterrupt
<1>4. t \in ProxyState
  BY <1>1, <1>2 DEF ProxyState, ProxyPcs, Flags
<1>5. ProxyReached(t) /\ ProxyGrows(px[s], t)
  BY <1>1, <1>2 DEF ProxyReached, ProxyGrows, QueueOpened, ProxyEnding,
     ProxyInterrupt, ProxyState
<1>6. px' = [px EXCEPT ![s] = t]
  BY DEF ProxyInterrupt, TypeOK
<1> HIDE DEF t
<1> QED
  BY <1>3, <1>4, <1>5, <1>6, ProxyUpdated DEF ProxyInterrupt, TypeOK

\* A local step: should_send_udp_stop and the proxy's UDP STOP.
LEMMA ProxyCleanupLocal ==
  ASSUME TypeOK, ClientLocal, ProxyLocal, NEW s \in Sessions, ProxyCleanup(s)
  PROVE  LocalStep
<1> DEFINE t == [px[s] EXCEPT !.pc = "closing"]
<1>1. px[s] \in ProxyState /\ ProxyReached(px[s])
  BY DEF TypeOK, ProxyLocal
<1>2. s <= cur
  BY <1>1, SessionsAssumption DEF ProxyLocal, ProxyReached, TypeOK, Sessions,
     ProxyCleanup
<1>3. t \in ProxyState
  BY <1>1 DEF ProxyState, ProxyPcs
<1>4. ProxyReached(t) /\ ProxyGrows(px[s], t)
  BY <1>1 DEF ProxyReached, ProxyGrows, QueueOpened, ProxyEnding,
     ProxyCleanup, ProxyState
<1>5. net' \subseteq Messages
  BY <1>1, SessionsAssumption DEF ProxyCleanup, TypeOK, Messages,
     StopToClient, ToClient, ToProxy, Sessions, ProxyState
<1>6. px' = [px EXCEPT ![s] = t]
  BY DEF ProxyCleanup, TypeOK
<1> HIDE DEF t
<1> QED
  BY <1>2, <1>3, <1>4, <1>5, <1>6, ProxyUpdated DEF ProxyCleanup, TypeOK

\* A local step: the proxy's stores that end its threads.
LEMMA ProxyCloseLocal ==
  ASSUME TypeOK, ClientLocal, ProxyLocal, NEW s \in Sessions, ProxyClose(s)
  PROVE  LocalStep
<1> DEFINE t == [px[s] EXCEPT !.pc = "join", !.plane = FALSE,
                              !.flags = @ \cup {"stop", "sessionStop"}]
<1>1. px[s] \in ProxyState /\ ProxyReached(px[s])
  BY DEF TypeOK, ProxyLocal
<1>2. s <= cur
  BY <1>1, SessionsAssumption DEF ProxyLocal, ProxyReached, TypeOK, Sessions,
     ProxyClose
<1>3. t \in ProxyState
  BY <1>1 DEF ProxyState, ProxyPcs, Flags
<1>4. ProxyReached(t) /\ ProxyGrows(px[s], t)
  BY <1>1 DEF ProxyReached, ProxyGrows, QueueOpened, ProxyEnding, ProxyClose,
     ProxyState
<1>5. px' = [px EXCEPT ![s] = t]
  BY DEF ProxyClose, TypeOK
<1> HIDE DEF t
<1> QED
  BY <1>2, <1>3, <1>4, <1>5, ProxyUpdated DEF ProxyClose, TypeOK

\* A local step: the proxy's joins.
LEMMA ProxyJoinLocal ==
  ASSUME TypeOK, ClientLocal, ProxyLocal, NEW s \in Sessions, ProxyJoin(s)
  PROVE  LocalStep
<1> DEFINE t == [px[s] EXCEPT !.pc = "closed"]
<1>1. px[s] \in ProxyState /\ ProxyReached(px[s])
  BY DEF TypeOK, ProxyLocal
<1>2. s <= cur
  BY <1>1, SessionsAssumption DEF ProxyLocal, ProxyReached, TypeOK, Sessions,
     ProxyJoin
<1>3. t \in ProxyState
  BY <1>1 DEF ProxyState, ProxyPcs
<1>4. ProxyReached(t) /\ ProxyGrows(px[s], t)
  BY <1>1 DEF ProxyReached, ProxyGrows, QueueOpened, ProxyEnding, ProxyJoin,
     ProxyState
<1>5. px' = [px EXCEPT ![s] = t]
  BY DEF ProxyJoin, TypeOK
<1> HIDE DEF t
<1> QED
  BY <1>2, <1>3, <1>4, <1>5, ProxyUpdated DEF ProxyJoin, TypeOK

\* A local step: the proxy's control thread carrying a STOP through.
LEMMA ProxyControlStopLocal ==
  ASSUME TypeOK, ClientLocal, ProxyLocal, NEW s \in Sessions,
         ProxyControlStop(s)
  PROVE  LocalStep
<1> DEFINE t == [px[s] EXCEPT !.control = "stop2",
                              !.flags = @ \cup {"sessionStop"}]
<1> DEFINE u == [px[s] EXCEPT !.control = "off", !.flags = @ \cup {"stop"}]
<1>1. px[s] \in ProxyState /\ ProxyReached(px[s])
  BY DEF TypeOK, ProxyLocal
<1>2. s <= cur
  BY <1>1, SessionsAssumption DEF ProxyLocal, ProxyReached, TypeOK, Sessions,
     ProxyControlStop
<1>3. t \in ProxyState
  BY <1>1 DEF ProxyState, ControlPcs, Flags
<1>4. px[s].control = "stop1" =>
        ProxyReached(t) /\ ProxyGrows(px[s], t)
  BY <1>1 DEF ProxyReached, ProxyGrows, QueueOpened, ProxyEnding,
     ProxyControlStop, ProxyState
<1>5. u \in ProxyState
  BY <1>1 DEF ProxyState, ControlPcs, Flags
<1>6. px[s].control = "stop2" =>
        ProxyReached(u) /\ ProxyGrows(px[s], u)
  BY <1>1 DEF ProxyReached, ProxyGrows, QueueOpened, ProxyEnding,
     ProxyControlStop, ProxyState
<1>7. \/ px[s].control = "stop1" /\ px' = [px EXCEPT ![s] = t]
      \/ px[s].control = "stop2" /\ px' = [px EXCEPT ![s] = u]
  BY DEF ProxyControlStop, TypeOK
<1> HIDE DEF t, u
<1> QED
  BY <1>2, <1>3, <1>4, <1>5, <1>6, <1>7, ProxyUpdated DEF ProxyControlStop,
     TypeOK

\* A local step: the proxy's control thread leaving its loop.
LEMMA ProxyControlExitLocal ==
  ASSUME TypeOK, ClientLocal, ProxyLocal, NEW s \in Sessions,
         ProxyControlExit(s)
  PROVE  LocalStep
<1> DEFINE t == [px[s] EXCEPT !.control = "off"]
<1>1. px[s] \in ProxyState /\ ProxyReached(px[s])
  BY DEF TypeOK, ProxyLocal
<1>2. s <= cur
  BY <1>1, SessionsAssumption DEF ProxyLocal, ProxyReached, TypeOK, Sessions,
     ProxyControlExit
<1>3. t \in ProxyState
  BY <1>1 DEF ProxyState, ControlPcs
<1>4. ProxyReached(t) /\ ProxyGrows(px[s], t)
  BY <1>1 DEF ProxyReached, ProxyGrows, QueueOpened, ProxyEnding,
     ProxyControlExit, ProxyState
<1>5. px' = [px EXCEPT ![s] = t]
  BY DEF ProxyControlExit, TypeOK
<1> HIDE DEF t
<1> QED
  BY <1>2, <1>3, <1>4, <1>5, ProxyUpdated DEF ProxyControlExit, TypeOK

\* A local step: the proxy's tunnel queue becoming ready.
LEMMA ProxyTunnelReadyLocal ==
  ASSUME TypeOK, ClientLocal, ProxyLocal, NEW s \in Sessions,
         ProxyTunnelReady(s)
  PROVE  LocalStep
<1> DEFINE t == [px[s] EXCEPT !.tunnel = "ready"]
<1>1. px[s] \in ProxyState /\ ProxyReached(px[s])
  BY DEF TypeOK, ProxyLocal
<1>2. s <= cur
  BY <1>1, SessionsAssumption DEF ProxyLocal, ProxyReached, TypeOK, Sessions,
     ProxyTunnelReady
<1>3. t \in ProxyState
  BY <1>1 DEF ProxyState, TunnelPcs
<1>4. ProxyReached(t) /\ ProxyGrows(px[s], t)
  BY <1>1 DEF ProxyReached, ProxyGrows, QueueOpened, ProxyEnding,
     ProxyTunnelReady, ProxyState
<1>5. px' = [px EXCEPT ![s] = t]
  BY DEF ProxyTunnelReady, TypeOK
<1> HIDE DEF t
<1> QED
  BY <1>2, <1>3, <1>4, <1>5, ProxyUpdated DEF ProxyTunnelReady, TypeOK

\* A local step: the end of the proxy's tunnel thread.
LEMMA ProxyTunnelEndLocal ==
  ASSUME TypeOK, ClientLocal, ProxyLocal, NEW s \in Sessions,
         ProxyTunnelEnd(s)
  PROVE  LocalStep
<1> DEFINE t == [px[s] EXCEPT !.tunnel = "over"]
<1>1. px[s] \in ProxyState /\ ProxyReached(px[s])
  BY DEF TypeOK, ProxyLocal
<1>2. s <= cur
  BY <1>1, SessionsAssumption DEF ProxyLocal, ProxyReached, TypeOK, Sessions,
     ProxyTunnelEnd
<1>3. t \in ProxyState
  BY <1>1 DEF ProxyState, TunnelPcs
<1>4. ProxyReached(t) /\ ProxyGrows(px[s], t)
  BY <1>1 DEF ProxyReached, ProxyGrows, QueueOpened, ProxyEnding,
     ProxyTunnelEnd, ProxyState
<1>5. px' = [px EXCEPT ![s] = t]
  BY DEF ProxyTunnelEnd, TypeOK
<1> HIDE DEF t
<1> QED
  BY <1>2, <1>3, <1>4, <1>5, ProxyUpdated DEF ProxyTunnelEnd, TypeOK

\* A local step: a failing call of the proxy's main thread.
LEMMA ProxyFailLocal ==
  ASSUME TypeOK, ClientLocal, ProxyLocal, NEW s \in Sessions, ProxyFail(s)
  PROVE  LocalStep
<1> DEFINE t == [px[s] EXCEPT !.pc = "cleanup", !.flags = @ \cup {"stop"}]
<1>1. px[s] \in ProxyState /\ ProxyReached(px[s])
  BY DEF TypeOK, ProxyLocal
<1>2. s <= cur
  BY <1>1, SessionsAssumption DEF ProxyLocal, ProxyReached, TypeOK, Sessions,
     ProxyFail, ProxyAbandon
<1>3. t \in ProxyState
  BY <1>1 DEF ProxyState, ProxyPcs, Flags
<1>4. ProxyReached(t) /\ ProxyGrows(px[s], t)
  BY <1>1 DEF ProxyReached, ProxyGrows, QueueOpened, ProxyEnding, ProxyFail,
     ProxyAbandon, ProxyState
<1>5. px' = [px EXCEPT ![s] = t]
  BY DEF ProxyFail, ProxyAbandon, TypeOK
<1> HIDE DEF t
<1> QED
  BY <1>2, <1>3, <1>4, <1>5, ProxyUpdated DEF ProxyFail, ProxyAbandon, TypeOK

\* A local step: a timeout of the proxy's main thread.
LEMMA ProxyTimeoutLocal ==
  ASSUME TypeOK, ClientLocal, ProxyLocal, NEW s \in Sessions, ProxyTimeout(s)
  PROVE  LocalStep
<1> DEFINE t == [px[s] EXCEPT !.pc = "cleanup", !.flags = @ \cup {"stop"}]
<1>1. px[s] \in ProxyState /\ ProxyReached(px[s])
  BY DEF TypeOK, ProxyLocal
<1>2. s <= cur
  BY <1>1, SessionsAssumption DEF ProxyLocal, ProxyReached, TypeOK, Sessions,
     ProxyTimeout, ProxyAbandon
<1>3. t \in ProxyState
  BY <1>1 DEF ProxyState, ProxyPcs, Flags
<1>4. ProxyReached(t) /\ ProxyGrows(px[s], t)
  BY <1>1 DEF ProxyReached, ProxyGrows, QueueOpened, ProxyEnding,
     ProxyTimeout, ProxyAbandon, ProxyState
<1>5. px' = [px EXCEPT ![s] = t]
  BY DEF ProxyTimeout, ProxyAbandon, TypeOK
<1> HIDE DEF t
<1> QED
  BY <1>2, <1>3, <1>4, <1>5, ProxyUpdated DEF ProxyTimeout, ProxyAbandon,
     TypeOK

\* A local step: an error of the proxy's tunnel thread.
LEMMA ProxyTunnelFailLocal ==
  ASSUME TypeOK, ClientLocal, ProxyLocal, NEW s \in Sessions,
         ProxyTunnelFail(s)
  PROVE  LocalStep
<1> DEFINE t == [px[s] EXCEPT !.tunnel = "failed",
                              !.flags = @ \cup {"sessionError"}]
<1> DEFINE u == [px[s] EXCEPT !.tunnel = "over",
                              !.flags = @ \cup {"sessionError"}]
<1>1. px[s] \in ProxyState /\ ProxyReached(px[s])
  BY DEF TypeOK, ProxyLocal
<1>2. s <= cur
  BY <1>1, SessionsAssumption DEF ProxyLocal, ProxyReached, TypeOK, Sessions,
     ProxyTunnelFail
<1>3. t \in ProxyState
  BY <1>1 DEF ProxyState, TunnelPcs, Flags
<1>4. px[s].tunnel = "starting" =>
        ProxyReached(t) /\ ProxyGrows(px[s], t)
  BY <1>1 DEF ProxyReached, ProxyGrows, QueueOpened, ProxyEnding,
     ProxyTunnelFail, ProxyState
<1>5. u \in ProxyState
  BY <1>1 DEF ProxyState, TunnelPcs, Flags
<1>6. px[s].tunnel = "ready" =>
        ProxyReached(u) /\ ProxyGrows(px[s], u)
  BY <1>1 DEF ProxyReached, ProxyGrows, QueueOpened, ProxyEnding,
     ProxyTunnelFail, ProxyState
<1>7. \/ px[s].tunnel = "starting" /\ px' = [px EXCEPT ![s] = t]
      \/ px[s].tunnel = "ready" /\ px' = [px EXCEPT ![s] = u]
  BY DEF ProxyTunnelFail, TypeOK
<1> HIDE DEF t, u
<1> QED
  BY <1>2, <1>3, <1>4, <1>5, <1>6, <1>7, ProxyUpdated DEF ProxyTunnelFail,
     TypeOK

\* A local step: an error of the proxy's raw thread.
LEMMA ProxyRawFailLocal ==
  ASSUME TypeOK, ClientLocal, ProxyLocal, NEW s \in Sessions, ProxyRawFail(s)
  PROVE  LocalStep
<1> DEFINE t == [px[s] EXCEPT !.flags = @ \cup {"stop"}]
<1>1. px[s] \in ProxyState /\ ProxyReached(px[s])
  BY DEF TypeOK, ProxyLocal
<1>2. s <= cur
  BY <1>1, SessionsAssumption DEF ProxyLocal, ProxyReached, TypeOK, Sessions,
     ProxyRawFail
<1>3. t \in ProxyState
  BY <1>1 DEF ProxyState, Flags
<1>4. ProxyReached(t) /\ ProxyGrows(px[s], t)
  BY <1>1 DEF ProxyReached, ProxyGrows, QueueOpened, ProxyEnding,
     ProxyRawFail, ProxyState
<1>5. px' = [px EXCEPT ![s] = t]
  BY DEF ProxyRawFail, TypeOK
<1> HIDE DEF t
<1> QED
  BY <1>2, <1>3, <1>4, <1>5, ProxyUpdated DEF ProxyRawFail, TypeOK

\* A step that touches only datagrams and the proxy's signal is a local step.
LEMMA NothingLocal ==
  ASSUME TypeOK, ClientLocal, ProxyLocal,
         UNCHANGED <<cl, px, cur, backlog>>, psignal' \in BOOLEAN, net' \subseteq Messages
  PROVE  LocalStep
<1>1. TypeOK'
  BY DEF TypeOK
<1>2. ClientLocal' /\ ProxyLocal'
  BY DEF ClientLocal, ProxyLocal
<1> QED BY <1>1, <1>2 DEF LocalStep, ClientGrows, ProxyGrows

\* A local step: the end of the client's process.
LEMMA ClientCrashLocal ==
  ASSUME TypeOK, ClientLocal, ProxyLocal, NEW c \in Clients, ClientCrash(c)
  PROVE  LocalStep
<1> DEFINE over == IF cl[c].tunnel \in {"ready", "over"} THEN "over" ELSE "off"
           t == [cl[c] EXCEPT !.pc = "crashed", !.plane = FALSE,
                              !.control = "off", !.tunnel = over]
<1>1. cl[c] \in ClientState /\ ClientReached(cl[c])
  BY DEF TypeOK, ClientLocal
<1>2. t \in ClientState
  BY <1>1 DEF ClientState, ClientPcs, ControlPcs, TunnelPcs
<1>3. cl' = [cl EXCEPT ![c] = t]
  BY DEF ClientCrash, TypeOK
<1>4. /\ t.pc = "crashed" /\ t.plane = FALSE /\ t.control = "off"
      /\ t.pn = cl[c].pn /\ t.got = cl[c].got /\ t.done = cl[c].done
      /\ t.marker = cl[c].marker /\ t.tunnel = over
  BY <1>1 DEF ClientState
<1> HIDE DEF t
<1>5. QueueOpened(cl[c]) => QueueOpened(t)
  BY <1>4 DEF QueueOpened
<1>6. ClientReached(t)
  BY <1>1, <1>4, <1>5 DEF ClientReached
<1>7. ClientGrows(cl[c], t)
  BY <1>4, <1>5 DEF ClientGrows, ClientEnding
<1> QED
  BY <1>2, <1>3, <1>6, <1>7, ClientUpdated DEF ClientCrash, TypeOK

\* A local step: what run_client_udp_register does with a datagram.  That the
\* nonce it stores is not 0 comes from NetFacts.
LEMMA RegisterRecvLocal ==
  ASSUME Inv, NEW c \in Clients, NEW m \in net, RegisterRecv(c, m)
  PROVE  LocalStep
<1> DEFINE t == [cl[c] EXCEPT !.pc = "waitLearn", !.pn = m.s, !.control = "run"]
<1>1. cl[c] \in ClientState /\ ClientReached(cl[c]) /\ m \in Messages
  BY DEF Inv, TypeOK, ClientLocal
<1>2. net' \subseteq Messages
  BY DEF RegisterRecv, After, Inv, TypeOK
<1>3. CASE m = RegisterAck(c, m.s)
  <2>1. m.s # 0 /\ m.s \in 0 .. MaxSessions
    BY <1>1, <1>3, SessionsAssumption DEF Inv, NetFacts, NetFact, RegisterAck,
       ToClient, Sessions, Messages
  <2>2. t \in ClientState
    BY <1>1, <2>1 DEF ClientState, ClientPcs, ControlPcs
  <2>3. ClientReached(t) /\ ClientGrows(cl[c], t)
    BY <1>1, <2>1 DEF ClientReached, ClientGrows, QueueOpened, ClientEnding,
       ClientState, RegisterRecv
  <2>4. cl' = [cl EXCEPT ![c] = t]
    BY <1>3 DEF RegisterRecv, Inv, TypeOK
  <2> HIDE DEF t
  <2> QED
    BY <1>2, <2>2, <2>3, <2>4, ClientUpdated DEF RegisterRecv, Inv, TypeOK
<1>4. CASE m # RegisterAck(c, m.s)
  BY <1>2, <1>4, NothingLocal DEF RegisterRecv, Inv, TypeOK
<1> QED BY <1>3, <1>4

\* A local step: what client_udp_control_loop does with a datagram.
LEMMA ClientControlRecvLocal ==
  ASSUME TypeOK, ClientLocal, ProxyLocal,
         NEW c \in Clients, NEW m \in net, ClientControlRecv(c, m)
  PROVE  LocalStep
<1> DEFINE t == [cl[c] EXCEPT !.got = @ \cup {"learnReady"}]
           u == [cl[c] EXCEPT !.got = @ \cup {"readyAck"}]
           v == [cl[c] EXCEPT !.got = @ \cup {"stop"}, !.control = "stop1"]
<1>1. cl[c] \in ClientState /\ ClientReached(cl[c])
  BY DEF TypeOK, ClientLocal
<1>2. net' \subseteq Messages
  BY DEF ClientControlRecv, After, TypeOK
<1>3. t \in ClientState /\ u \in ClientState /\ v \in ClientState
  BY <1>1 DEF ClientState, ControlPcs
<1>4. ClientReached(t) /\ ClientReached(u) /\ ClientReached(v)
  BY <1>1 DEF ClientReached, QueueOpened, ClientState, ClientControlRecv
<1>5. ClientGrows(cl[c], t) /\ ClientGrows(cl[c], u) /\ ClientGrows(cl[c], v)
  BY <1>1 DEF ClientGrows, QueueOpened, ClientState
<1>6. \/ cl' = [cl EXCEPT ![c] = t]
      \/ cl' = [cl EXCEPT ![c] = u]
      \/ cl' = [cl EXCEPT ![c] = v]
      \/ cl' = cl
  BY DEF ClientControlRecv, TypeOK
<1> HIDE DEF t, u, v
<1> QED
  BY <1>2, <1>3, <1>4, <1>5, <1>6, ClientUpdated, NothingLocal
     DEF ClientControlRecv, TypeOK

\* A local step: accept_client_with_signal, the one step that moves cur.
LEMMA AcceptLocal ==
  ASSUME TypeOK, ClientLocal, ProxyLocal, NEW s \in Sessions, Accept(s)
  PROVE  LocalStep
<1> DEFINE t == [px[s] EXCEPT !.pc = "register", !.conn = Head(backlog)]
<1>1. /\ px[s] \in ProxyState /\ ProxyReached(px[s])
      /\ px[s].pc = "idle" /\ Head(backlog) \in Clients
  BY SessionsAssumption DEF TypeOK, ProxyLocal, Accept, Sessions
<1>2. t \in ProxyState
  BY <1>1 DEF ProxyState, ProxyPcs
<1>3. ProxyReached(t) /\ ProxyGrows(px[s], t)
  BY <1>1 DEF ProxyReached, ProxyGrows, QueueOpened, ProxyEnding, ProxyState
<1>4. \A r \in Sessions : px'[r] = IF r = s THEN t ELSE px[r]
  BY DEF Accept, TypeOK
<1>5. TypeOK'
  <2>1. px' \in [Sessions -> ProxyState]
    BY <1>2 DEF Accept, TypeOK
  <2> QED BY <2>1, SessionsAssumption DEF Accept, TypeOK, Sessions
<1> HIDE DEF t
<1>6. ProxyLocal'
  BY <1>3, <1>4, SessionsAssumption DEF ProxyLocal, Accept, TypeOK, Sessions
<1>7. ClientLocal' /\ \A c \in Clients : ClientGrows(cl[c], cl'[c])
  BY DEF ClientLocal, ClientGrows, Accept
<1>8. \A r \in Sessions : ProxyGrows(px[r], px'[r])
  BY <1>3, <1>4 DEF ProxyGrows
<1> QED BY <1>5, <1>6, <1>7, <1>8 DEF LocalStep

\* A local step: what run_proxy_udp_register does with a datagram.
LEMMA ProxyRegisterRecvLocal ==
  ASSUME Inv, NEW s \in Sessions, NEW m \in net, ProxyRegisterRecv(s, m)
  PROVE  LocalStep
<1> DEFINE t == [px[s] EXCEPT !.pc = "learnInit", !.cn = m.c, !.control = "run"]
           u == [px[s] EXCEPT !.pc = "cleanup", !.cn = m.c,
                              !.flags = @ \cup {"stop"}]
<1>1. px[s] \in ProxyState /\ ProxyReached(px[s]) /\ m \in Messages
  BY DEF Inv, TypeOK, ProxyLocal
<1>2. s <= cur
  BY SessionsAssumption DEF Inv, TypeOK, ProxyLocal, ProxyRegisterRecv, Sessions
<1>3. net' \subseteq Messages
  BY <1>1, SessionsAssumption DEF ProxyRegisterRecv, After, RegisterAck, Inv, TypeOK,
     Messages, ToClient, Sessions
<1>4. CASE m.type = "register"
  <2>1. m.c \in Clients
    BY <1>4 DEF Inv, NetFacts, NetFact
  <2>2. t \in ProxyState /\ u \in ProxyState
    BY <1>1, <2>1 DEF ProxyState, ProxyPcs, ControlPcs, Flags
  <2>3. ProxyReached(t) /\ ProxyReached(u)
    BY <1>1, <2>1 DEF ProxyReached, QueueOpened, ProxyState, ProxyRegisterRecv
  <2>4. ProxyGrows(px[s], t) /\ ProxyGrows(px[s], u)
    BY <1>1, <2>1 DEF ProxyReached, ProxyGrows, QueueOpened, ProxyEnding,
       ProxyState, ProxyRegisterRecv
  <2>5. \/ px' = [px EXCEPT ![s] = t]
        \/ px' = [px EXCEPT ![s] = u]
    BY <1>4 DEF ProxyRegisterRecv, Inv, TypeOK
  <2> HIDE DEF t, u
  <2> QED
    BY <1>2, <1>3, <2>2, <2>3, <2>4, <2>5, ProxyUpdated DEF ProxyRegisterRecv, Inv
<1>5. CASE m.type # "register"
  BY <1>3, <1>5, NothingLocal DEF ProxyRegisterRecv, Inv, TypeOK
<1> QED BY <1>4, <1>5

\* A local step: what proxy_udp_control_loop does with a datagram.
LEMMA ProxyControlRecvLocal ==
  ASSUME TypeOK, ClientLocal, ProxyLocal,
         NEW s \in Sessions, NEW m \in net, ProxyControlRecv(s, m)
  PROVE  LocalStep
<1> DEFINE t == [px[s] EXCEPT !.flags = @ \cup {"sessionError", "stop"},
                              !.control = "off"]
           u == [px[s] EXCEPT !.got = @ \cup {"ready"}]
           v == [px[s] EXCEPT !.got = @ \cup {"startAck"}]
           w == [px[s] EXCEPT !.got = @ \cup {"stop"}, !.control = "stop1"]
<1>1. px[s] \in ProxyState /\ ProxyReached(px[s])
  BY DEF TypeOK, ProxyLocal
<1>2. s <= cur
  BY <1>1, SessionsAssumption DEF ProxyLocal, ProxyReached, TypeOK, Sessions,
     ProxyControlRecv, ProxyTakesStop
<1>3. net' \subseteq Messages
  BY SessionsAssumption DEF ProxyControlRecv, After, RegisterAck, TypeOK, Messages,
     ToClient, Sessions
<1>4. t \in ProxyState /\ u \in ProxyState /\ v \in ProxyState /\ w \in ProxyState
  BY <1>1 DEF ProxyState, ControlPcs, Flags
<1>5. ProxyReached(t) /\ ProxyReached(u) /\ ProxyReached(v) /\ ProxyReached(w)
  BY <1>1 DEF ProxyReached, QueueOpened, ProxyState, ProxyControlRecv
<1>6. /\ ProxyGrows(px[s], t) /\ ProxyGrows(px[s], u)
      /\ ProxyGrows(px[s], v) /\ ProxyGrows(px[s], w)
  BY <1>1 DEF ProxyGrows, QueueOpened, ProxyState
<1>7. \/ px' = [px EXCEPT ![s] = t]
      \/ px' = [px EXCEPT ![s] = u]
      \/ px' = [px EXCEPT ![s] = v]
      \/ px' = [px EXCEPT ![s] = w]
      \/ px' = px
  BY DEF ProxyControlRecv, ProxyTakesStop, TypeOK
<1> HIDE DEF t, u, v, w
<1> QED
  BY <1>2, <1>3, <1>4, <1>5, <1>6, <1>7, ProxyUpdated, NothingLocal
     DEF ProxyControlRecv, ProxyTakesStop, TypeOK

\* A local step, the one step of both sides: the learning callback sees the
\* marker packet.
LEMMA MarkerArriveLocal ==
  ASSUME TypeOK, ClientLocal, ProxyLocal, NEW c \in Clients, MarkerArrive(c)
  PROVE  LocalStep
<1> DEFINE t == [cl[c] EXCEPT !.marker = "arrived"]
           u(s) == [px[s] EXCEPT !.pc = "consume"]
<1>1. /\ cl[c] \in ClientState /\ ClientReached(cl[c])
      /\ cl' = [cl EXCEPT ![c] = t]
  BY DEF TypeOK, ClientLocal, MarkerArrive
<1>2. t \in ClientState /\ ClientReached(t) /\ ClientGrows(cl[c], t)
  BY <1>1 DEF ClientState, ClientReached, ClientGrows, QueueOpened, MarkerArrive
<1>3. ASSUME NEW s \in Sessions, px[s].pc = "learn"
      PROVE  u(s) \in ProxyState /\ ProxyReached(u(s)) /\ ProxyGrows(px[s], u(s))
  <2>1. px[s] \in ProxyState /\ ProxyReached(px[s])
    BY DEF TypeOK, ProxyLocal
  <2> QED BY <1>3, <2>1 DEF ProxyState, ProxyPcs, ProxyReached, ProxyGrows,
             QueueOpened, ProxyEnding
<1>4. \A s \in Sessions : \/ px[s].pc = "learn" /\ px'[s] = u(s)
                          \/ px'[s] = px[s]
  BY DEF MarkerArrive
<1>5. cl' \in [Clients -> ClientState] /\ px' \in [Sessions -> ProxyState]
  BY <1>1, <1>2, <1>3 DEF TypeOK, MarkerArrive
<1> HIDE DEF t
<1>6. ClientLocal' /\ \A d \in Clients : ClientGrows(cl[d], cl'[d])
  BY <1>1, <1>2 DEF TypeOK, ClientLocal, ClientGrows
<1>7. \A s \in Sessions : ProxyReached(px'[s]) /\ ProxyGrows(px[s], px'[s])
  <2> SUFFICES ASSUME NEW s \in Sessions
               PROVE  ProxyReached(px'[s]) /\ ProxyGrows(px[s], px'[s])
    OBVIOUS
  <2>1. CASE px'[s] = px[s]
    BY <2>1 DEF ProxyLocal, ProxyGrows
  <2>2. CASE px[s].pc = "learn" /\ px'[s] = u(s)
    BY <1>3, <2>2
  <2> QED BY <1>4, <2>1, <2>2
<1>8. \A s \in Sessions : s > cur => px'[s].pc = "idle"
  BY <1>4 DEF ProxyLocal
<1> QED BY <1>5, <1>6, <1>7, <1>8 DEF LocalStep, MarkerArrive, TypeOK, ProxyLocal

-----------------------------------------------------------------------------
(* From local steps to the invariant.                                      *)
\* What a datagram in flight says of its sender stays true.
LEMMA NetKept ==
  ASSUME Inv, LocalStep, NEW m \in net
  PROVE  NetFact(m)'
<1>1. NetFact(m) /\ m \in Messages
  BY DEF Inv, NetFacts, TypeOK
<1>2. m.type \in ToClient => m.c \in Clients /\ m.s \in Sessions /\ px'[m.s].cn = m.c
  BY <1>1, ClientsAssumption DEF NetFact, LocalStep, ProxyGrows
<1>3. /\ m.type = "learnReady" => LearnStarted(m.s)'
      /\ m.type = "readyAck" => QueueOpened(px'[m.s])
      /\ m.type = "stopToClient" => px'[m.s].pc \in ProxyEnding
  BY <1>1 DEF NetFact, ToClient, LocalStep, ProxyGrows, LearnStarted
<1>4. m.type = "startAck" => m.s \in Sessions /\ StartAcked(m.s)'
  <2> SUFFICES ASSUME m.type = "startAck"
               PROVE  m.s \in Sessions /\ StartAcked(m.s)'
    OBVIOUS
  <2>1. m.s \in Sessions /\ m.s # 0 /\ StartAcked(m.s)
    BY <1>1, SessionsAssumption DEF NetFact, Sessions
  <2>2. px'[m.s].cn = px[m.s].cn /\ px[m.s].cn \in Clients
    BY <2>1, ClientsAssumption DEF StartAcked, LocalStep, ProxyGrows
  <2> QED BY <2>1, <2>2 DEF StartAcked, LocalStep, ClientGrows
<1>5. m.type = "stopToProxy" => /\ m.c \in Clients /\ m.s # 0
                                /\ ClientEnded(m.c, m.s)'
  BY <1>1 DEF NetFact, ClientEnded, LocalStep, ClientGrows
<1> QED BY <1>1, <1>2, <1>3, <1>4, <1>5 DEF NetFact

\* What a client's ReadyState says of its session stays true.
LEMMA ClientGotKept ==
  ASSUME Inv, LocalStep, NEW c \in Clients,
         cl'[c].pn = cl[c].pn, cl'[c].got = cl[c].got
  PROVE  ClientGotFact(c)'
<1>1. ClientGotFact(c) /\ (cl[c].got # {} => cl[c].pn # 0)
  BY DEF Inv, GotFacts, ClientLocal, ClientReached
<1>2. cl[c].pn # 0 => /\ cl[c].pn \in Sessions
                      /\ px'[cl[c].pn].cn = c
                      /\ ProxyGrows(px[cl[c].pn], px'[cl[c].pn])
  BY <1>1, ClientsAssumption DEF ClientGotFact, LocalStep, ProxyGrows
<1> QED BY <1>1, <1>2 DEF ClientGotFact, LearnStarted, ProxyGrows

\* What a session's ReadyState says of its client stays true.
LEMMA ProxyGotKept ==
  ASSUME Inv, LocalStep, NEW s \in Sessions, px'[s].got = px[s].got
  PROVE  ProxyGotFact(s)'
<1>1. ProxyGotFact(s) /\ s # 0
  BY SessionsAssumption DEF Inv, GotFacts, Sessions
<1>2. px[s].cn \in Clients => px'[s].cn = px[s].cn
  BY ClientsAssumption DEF LocalStep, ProxyGrows
<1>3. "startAck" \in px'[s].got => StartAcked(s)'
  BY <1>1, <1>2 DEF ProxyGotFact, StartAcked, LocalStep, ClientGrows
<1>4. "stop" \in px'[s].got => px'[s].cn \in Clients /\ ClientEnded(px[s].cn, s)'
  BY <1>1, <1>2 DEF ProxyGotFact, ClientEnded, LocalStep, ClientGrows
<1> QED BY <1>3, <1>4 DEF ProxyGotFact, ClientEnded

\* A session that has begun to learn never begins again, so a marker that has
\* arrived stays seen.
LEMMA MarkerKept ==
  ASSUME Inv, LocalStep,
         \A c \in Clients : cl'[c].marker = "arrived" => cl[c].marker = "arrived"
  PROVE  MarkerFacts'
<1> SUFFICES ASSUME NEW c \in Clients, cl'[c].marker = "arrived",
                    px'[cl'[c].pn].conn = c, px'[cl'[c].pn].pc = "learn"
             PROVE  FALSE
  BY DEF MarkerFacts
<1>1. /\ cl[c].marker = "arrived" /\ "learnReady" \in cl[c].got
      /\ cl[c].pn # 0 /\ cl'[c].pn = cl[c].pn
  BY DEF Inv, ClientLocal, ClientReached, LocalStep, ClientGrows
<1>2. cl[c].pn \in Sessions /\ LearnStarted(cl[c].pn)
  BY <1>1 DEF Inv, GotFacts, ClientGotFact
<1>3. px[cl[c].pn].pc = "learn" /\ px[cl[c].pn].conn = c
  BY <1>1, <1>2 DEF LocalStep, ProxyGrows, LearnStarted
<1> QED BY <1>1, <1>3 DEF Inv, MarkerFacts

\* The invariant survives a local step whose new datagrams and new notes say
\* the truth.
LEMMA Preserved ==
  ASSUME Inv, LocalStep,
         \A m \in net' : m \in net \/ NetFact(m)',
         \A c \in Clients : \/ cl'[c].pn = cl[c].pn /\ cl'[c].got = cl[c].got
                            \/ ClientGotFact(c)',
         \A s \in Sessions : px'[s].got = px[s].got \/ ProxyGotFact(s)',
         \A c \in Clients : cl'[c].marker = "arrived" => cl[c].marker = "arrived"
  PROVE  Inv'
<1>1. NetFacts'
  BY NetKept DEF NetFacts
<1>2. GotFacts'
  BY ClientGotKept, ProxyGotKept DEF GotFacts
<1>3. MarkerFacts'
  BY MarkerKept
<1> QED BY <1>1, <1>2, <1>3 DEF Inv, LocalStep

\* No datagram is sent, no note made, no pairing begun, no marker arrives.
Quiet == /\ net' \subseteq net
         /\ \A c \in Clients : /\ cl'[c].pn = cl[c].pn
                               /\ cl'[c].got = cl[c].got
                               /\ cl'[c].marker = "arrived" => cl[c].marker = "arrived"
         /\ \A s \in Sessions : px'[s].got = px[s].got

\* A step that sends, notes and pairs nothing keeps the invariant.
LEMMA QuietStep ==
  ASSUME Inv, LocalStep, Quiet
  PROVE  Inv'
BY Preserved DEF Quiet

\* At most one datagram is new.
Sends(m) == net' \subseteq net \cup {m}

\* A step that sends one datagram that says the truth keeps the invariant.
LEMMA SendStep ==
  ASSUME Inv, LocalStep, NEW m, Sends(m), NetFact(m)',
         \A c \in Clients : /\ cl'[c].pn = cl[c].pn
                            /\ cl'[c].got = cl[c].got
                            /\ cl'[c].marker = cl[c].marker,
         \A s \in Sessions : px'[s].got = px[s].got
  PROVE  Inv'
BY Preserved DEF Sends

\* CLIENT_REGISTER says nothing of a session.
LEMMA RegisterSendInv ==
  ASSUME Inv, NEW c \in Clients, RegisterSend(c)
  PROVE  Inv'
<1>1. LocalStep
  BY NothingLocal, SessionsAssumption DEF Inv, TypeOK, RegisterSend, Register,
     Messages, ToProxy
<1>2. NetFact(Register(c))'
  BY DEF NetFact, Register, ToClient
<1> QED BY <1>1, <1>2, SendStep DEF RegisterSend, Sends

\* CLIENT_READY says nothing of a session.
LEMMA ReadySendInv ==
  ASSUME Inv, NEW c \in Clients, ReadySend(c)
  PROVE  Inv'
<1>1. LocalStep
  BY NothingLocal, SessionsAssumption DEF Inv, TypeOK, ReadySend, Ready,
     Messages, ToProxy
<1>2. NetFact(Ready(c))'
  BY DEF NetFact, Ready, ToClient
<1> QED BY <1>1, <1>2, SendStep DEF ReadySend, Sends

\* CLIENT_START_ACK is sent only by a client of that session whose queue is open.
LEMMA SendStartAckInv ==
  ASSUME Inv, NEW c \in Clients, SendStartAck(c)
  PROVE  Inv'
<1>1. LocalStep
  BY SendStartAckLocal DEF Inv
<1>2. cl[c] \in ClientState /\ ClientReached(cl[c]) /\ ClientGotFact(c)
  BY DEF Inv, TypeOK, ClientLocal, GotFacts
<1>3. cl[c].pn \in Sessions /\ px[cl[c].pn].cn = c /\ QueueOpened(cl[c])
  BY <1>2 DEF ClientReached, ClientGotFact, SendStartAck, ClientGoto
<1>4. /\ \A d \in Clients : /\ cl'[d].pn = cl[d].pn /\ cl'[d].got = cl[d].got
                            /\ cl'[d].marker = cl[d].marker
      /\ QueueOpened(cl'[c]) /\ px' = px
  BY <1>3 DEF SendStartAck, ClientGoto, QueueOpened, Inv, TypeOK
<1>5. NetFact(StartAck(cl[c].pn))'
  BY <1>3, <1>4 DEF NetFact, StartAck, ToClient, StartAcked
<1> QED BY <1>1, <1>4, <1>5, SendStep DEF SendStartAck, Sends

\* The client's STOP is sent only when its main thread has given up.
LEMMA ClientCleanupInv ==
  ASSUME Inv, NEW c \in Clients, ClientCleanup(c)
  PROVE  Inv'
<1>1. LocalStep
  BY ClientCleanupLocal DEF Inv
<1>2. /\ \A d \in Clients : /\ cl'[d].pn = cl[d].pn /\ cl'[d].got = cl[d].got
                            /\ cl'[d].marker = cl[d].marker
      /\ cl'[c].pc = "closing" /\ px' = px
  BY DEF ClientCleanup, Inv, TypeOK
<1>3. CASE cl[c].pn # 0
  <2>1. NetFact(StopToProxy(c, cl[c].pn))'
    BY <1>2, <1>3 DEF NetFact, StopToProxy, ToClient, ClientEnded, ClientEnding
  <2> QED BY <1>1, <1>2, <2>1, SendStep DEF ClientCleanup, Sends
<1>4. CASE cl[c].pn = 0
  BY <1>1, <1>2, <1>4, QuietStep DEF ClientCleanup, Quiet
<1> QED BY <1>3, <1>4

\* PROXY_LEARN_READY is sent when the learning queue is open.
LEMMA StartProxyLearnInv ==
  ASSUME Inv, NEW s \in Sessions, StartProxyLearn(s)
  PROVE  Inv'
<1>1. LocalStep
  BY StartProxyLearnLocal DEF Inv
<1>2. px[s].cn \in Clients
  BY DEF Inv, ProxyLocal, ProxyReached, StartProxyLearn
<1>3. /\ \A r \in Sessions : px'[r].got = px[r].got
      /\ cl' = cl /\ px'[s].pc = "learn" /\ px'[s].cn = px[s].cn
  BY DEF StartProxyLearn, Inv, TypeOK
<1>4. NetFact(LearnReady(px[s].cn, s))'
  BY <1>2, <1>3 DEF NetFact, LearnReady, ToClient, LearnStarted
<1> QED BY <1>1, <1>3, <1>4, SendStep DEF StartProxyLearn, Sends

\* PROXY_READY_ACK is sent when the tunnel queue is open.
LEMMA ProxyReadySendInv ==
  ASSUME Inv, NEW s \in Sessions, ProxyReadySend(s)
  PROVE  Inv'
<1>1. px[s].cn \in Clients /\ QueueOpened(px[s])
  BY DEF Inv, ProxyLocal, ProxyReached, ProxyReadySend
<1>2. LocalStep
  BY <1>1, NothingLocal, SessionsAssumption DEF Inv, TypeOK, ProxyReadySend,
     ReadyAck, Messages, ToClient, Sessions
<1>3. NetFact(ReadyAck(px[s].cn, s))'
  BY <1>1 DEF NetFact, ReadyAck, ToClient, ProxyReadySend
<1> QED BY <1>2, <1>3, SendStep DEF ProxyReadySend, Sends

\* The proxy's STOP is sent only when its main thread has given up.
LEMMA ProxyCleanupInv ==
  ASSUME Inv, NEW s \in Sessions, ProxyCleanup(s)
  PROVE  Inv'
<1>1. LocalStep
  BY ProxyCleanupLocal DEF Inv
<1>2. /\ \A r \in Sessions : px'[r].got = px[r].got
      /\ cl' = cl /\ px'[s].pc = "closing" /\ px'[s].cn = px[s].cn
      /\ px[s].cn \in Clients \cup {NoClient}
  BY DEF ProxyCleanup, Inv, TypeOK, ProxyState
<1>3. CASE px[s].cn \in Clients
  <2>1. NetFact(StopToClient(px[s].cn, s))'
    BY <1>2, <1>3 DEF NetFact, StopToClient, ToClient, ProxyEnding
  <2> QED BY <1>1, <1>2, <2>1, SendStep DEF ProxyCleanup, Sends
<1>4. CASE px[s].cn = NoClient
  BY <1>1, <1>2, <1>4, QuietStep DEF ProxyCleanup, Quiet
<1> QED BY <1>2, <1>3, <1>4

\* REGISTER_ACK goes to the client that the session registers.
LEMMA ProxyRegisterRecvInv ==
  ASSUME Inv, NEW s \in Sessions, NEW m \in net, ProxyRegisterRecv(s, m)
  PROVE  Inv'
<1>1. LocalStep
  BY ProxyRegisterRecvLocal
<1>2. /\ cl' = cl
      /\ \A r \in Sessions : px'[r].got = px[r].got
  BY DEF ProxyRegisterRecv, Inv, TypeOK, ProxyState
<1>3. CASE m.type = "register"
  <2>1. m.c \in Clients /\ px'[s].cn = m.c
    BY <1>3 DEF Inv, NetFacts, NetFact, ProxyRegisterRecv, TypeOK, ProxyState
  <2>2. NetFact(RegisterAck(m.c, s))'
    BY <2>1 DEF NetFact, RegisterAck, ToClient
  <2> QED BY <1>1, <1>2, <2>2, SendStep DEF ProxyRegisterRecv, Sends, After
<1>4. CASE m.type # "register"
  BY <1>1, <1>2, <1>4, QuietStep DEF ProxyRegisterRecv, Quiet, After
<1> QED BY <1>3, <1>4

\* The nonce that a client stores is of a session that registered it.
LEMMA RegisterRecvInv ==
  ASSUME Inv, NEW c \in Clients, NEW m \in net, RegisterRecv(c, m)
  PROVE  Inv'
<1>1. LocalStep
  BY RegisterRecvLocal
<1>2. /\ net' \subseteq net /\ px' = px
      /\ \A d \in Clients : /\ cl'[d].got = cl[d].got
                            /\ cl'[d].marker = cl[d].marker
                            /\ d # c => cl'[d].pn = cl[d].pn
  BY DEF RegisterRecv, After, Inv, TypeOK, ClientState
<1>3. CASE m = RegisterAck(c, m.s)
  <2>1. m.s \in Sessions /\ px'[m.s].cn = c
    BY <1>2, <1>3 DEF Inv, NetFacts, NetFact, RegisterAck, ToClient
  <2>2. cl'[c].pn = m.s /\ cl[c].got = {}
    BY <1>3 DEF RegisterRecv, Inv, TypeOK, ClientLocal, ClientReached, ClientState
  <2>3. ClientGotFact(c)'
    BY <1>2, <2>1, <2>2 DEF ClientGotFact
  <2> QED BY <1>1, <1>2, <2>3, Preserved
<1>4. CASE m # RegisterAck(c, m.s)
  BY <1>1, <1>2, <1>4, QuietStep DEF RegisterRecv, Quiet
<1> QED BY <1>3, <1>4

\* What the client's control thread notes is what the datagram says.
LEMMA ClientControlRecvInv ==
  ASSUME Inv, NEW c \in Clients, NEW m \in net, ClientControlRecv(c, m)
  PROVE  Inv'
<1>1. LocalStep
  BY ClientControlRecvLocal DEF Inv
<1>2. /\ net' \subseteq net /\ px' = px
      /\ \A d \in Clients : /\ cl'[d].pn = cl[d].pn
                            /\ cl'[d].marker = cl[d].marker
                            /\ d # c => cl'[d].got = cl[d].got
  BY DEF ClientControlRecv, After, Inv, TypeOK, ClientState
<1>3. NetFact(m) /\ ClientGotFact(c)
  BY DEF Inv, NetFacts, GotFacts
<1>4. \/ cl'[c].got = cl[c].got
      \/ cl'[c].got = cl[c].got \cup {"learnReady"} /\ LearnStarted(cl[c].pn)
      \/ cl'[c].got = cl[c].got \cup {"readyAck"} /\ QueueOpened(px[cl[c].pn])
      \/ cl'[c].got = cl[c].got \cup {"stop"} /\ px[cl[c].pn].pc \in ProxyEnding
  BY <1>3 DEF ClientControlRecv, NetFact, LearnReady, ReadyAck, StopToClient,
     ClientTakesStop, Inv, TypeOK, ClientState
<1>5. ClientGotFact(c)'
  BY <1>2, <1>3, <1>4 DEF ClientGotFact, LearnStarted
<1> QED BY <1>1, <1>2, <1>5, Preserved

\* What the proxy's control thread notes is what the datagram says.
LEMMA ProxyControlRecvInv ==
  ASSUME Inv, NEW s \in Sessions, NEW m \in net, ProxyControlRecv(s, m)
  PROVE  Inv'
<1>1. LocalStep
  BY ProxyControlRecvLocal DEF Inv
<1>2. /\ cl' = cl /\ px'[s].cn = px[s].cn
      /\ \A r \in Sessions : r # s => px'[r].got = px[r].got
  BY DEF ProxyControlRecv, ProxyTakesStop, Inv, TypeOK, ProxyState
<1>3. NetFact(m) /\ ProxyGotFact(s) /\ px[s].cn \in Clients
  BY DEF Inv, NetFacts, GotFacts, ProxyLocal, ProxyReached, ProxyControlRecv, ProxyTakesStop
<1>4. \/ px'[s].got = px[s].got
      \/ px'[s].got = px[s].got \cup {"ready"}
      \/ px'[s].got = px[s].got \cup {"startAck"} /\ StartAcked(s)
      \/ px'[s].got = px[s].got \cup {"stop"} /\ ClientEnded(px[s].cn, s)
  BY <1>3
     DEF ProxyControlRecv, ProxyTakesStop, NetFact, StartAck, StopToProxy, Inv, TypeOK,
         ProxyState
<1>5. ProxyGotFact(s)'
  BY <1>2, <1>3, <1>4 DEF ProxyGotFact, StartAcked, ClientEnded
<1>6. NetFact(RegisterAck(px[s].cn, s))'
  BY <1>2, <1>3 DEF NetFact, RegisterAck, ToClient
<1>7. \A n \in net' : n \in net \/ n = RegisterAck(px[s].cn, s)
  BY DEF ProxyControlRecv, After, Register
<1> QED BY <1>1, <1>2, <1>5, <1>6, <1>7, Preserved

\* The marker that arrives is seen by the session that waits for it.
LEMMA MarkerArriveInv ==
  ASSUME Inv, NEW c \in Clients, MarkerArrive(c)
  PROVE  Inv'
<1>1. LocalStep
  BY MarkerArriveLocal DEF Inv
<1>2. /\ net' = net
      /\ \A d \in Clients : /\ cl'[d].pn = cl[d].pn /\ cl'[d].got = cl[d].got
                            /\ d # c => cl'[d].marker = cl[d].marker
      /\ \A s \in Sessions : /\ px'[s].got = px[s].got /\ px'[s].conn = px[s].conn
                             /\ px[s].conn = c => px'[s].pc # "learn"
                             /\ px'[s].pc = "learn" => px[s].pc = "learn"
  BY DEF MarkerArrive, Inv, TypeOK
<1>3. NetFacts' /\ GotFacts'
  BY <1>1, <1>2, NetKept, ClientGotKept, ProxyGotKept DEF NetFacts, GotFacts
<1>4. MarkerFacts'
  <2> SUFFICES ASSUME NEW d \in Clients, cl'[d].marker = "arrived",
                      px'[cl'[d].pn].conn = d
               PROVE  px'[cl'[d].pn].pc # "learn"
    BY DEF MarkerFacts
  <2>1. cl[d].marker # "none" /\ cl[d].pn \in Sessions
    BY <1>2 DEF MarkerArrive, Inv, ClientLocal, ClientReached, GotFacts, ClientGotFact
  <2> QED BY <1>2, <2>1 DEF Inv, MarkerFacts
<1> QED BY <1>1, <1>3, <1>4 DEF Inv, LocalStep

\* Every step of the client's main thread keeps the invariant.
LEMMA ClientMainInv ==
  ASSUME Inv, NEW c \in Clients, ClientMain(c)
  PROVE  Inv'
<1>1. CASE Connect(c)
  <2>1. LocalStep
    BY <1>1, ConnectLocal DEF Inv
  <2>2. Quiet
    BY <1>1 DEF Inv, Quiet, TypeOK, ClientState, Connect, ClientGoto
  <2> QED BY <2>1, <2>2, QuietStep
<1>2. CASE StartLearn(c)
  <2>1. LocalStep
    BY <1>2, StartLearnLocal DEF Inv
  <2>2. Quiet
    BY <1>2 DEF Inv, Quiet, TypeOK, ClientState, StartLearn
  <2> QED BY <2>1, <2>2, QuietStep
<1>3. CASE LearnCapture(c)
  <2>1. LocalStep
    BY <1>3, LearnCaptureLocal DEF Inv
  <2>2. Quiet
    BY <1>3 DEF Inv, Quiet, TypeOK, ClientState, LearnCapture
  <2> QED BY <2>1, <2>2, QuietStep
<1>4. CASE WaitNfqDone(c)
  <2>1. LocalStep
    BY <1>4, WaitNfqDoneLocal DEF Inv
  <2>2. Quiet
    BY <1>4 DEF Inv, Quiet, TypeOK, ClientState, WaitNfqDone, ClientGoto
  <2> QED BY <2>1, <2>2, QuietStep
<1>5. CASE SendStartAck(c)
  BY <1>5, SendStartAckInv
<1>6. CASE ReadyDone(c)
  <2>1. LocalStep
    BY <1>6, ReadyDoneLocal DEF Inv
  <2>2. Quiet
    BY <1>6 DEF Inv, Quiet, TypeOK, ClientState, ReadyDone
  <2> QED BY <2>1, <2>2, QuietStep
<1>7. CASE SettleDone(c)
  <2>1. LocalStep
    BY <1>7, SettleDoneLocal DEF Inv
  <2>2. Quiet
    BY <1>7 DEF Inv, Quiet, TypeOK, ClientState, SettleDone, ClientGoto
  <2> QED BY <2>1, <2>2, QuietStep
<1>8. CASE OpenDataPlane(c)
  <2>1. LocalStep
    BY <1>8, OpenDataPlaneLocal DEF Inv
  <2>2. Quiet
    BY <1>8 DEF Inv, Quiet, TypeOK, ClientState, OpenDataPlane
  <2> QED BY <2>1, <2>2, QuietStep
<1>9. CASE ClientInterrupt(c)
  <2>1. LocalStep
    BY <1>9, ClientInterruptLocal DEF Inv
  <2>2. Quiet
    BY <1>9 DEF Inv, Quiet, TypeOK, ClientState, ClientInterrupt
  <2> QED BY <2>1, <2>2, QuietStep
<1>10. CASE ClientCleanup(c)
  BY <1>10, ClientCleanupInv
<1>11. CASE ClientClose(c)
  <2>1. LocalStep
    BY <1>11, ClientCloseLocal DEF Inv
  <2>2. Quiet
    BY <1>11 DEF Inv, Quiet, TypeOK, ClientState, ClientClose
  <2> QED BY <2>1, <2>2, QuietStep
<1>12. CASE ClientJoin(c)
  <2>1. LocalStep
    BY <1>12, ClientJoinLocal DEF Inv
  <2>2. Quiet
    BY <1>12 DEF Inv, Quiet, TypeOK, ClientState, ClientJoin
  <2> QED BY <2>1, <2>2, QuietStep
<1> QED
  BY <1>1, <1>2, <1>3, <1>4, <1>5, <1>6, <1>7, <1>8, <1>9, <1>10, <1>11,
     <1>12 DEF ClientMain

\* So does every step of its helper threads.
LEMMA ClientThreadsInv ==
  ASSUME Inv, NEW c \in Clients, ClientThreads(c)
  PROVE  Inv'
<1>1. CASE ClientControlStop(c)
  <2>1. LocalStep
    BY <1>1, ClientControlStopLocal DEF Inv
  <2>2. Quiet
    <3>1. CASE cl[c].control = "stop1"
      BY <1>1, <3>1 DEF Inv, Quiet, TypeOK, ClientState, ClientControlStop
    <3>2. CASE cl[c].control = "stop2"
      BY <1>1, <3>2 DEF Inv, Quiet, TypeOK, ClientState, ClientControlStop
    <3> QED BY <1>1, <3>1, <3>2 DEF ClientControlStop
  <2> QED BY <2>1, <2>2, QuietStep
<1>2. CASE ClientControlExit(c)
  <2>1. LocalStep
    BY <1>2, ClientControlExitLocal DEF Inv
  <2>2. Quiet
    BY <1>2 DEF Inv, Quiet, TypeOK, ClientState, ClientControlExit
  <2> QED BY <2>1, <2>2, QuietStep
<1>3. CASE ClientTunnelReady(c)
  <2>1. LocalStep
    BY <1>3, ClientTunnelReadyLocal DEF Inv
  <2>2. Quiet
    BY <1>3 DEF Inv, Quiet, TypeOK, ClientState, ClientTunnelReady
  <2> QED BY <2>1, <2>2, QuietStep
<1>4. CASE ClientTunnelEnd(c)
  <2>1. LocalStep
    BY <1>4, ClientTunnelEndLocal DEF Inv
  <2>2. Quiet
    BY <1>4 DEF Inv, Quiet, TypeOK, ClientState, ClientTunnelEnd
  <2> QED BY <2>1, <2>2, QuietStep
<1> QED BY <1>1, <1>2, <1>3, <1>4 DEF ClientThreads

\* So does every fault that strikes a client.
LEMMA ClientFaultInv ==
  ASSUME Inv, NEW c \in Clients, ClientFault(c)
  PROVE  Inv'
<1>1. CASE ClientFail(c)
  <2>1. LocalStep
    BY <1>1, ClientFailLocal DEF Inv
  <2>2. Quiet
    BY <1>1 DEF Inv, Quiet, TypeOK, ClientState, ClientFail, ClientAbandon
  <2> QED BY <2>1, <2>2, QuietStep
<1>2. CASE ClientTimeout(c)
  <2>1. LocalStep
    BY <1>2, ClientTimeoutLocal DEF Inv
  <2>2. Quiet
    BY <1>2 DEF Inv, Quiet, TypeOK, ClientState, ClientTimeout, ClientAbandon
  <2> QED BY <2>1, <2>2, QuietStep
<1>3. CASE ClientEnter(c)
  <2>1. LocalStep
    BY <1>3, ClientEnterLocal DEF Inv
  <2>2. Quiet
    BY <1>3 DEF Inv, Quiet, TypeOK, ClientState, ClientEnter, ClientAbandon
  <2> QED BY <2>1, <2>2, QuietStep
<1>4. CASE ClientTunnelFail(c)
  <2> DEFINE t == [cl[c] EXCEPT !.tunnel = "failed",
                                !.flags = @ \cup {"sessionError"}]
             u == [cl[c] EXCEPT !.tunnel = "over",
                                !.flags = @ \cup {"sessionError"}]
  <2>1. LocalStep
    BY <1>4, ClientTunnelFailLocal DEF Inv
  <2>2. /\ t.pn = cl[c].pn /\ t.got = cl[c].got /\ t.marker = cl[c].marker
        /\ u.pn = cl[c].pn /\ u.got = cl[c].got /\ u.marker = cl[c].marker
    BY DEF Inv, TypeOK, ClientState
  <2>3. cl' = [cl EXCEPT ![c] = t] \/ cl' = [cl EXCEPT ![c] = u]
    BY <1>4 DEF Inv, TypeOK, ClientTunnelFail
  <2> HIDE DEF t, u
  <2>4. \A d \in Clients : /\ cl'[d].pn = cl[d].pn /\ cl'[d].got = cl[d].got
                            /\ cl'[d].marker = cl[d].marker
    BY <2>2, <2>3 DEF Inv, TypeOK
  <2> QED BY <1>4, <2>1, <2>4, QuietStep DEF Quiet, ClientTunnelFail
<1>5. CASE ClientRawFail(c)
  <2>1. LocalStep
    BY <1>5, ClientRawFailLocal DEF Inv
  <2>2. Quiet
    BY <1>5 DEF Inv, Quiet, TypeOK, ClientState, ClientRawFail
  <2> QED BY <2>1, <2>2, QuietStep
<1>6. CASE ClientSignal(c)
  <2>1. LocalStep
    BY <1>6, ClientSignalLocal DEF Inv
  <2>2. Quiet
    BY <1>6 DEF Inv, Quiet, TypeOK, ClientState, ClientSignal
  <2> QED BY <2>1, <2>2, QuietStep
<1>7. CASE ClientCrash(c)
  <2>1. LocalStep
    BY <1>7, ClientCrashLocal DEF Inv
  <2>2. Quiet
    BY <1>7 DEF Inv, Quiet, TypeOK, ClientState, ClientCrash
  <2> QED BY <2>1, <2>2, QuietStep
<1> QED BY <1>1, <1>2, <1>3, <1>4, <1>5, <1>6, <1>7 DEF ClientFault

\* Every step of the proxy's main thread keeps the invariant.
LEMMA ProxyMainInv ==
  ASSUME Inv, NEW s \in Sessions, ProxyMain(s)
  PROVE  Inv'
<1>1. CASE Accept(s)
  <2>1. LocalStep
    BY <1>1, AcceptLocal DEF Inv
  <2>2. Quiet
    BY <1>1 DEF Inv, Quiet, TypeOK, ProxyState, Accept
  <2> QED BY <2>1, <2>2, QuietStep
<1>2. CASE StartProxyLearn(s)
  BY <1>2, StartProxyLearnInv
<1>3. CASE ProxyLearnDone(s)
  <2>1. LocalStep
    BY <1>3, ProxyLearnDoneLocal DEF Inv
  <2>2. Quiet
    BY <1>3 DEF Inv, Quiet, TypeOK, ProxyState, ProxyLearnDone
  <2> QED BY <2>1, <2>2, QuietStep
<1>4. CASE ProxyNfqDone(s)
  <2>1. LocalStep
    BY <1>4, ProxyNfqDoneLocal DEF Inv
  <2>2. Quiet
    BY <1>4 DEF Inv, Quiet, TypeOK, ProxyState, ProxyNfqDone
  <2> QED BY <2>1, <2>2, QuietStep
<1>5. CASE ProxyReadyDone(s)
  <2>1. LocalStep
    BY <1>5, ProxyReadyDoneLocal DEF Inv
  <2>2. Quiet
    BY <1>5 DEF Inv, Quiet, TypeOK, ProxyState, ProxyReadyDone
  <2> QED BY <2>1, <2>2, QuietStep
<1>6. CASE OpenProxyDataPlane(s)
  <2>1. LocalStep
    BY <1>6, OpenProxyDataPlaneLocal DEF Inv
  <2>2. Quiet
    BY <1>6 DEF Inv, Quiet, TypeOK, ProxyState, OpenProxyDataPlane
  <2> QED BY <2>1, <2>2, QuietStep
<1>7. CASE ProxyInterrupt(s)
  <2>1. LocalStep
    BY <1>7, ProxyInterruptLocal DEF Inv
  <2>2. Quiet
    BY <1>7 DEF Inv, Quiet, TypeOK, ProxyState, ProxyInterrupt
  <2> QED BY <2>1, <2>2, QuietStep
<1>8. CASE ProxyCleanup(s)
  BY <1>8, ProxyCleanupInv
<1>9. CASE ProxyClose(s)
  <2>1. LocalStep
    BY <1>9, ProxyCloseLocal DEF Inv
  <2>2. Quiet
    BY <1>9 DEF Inv, Quiet, TypeOK, ProxyState, ProxyClose
  <2> QED BY <2>1, <2>2, QuietStep
<1>10. CASE ProxyJoin(s)
  <2>1. LocalStep
    BY <1>10, ProxyJoinLocal DEF Inv
  <2>2. Quiet
    BY <1>10 DEF Inv, Quiet, TypeOK, ProxyState, ProxyJoin
  <2> QED BY <2>1, <2>2, QuietStep
<1> QED
  BY <1>1, <1>2, <1>3, <1>4, <1>5, <1>6, <1>7, <1>8, <1>9, <1>10 DEF
     ProxyMain

\* So does every step of its helper threads.
LEMMA ProxyThreadsInv ==
  ASSUME Inv, NEW s \in Sessions, ProxyThreads(s)
  PROVE  Inv'
<1>1. CASE ProxyControlStop(s)
  <2>1. LocalStep
    BY <1>1, ProxyControlStopLocal DEF Inv
  <2>2. Quiet
    <3>1. CASE px[s].control = "stop1"
      BY <1>1, <3>1 DEF Inv, Quiet, TypeOK, ProxyState, ProxyControlStop
    <3>2. CASE px[s].control = "stop2"
      BY <1>1, <3>2 DEF Inv, Quiet, TypeOK, ProxyState, ProxyControlStop
    <3> QED BY <1>1, <3>1, <3>2 DEF ProxyControlStop
  <2> QED BY <2>1, <2>2, QuietStep
<1>2. CASE ProxyControlExit(s)
  <2>1. LocalStep
    BY <1>2, ProxyControlExitLocal DEF Inv
  <2>2. Quiet
    BY <1>2 DEF Inv, Quiet, TypeOK, ProxyState, ProxyControlExit
  <2> QED BY <2>1, <2>2, QuietStep
<1>3. CASE ProxyTunnelReady(s)
  <2>1. LocalStep
    BY <1>3, ProxyTunnelReadyLocal DEF Inv
  <2>2. Quiet
    BY <1>3 DEF Inv, Quiet, TypeOK, ProxyState, ProxyTunnelReady
  <2> QED BY <2>1, <2>2, QuietStep
<1>4. CASE ProxyTunnelEnd(s)
  <2>1. LocalStep
    BY <1>4, ProxyTunnelEndLocal DEF Inv
  <2>2. Quiet
    BY <1>4 DEF Inv, Quiet, TypeOK, ProxyState, ProxyTunnelEnd
  <2> QED BY <2>1, <2>2, QuietStep
<1> QED BY <1>1, <1>2, <1>3, <1>4 DEF ProxyThreads

\* So does every fault that strikes a session.
LEMMA ProxyFaultInv ==
  ASSUME Inv, NEW s \in Sessions, ProxyFault(s)
  PROVE  Inv'
<1>1. CASE ProxyFail(s)
  <2>1. LocalStep
    BY <1>1, ProxyFailLocal DEF Inv
  <2>2. Quiet
    BY <1>1 DEF Inv, Quiet, TypeOK, ProxyState, ProxyFail, ProxyAbandon
  <2> QED BY <2>1, <2>2, QuietStep
<1>2. CASE ProxyTimeout(s)
  <2>1. LocalStep
    BY <1>2, ProxyTimeoutLocal DEF Inv
  <2>2. Quiet
    BY <1>2 DEF Inv, Quiet, TypeOK, ProxyState, ProxyTimeout, ProxyAbandon
  <2> QED BY <2>1, <2>2, QuietStep
<1>3. CASE ProxyTunnelFail(s)
  <2>1. LocalStep
    BY <1>3, ProxyTunnelFailLocal DEF Inv
  <2>2. Quiet
    <3>1. CASE px[s].tunnel = "starting"
      BY <1>3, <3>1 DEF Inv, Quiet, TypeOK, ProxyState, ProxyTunnelFail
    <3>2. CASE px[s].tunnel = "ready"
      BY <1>3, <3>2 DEF Inv, Quiet, TypeOK, ProxyState, ProxyTunnelFail
    <3> QED BY <1>3, <3>1, <3>2 DEF ProxyTunnelFail
  <2> QED BY <2>1, <2>2, QuietStep
<1>4. CASE ProxyRawFail(s)
  <2>1. LocalStep
    BY <1>4, ProxyRawFailLocal DEF Inv
  <2>2. Quiet
    BY <1>4 DEF Inv, Quiet, TypeOK, ProxyState, ProxyRawFail
  <2> QED BY <2>1, <2>2, QuietStep
<1> QED BY <1>1, <1>2, <1>3, <1>4 DEF ProxyFault

-----------------------------------------------------------------------------
(* The theorems.                                                           *)

\* The invariant holds before anything has happened.
LEMMA InvInit ==
  ASSUME Init
  PROVE  Inv
<1>1. InitClient \in ClientState /\ InitSession \in ProxyState
  BY SessionsAssumption DEF InitClient, InitSession, ClientState, ProxyState,
     ClientPcs, ProxyPcs, ControlPcs, TunnelPcs, Flags
<1>2. TypeOK
  <2>1. cl \in [Clients -> ClientState] /\ px \in [Sessions -> ProxyState]
    BY <1>1 DEF Init
  <2>2. cur \in 0 .. MaxSessions
    BY SessionsAssumption DEF Init
  <2>3. backlog \in Seq(Clients) /\ net \subseteq Messages
    BY DEF Init
  <2>4. psignal \in BOOLEAN
    BY DEF Init
  <2> QED BY <2>1, <2>2, <2>3, <2>4 DEF TypeOK
<1>3. ClientLocal
  BY DEF Init, InitClient, ClientLocal, ClientReached
<1>4. ProxyLocal
  BY DEF Init, InitSession, ProxyLocal, ProxyReached
<1>5. NetFacts /\ GotFacts /\ MarkerFacts
  BY DEF Init, InitClient, InitSession, NetFacts, GotFacts, ClientGotFact,
     ProxyGotFact, MarkerFacts
<1> QED BY <1>2, <1>3, <1>4, <1>5 DEF Inv

\* Every step of LteControl keeps the invariant.
LEMMA InvNext ==
  ASSUME Inv, [Next]_vars
  PROVE  Inv'
<1>1. ASSUME NEW c \in Clients, ClientNext(c) PROVE Inv'
  BY <1>1, ClientMainInv, RegisterSendInv, ReadySendInv, ClientThreadsInv,
     ClientFaultInv, MarkerArriveInv, RegisterRecvInv, ClientControlRecvInv
     DEF ClientNext, ClientSend, ClientRecv
<1>2. ASSUME NEW s \in Sessions, ProxyNext(s) PROVE Inv'
  BY <1>2, ProxyMainInv, ProxyReadySendInv, ProxyThreadsInv, ProxyFaultInv,
     ProxyRegisterRecvInv, ProxyControlRecvInv DEF ProxyNext, ProxyRecv
<1>3. CASE ProxySignal
  <2>1. LocalStep
    BY <1>3, NothingLocal DEF ProxySignal, Inv, TypeOK
  <2> QED BY <1>3, <2>1, QuietStep DEF ProxySignal, Quiet
<1>4. ASSUME NEW m \in net, Lose(m) PROVE Inv'
  <2>1. LocalStep
    BY <1>4, NothingLocal DEF Lose, Inv, TypeOK
  <2> QED BY <1>4, <2>1, QuietStep DEF Lose, Quiet
<1>5. CASE UNCHANGED vars
  <2>1. LocalStep
    BY <1>5, NothingLocal DEF vars, Inv, TypeOK
  <2> QED BY <1>5, <2>1, QuietStep DEF vars, Quiet
<1> QED BY <1>1, <1>2, <1>3, <1>4, <1>5 DEF Next

\* The invariant holds throughout every run of the two programs.
THEOREM InvAlways == Spec => []Inv
BY InvInit, InvNext, PTL DEF Spec

\* Every control variable of both programs always has a value of its type.
THEOREM TypeCorrect == Spec => []TypeOK
<1>1. Inv => TypeOK
  BY DEF Inv
<1> QED BY <1>1, InvAlways, PTL

\* A client is paired only with a session that registered it, whatever the
\* network repeats, delays, loses or delivers to a later run of the client.
THEOREM RegistrationAgrees == Spec => []RegistrationAgreement
<1>1. Inv => RegistrationAgreement
  BY DEF Inv, GotFacts, ClientGotFact, RegistrationAgreement
<1> QED BY <1>1, InvAlways, PTL

\* The marker is written only when the session it is for has its learning
\* queue in place, and is seen there.
THEOREM MarkerIsSeen == Spec => []MarkerNotMissed
<1>1. Inv => MarkerNotMissed
  BY DEF Inv, ClientLocal, ClientReached, GotFacts, ClientGotFact, LearnStarted,
     MarkerFacts, MarkerNotMissed
<1> QED BY <1>1, InvAlways, PTL

\* A side that has done the READY handshake knows both tunnel queues open.
THEOREM ReadyAgrees == Spec => []ReadyAgreement
<1>1. Inv => ReadyAgreement
  BY DEF Inv, ClientLocal, ProxyLocal, ClientReached, ProxyReached, GotFacts,
     ClientGotFact, ProxyGotFact, StartAcked, ReadyAgreement
<1> QED BY <1>1, InvAlways, PTL

\* A STOP is taken only from the other side of this pairing, and only when
\* that side has given up.
THEOREM StopIsJustified == Spec => []StopJustified
<1>1. Inv => StopJustified
  BY DEF Inv, GotFacts, ClientGotFact, ProxyGotFact, ClientEnded, StopJustified
<1> QED BY <1>1, InvAlways, PTL
-----------------------------------------------------------------------------
(***************************************************************************)
(* Who writes to the state of a client or of a session.  A main thread, a  *)
(* datagram, a helper thread or a fault writes to one client or to one     *)
(* session, and to neither once it has ended: that its helpers are off by  *)
(* then is what ClientLocal and ProxyLocal say.                            *)
(***************************************************************************)
OnlyClient(c) == /\ px' = px
                 /\ \/ cl' = cl
                    \/ /\ cl[c].pc # "done"
                       /\ \A d \in Clients \ {c} : cl'[d] = cl[d]

OnlySession(s) == /\ cl' = cl
                  /\ \/ px' = px
                     \/ /\ px[s].pc # "closed"
                        /\ \A r \in Sessions \ {s} : px'[r] = px[r]

\* Every step of a client but the arrival of its marker.
LEMMA ClientWrites ==
  ASSUME Inv, NEW c \in Clients,
         \/ ClientMain(c) \/ ClientSend(c) \/ ClientThreads(c) \/ ClientFault(c)
         \/ \E m \in net : ClientRecv(c, m)
  PROVE  OnlyClient(c)
<1>1. /\ cl \in [Clients -> ClientState]
      /\ cl[c].pc = "done" => /\ cl[c].control = "off"
                              /\ cl[c].tunnel \in {"off", "over", "failed"}
                              /\ ~ cl[c].plane
  BY DEF Inv, TypeOK, ClientLocal, ClientReached
<1> USE <1>1 DEF OnlyClient
<1>2. CASE ClientInterrupt(c)
  <2>1. cl[c].pc # "done"
    BY <1>2 DEF ClientInterrupt, ClientInterrupted, ClientPolls
  <2> QED BY <1>2, <2>1 DEF ClientInterrupt
<1>3. ASSUME ClientMain(c), ~ ClientInterrupt(c) PROVE OnlyClient(c)
  BY <1>3 DEF ClientMain, ClientGoto, Connect, StartLearn, LearnCapture, WaitNfqDone,
    SendStartAck, ReadyDone, SettleDone, OpenDataPlane, ClientCleanup, ClientClose,
    ClientJoin
<1>4. CASE ClientSend(c)
  BY <1>4 DEF ClientSend, RegisterSend, ReadySend
<1>5. CASE ClientThreads(c)
  BY <1>5 DEF ClientThreads, ClientControlStop, ClientControlExit, ClientTunnelReady,
    ClientTunnelEnd
<1>6. CASE ClientFault(c)
  BY <1>6 DEF ClientFault, ClientFail, ClientTimeout, ClientEnter, ClientTunnelFail,
    ClientRawFail, ClientSignal, ClientCrash, ClientAbandon
<1>7. ASSUME NEW m \in net, ClientRecv(c, m) PROVE OnlyClient(c)
  <2>1. CASE RegisterRecv(c, m)
    BY <2>1 DEF RegisterRecv
  <2>2. CASE ClientControlRecv(c, m)
    BY <2>2 DEF ClientControlRecv
  <2> QED BY <1>7, <2>1, <2>2 DEF ClientRecv
<1> QED BY <1>2, <1>3, <1>4, <1>5, <1>6, <1>7

\* Every step of a session.
LEMMA SessionWrites ==
  ASSUME Inv, NEW s \in Sessions, ProxyNext(s)
  PROVE  OnlySession(s)
<1>1. /\ px \in [Sessions -> ProxyState]
      /\ px[s].pc = "closed" => /\ px[s].control = "off"
                                /\ px[s].tunnel \in {"off", "over", "failed"}
                                /\ ~ px[s].plane
  BY DEF Inv, TypeOK, ProxyLocal, ProxyReached
<1> USE <1>1 DEF OnlySession
<1>2. CASE Accept(s)
  <2>1. px[s].pc = "idle"
    BY <1>2, SessionsAssumption DEF Accept, Inv, TypeOK, ProxyLocal, Sessions
  <2> QED BY <1>2, <2>1 DEF Accept
<1>3. CASE ProxyInterrupt(s)
  BY <1>3 DEF ProxyInterrupt, ProxyInterrupted
<1>4. ASSUME ProxyMain(s), ~ Accept(s), ~ ProxyInterrupt(s) PROVE OnlySession(s)
  BY <1>4 DEF ProxyMain, StartProxyLearn, ProxyLearnDone, ProxyNfqDone, ProxyReadyDone,
    OpenProxyDataPlane, ProxyCleanup, ProxyClose, ProxyJoin
<1>5. CASE ProxyReadySend(s)
  BY <1>5 DEF ProxyReadySend
<1>6. CASE ProxyThreads(s)
  BY <1>6 DEF ProxyThreads, ProxyControlStop, ProxyControlExit, ProxyTunnelReady,
    ProxyTunnelEnd
<1>7. CASE ProxyFault(s)
  BY <1>7 DEF ProxyFault, ProxyFail, ProxyTimeout, ProxyTunnelFail, ProxyRawFail,
    ProxyAbandon
<1>8. ASSUME NEW m \in net, ProxyRecv(s, m) PROVE OnlySession(s)
  BY <1>8 DEF ProxyRecv, ProxyRegisterRecv, ProxyControlRecv
<1> QED BY <1>2, <1>3, <1>4, <1>5, <1>6, <1>7, <1>8 DEF ProxyNext

\* Nothing writes to the state of a client that has ended, but for the marker
\* still on its way, nor to that of a closed session: the main threads join
\* their helpers first.
THEOREM EndedStaysUntouched == Spec => EndedIsUntouched
<1> DEFINE Untouched ==
      /\ \A s \in Sessions : px[s].pc = "closed" => px'[s] = px[s]
      /\ \A c \in Clients : cl[c].pc = "done" =>
           cl'[c] = [cl[c] EXCEPT !.marker = cl'[c].marker]
<1>1. ASSUME Inv, [Next]_vars PROVE Untouched
  <2>1. \A c \in Clients : cl[c] = [cl[c] EXCEPT !.marker = cl[c].marker]
    BY <1>1 DEF Inv, TypeOK, ClientState
  <2>2. ASSUME NEW c \in Clients, OnlyClient(c) PROVE Untouched
    BY <2>1, <2>2 DEF OnlyClient
  <2>3. ASSUME NEW s \in Sessions, OnlySession(s) PROVE Untouched
    BY <2>1, <2>3 DEF OnlySession
  <2>4. ASSUME NEW c \in Clients, MarkerArrive(c) PROVE Untouched
    BY <1>1, <2>1, <2>4 DEF MarkerArrive, Inv, TypeOK, ClientState
  <2>5. CASE UNCHANGED <<cl, px>>
    BY <2>1, <2>5
  <2> HIDE DEF Untouched
  <2>6. ASSUME NEW c \in Clients, ClientNext(c) PROVE Untouched
    BY <1>1, <2>2, <2>4, <2>6, ClientWrites DEF ClientNext
  <2>7. ASSUME NEW s \in Sessions, ProxyNext(s) PROVE Untouched
    BY <1>1, <2>3, <2>7, SessionWrites
  <2> QED BY <1>1, <2>5, <2>6, <2>7 DEF Next, ProxySignal, Lose, vars
<1>2. Inv /\ [Next]_vars => [Untouched]_vars
  BY <1>1
<1> QED BY <1>2, InvAlways, PTL DEF Spec, EndedIsUntouched
=============================================================================
