----------------------------- MODULE LteControl -----------------------------
(***************************************************************************)
(* The UDP control protocol of the LTE-free tunnel: the handshake that     *)
(* LTE-Free-Client-Program and LTE-Free-Proxy-Server-Program run before    *)
(* and after they move packets, with the threads and the loops that run it *)
(* on both sides.                                                          *)
(*                                                                         *)
(* A client is one run of the client program: it makes one nonce, so its   *)
(* identity stands for client_nonce, and a restarted client is another     *)
(* element of Clients.  A session is one turn of the proxy's accept loop:  *)
(* it makes one nonce, so its number stands for proxy_nonce and 0 for an   *)
(* empty nonce.  Time is abstracted: a timeout may strike whenever its     *)
(* loop is waiting, a retry whenever its loop sends.                       *)
(*                                                                         *)
(* A loop that polls flags sees them when it comes round, so an action     *)
(* that leaves such a loop is guarded by the flags being down; a step that *)
(* follows a blocking receive is not, because the flag may have been       *)
(* raised while the receive was blocked.                                   *)
(***************************************************************************)
EXTENDS Naturals, Sequences

CONSTANTS Clients,       \* the runs of the client program
          NoClient,      \* an empty client nonce, or no accepted connection
          MaxSessions,   \* bound: the sessions the proxy accepts
          Faults         \* the faults that may strike

ASSUME ClientsAssumption  == NoClient \notin Clients
ASSUME SessionsAssumption == MaxSessions \in Nat

VARIABLES cl,       \* the state of each client
          px,       \* the state of each proxy session
          cur,      \* the latest session accepted, 0 before the first
          backlog,  \* connections waiting in the proxy's accept queue
          net,      \* the datagrams in flight
          psignal   \* g_signal_stop of the proxy

vars == <<cl, px, cur, backlog, net, psignal>>

Sessions == 1 .. MaxSessions
-----------------------------------------------------------------------------
(***************************************************************************)
(* Datagrams.  CLIENT_REGISTER and CLIENT_READY carry the client's nonce,  *)
(* CLIENT_START_ACK the proxy's, the others both.                          *)
(***************************************************************************)
ToClient == {"registerAck", "learnReady", "readyAck", "stopToClient"}
ToProxy  == {"register", "ready", "startAck", "stopToProxy"}

\* The type of a datagram is the fault of losing such datagrams.
AllFaults == {"local", "clientTimeout", "proxyTimeout", "signal", "user", "raw",
              "crash", "duplicate", "rebind"} \cup ToClient \cup ToProxy

ASSUME FaultsAssumption == Faults \subseteq AllFaults

Messages == [type : ToClient \cup ToProxy,
             c : Clients \cup {NoClient}, s : 0 .. MaxSessions]

\* Mutated: the acknowledgement carries the nonce of the next session.
RegisterAckOfNext(c, s) == [type |-> "registerAck", c |-> c, s |-> s + 1]

Register(c)        == [type |-> "register",     c |-> c,        s |-> 0]
RegisterAck(c, s)  == [type |-> "registerAck",  c |-> c,        s |-> s]
LearnReady(c, s)   == [type |-> "learnReady",   c |-> c,        s |-> s]
Ready(c)           == [type |-> "ready",        c |-> c,        s |-> 0]
ReadyAck(c, s)     == [type |-> "readyAck",     c |-> c,        s |-> s]
StartAck(s)        == [type |-> "startAck",     c |-> NoClient, s |-> s]
StopToClient(c, s) == [type |-> "stopToClient", c |-> c,        s |-> s]
StopToProxy(c, s)  == [type |-> "stopToProxy",  c |-> c,        s |-> s]

\* What is left in flight when m has been received: the network may keep
\* another copy of it.
After(m) == IF "duplicate" \in Faults THEN net ELSE net \ {m}

\* The client's UDP socket that a datagram reaches.  An address may have
\* passed to another run of the client by the time the datagram arrives.
Reaches(m, c) == m.c = c \/ "rebind" \in Faults
-----------------------------------------------------------------------------
(***************************************************************************)
(* State.  flags holds the atomics stop, session_stop and session_error    *)
(* (and the client's g_signal_stop); got holds what the control thread     *)
(* has recorded in the ReadyState under its lock.                          *)
(***************************************************************************)
Flags == {"stop", "sessionStop", "sessionError", "signal"}

ControlPcs == {"off", "run", "stop1", "stop2"}

\* failed: ended before the queue was ready; over: ended after it was.
TunnelPcs == {"off", "starting", "ready", "over", "failed"}

ClientPcs == {"start", "register", "waitLearn", "learn", "waitNfq", "ready",
              "startAck", "settle", "build", "up",
              "cleanup", "closing", "join", "done", "crashed"}

ProxyPcs == {"idle", "register", "learnInit", "learn", "consume", "waitNfq",
             "ready", "build", "up", "cleanup", "closing", "join", "closed"}

ClientState ==
  [pc : ClientPcs, pn : 0 .. MaxSessions,
   got : SUBSET {"learnReady", "readyAck", "stop"}, flags : SUBSET Flags,
   control : ControlPcs, tunnel : TunnelPcs, done : BOOLEAN, plane : BOOLEAN,
   marker : {"none", "sent", "arrived"}]

ProxyState ==
  [pc : ProxyPcs, conn : Clients \cup {NoClient}, cn : Clients \cup {NoClient},
   got : SUBSET {"ready", "startAck", "stop"}, flags : SUBSET Flags,
   control : ControlPcs, tunnel : TunnelPcs, done : BOOLEAN, plane : BOOLEAN]

\* Every control variable has a value of its type.
TypeOK == /\ cl \in [Clients -> ClientState]
          /\ px \in [Sessions -> ProxyState]
          /\ cur \in 0 .. MaxSessions
          /\ backlog \in Seq(Clients)
          /\ net \subseteq Messages
          /\ psignal \in BOOLEAN

InitClient == [pc |-> "start", pn |-> 0, got |-> {}, flags |-> {},
               control |-> "off", tunnel |-> "off", done |-> FALSE,
               plane |-> FALSE, marker |-> "none"]

InitSession == [pc |-> "idle", conn |-> NoClient, cn |-> NoClient, got |-> {},
                flags |-> {}, control |-> "off", tunnel |-> "off",
                done |-> FALSE, plane |-> FALSE]

Init == /\ cl = [c \in Clients |-> InitClient]
        /\ px = [s \in Sessions |-> InitSession]
        /\ cur = 0
        /\ backlog = <<>>
        /\ net = {}
        /\ psignal = FALSE
-----------------------------------------------------------------------------
(***************************************************************************)
(* The client's main thread.                                               *)
(***************************************************************************)

\* The flags that each wait of the client's main thread polls.
ClientPolls(pc) ==
  CASE pc \in {"register", "waitLearn", "ready"} -> {"signal", "stop"}
    [] pc = "learn"                              -> {"stop"}
    [] pc \in {"waitNfq", "settle"}              -> Flags
    [] pc = "build"                              -> Flags \ {"signal"}
    [] pc = "up"                                 -> Flags \ {"stop"}
    [] OTHER                                     -> {}

\* Mutated: the wait for PROXY_LEARN_READY does not look at g_signal_stop.
ClientInterruptedNoSignal(c) ==
  LET unseen == IF cl[c].pc = "waitLearn" THEN {"signal"} ELSE {} IN
  \/ cl[c].flags \cap (ClientPolls(cl[c].pc) \ unseen) # {}
  \/ cl[c].pc \in {"waitLearn", "ready"} /\ "stop" \in cl[c].got

\* Mutated: wait_for_stop_request does not look at session_stop.
ClientInterruptedNoStop(c) ==
  LET unseen == IF cl[c].pc = "up" THEN {"sessionStop"} ELSE {} IN
  \/ cl[c].flags \cap (ClientPolls(cl[c].pc) \ unseen) # {}
  \/ cl[c].pc \in {"waitLearn", "ready"} /\ "stop" \in cl[c].got

ClientInterrupted(c) ==
  \/ cl[c].flags \cap ClientPolls(cl[c].pc) # {}
  \/ cl[c].pc \in {"waitLearn", "ready"} /\ "stop" \in cl[c].got

ClientGoto(c, from, to) == /\ cl[c].pc = from
                           /\ ~ ClientInterrupted(c)
                           /\ cl' = [cl EXCEPT ![c].pc = to]

\* connect_proxy, the UDP socket, the raw configuration.
Connect(c) == /\ ClientGoto(c, "start", "register")
              /\ backlog' = Append(backlog, c)
              /\ UNCHANGED <<px, cur, psignal, net>>

RegisterSend(c) == /\ cl[c].pc = "register"
                   /\ ~ ClientInterrupted(c)
                   /\ net' = net \cup {Register(c)}
                   /\ UNCHANGED <<cl, px, cur, psignal, backlog>>

\* Mutated: the client nonce of the acknowledgement is not compared.
RegisterRecvAny(c, m) ==
  /\ cl[c].pc = "register"
  /\ m \in net /\ m.type \in ToClient /\ Reaches(m, c)
  /\ net' = After(m)
  /\ IF m.type = "registerAck"
     THEN cl' = [cl EXCEPT ![c].pc = "waitLearn", ![c].pn = m.s,
                           ![c].control = "run"]
     ELSE UNCHANGED cl
  /\ UNCHANGED <<px, cur, psignal, backlog>>

\* An acknowledgement of this client's nonce registers it and starts the
\* control thread; whatever else is read in this loop is thrown away.
RegisterRecv(c, m) ==
  /\ cl[c].pc = "register"
  /\ m \in net /\ m.type \in ToClient /\ Reaches(m, c)
  /\ net' = After(m)
  /\ IF m = RegisterAck(c, m.s)
     THEN cl' = [cl EXCEPT ![c].pc = "waitLearn", ![c].pn = m.s,
                           ![c].control = "run"]
     ELSE UNCHANGED cl
  /\ UNCHANGED <<px, cur, psignal, backlog>>

\* Mutated: the marker is written without waiting for PROXY_LEARN_READY.
StartLearnEarly(c) ==
  /\ cl[c].pc = "waitLearn"
  /\ ~ ClientInterrupted(c)
  /\ cl' = [cl EXCEPT ![c].pc = "learn", ![c].marker = "sent"]
  /\ UNCHANGED <<px, cur, psignal, backlog, net>>

\* PROXY_LEARN_READY has come: install the learning rule and the queue, and
\* only then write the marker byte on the TCP connection.
StartLearn(c) == /\ cl[c].pc = "waitLearn"
                 /\ ~ ClientInterrupted(c)
                 /\ "learnReady" \in cl[c].got
                 /\ cl' = [cl EXCEPT ![c].pc = "learn", ![c].marker = "sent"]
                 /\ UNCHANGED <<px, cur, psignal, backlog, net>>

\* The callback sees the marker packet; main swaps the learning rule for the
\* tunnel rule and starts the tunnel thread.
LearnCapture(c) == /\ cl[c].pc = "learn"
                   /\ cl' = [cl EXCEPT ![c].pc = "waitNfq",
                                       ![c].tunnel = "starting"]
                   /\ UNCHANGED <<px, cur, psignal, backlog, net>>

\* Mutated: the wait for nfqueue_ready is left at once.
WaitNfqDoneEarly(c) == /\ ClientGoto(c, "waitNfq", "ready")
                       /\ UNCHANGED <<px, cur, psignal, backlog, net>>

WaitNfqDone(c) == /\ cl[c].tunnel = "ready"
                  /\ ClientGoto(c, "waitNfq", "ready")
                  /\ UNCHANGED <<px, cur, psignal, backlog, net>>

ReadySend(c) == /\ cl[c].pc = "ready"
                /\ ~ ClientInterrupted(c)
                /\ "readyAck" \notin cl[c].got
                /\ net' = net \cup {Ready(c)}
                /\ UNCHANGED <<cl, px, cur, psignal, backlog>>

\* CLIENT_START_ACK is sent three times, without waiting for an answer ...
SendStartAck(c) == /\ "readyAck" \in cl[c].got
                   /\ ClientGoto(c, "ready", "startAck")
                   /\ net' = net \cup {StartAck(cl[c].pn)}
                   /\ UNCHANGED <<px, cur, psignal, backlog>>

\* ... and only then is ready_done set.
ReadyDone(c) == /\ cl[c].pc = "startAck"
                /\ cl' = [cl EXCEPT ![c].pc = "settle", ![c].done = TRUE]
                /\ UNCHANGED <<px, cur, psignal, backlog, net>>

SettleDone(c) == /\ ClientGoto(c, "settle", "build")
                 /\ UNCHANGED <<px, cur, psignal, backlog, net>>

\* tun, routes and raw socket are ready: open the data plane.
OpenDataPlane(c) == /\ cl[c].pc = "build"
                    /\ ~ ClientInterrupted(c)
                    /\ cl' = [cl EXCEPT ![c].pc = "up", ![c].plane = TRUE]
                    /\ UNCHANGED <<px, cur, psignal, backlog, net>>

\* A wait that finds one of its flags raised goes to cleanup.
ClientInterrupt(c) == /\ ClientInterrupted(c)
                      /\ cl' = [cl EXCEPT ![c].pc = "cleanup"]
                      /\ UNCHANGED <<px, cur, psignal, backlog, net>>

ClientAbandon(c) == /\ cl' = [cl EXCEPT ![c].pc = "cleanup"]
                    /\ UNCHANGED <<px, cur, psignal, backlog, net>>

\* A system call of the main thread fails.
ClientFail(c) == /\ "local" \in Faults
                 /\ cl[c].pc \in {"start", "register", "waitLearn", "learn",
                                  "ready", "startAck", "build"}
                 /\ ClientAbandon(c)

\* A handshake has lasted UDP_TIMEOUT_SECONDS.
ClientTimeout(c) == /\ "clientTimeout" \in Faults
                    /\ cl[c].pc \in {"register", "ready"}
                    /\ ClientAbandon(c)

\* The user presses Enter, which is read only while the tunnel is up.
ClientEnter(c) == /\ "user" \in Faults
                  /\ cl[c].pc = "up"
                  /\ ClientAbandon(c)

\* UDP STOP goes to the proxy only if this client registered and no STOP of
\* the proxy has been carried through to session_stop.
ClientCleanup(c) ==
  /\ cl[c].pc = "cleanup"
  /\ net' = IF cl[c].pn # 0 /\ "sessionStop" \notin cl[c].flags
            THEN net \cup {StopToProxy(c, cl[c].pn)} ELSE net
  /\ cl' = [cl EXCEPT ![c].pc = "closing"]
  /\ UNCHANGED <<px, cur, psignal, backlog>>

ClientClose(c) ==
  /\ cl[c].pc = "closing"
  /\ cl' = [cl EXCEPT ![c].pc = "join", ![c].plane = FALSE,
                      ![c].flags = @ \cup {"stop", "sessionStop"}]
  /\ UNCHANGED <<px, cur, psignal, backlog, net>>

ClientJoin(c) == /\ cl[c].pc = "join"
                 /\ cl[c].control = "off"
                 /\ cl[c].tunnel \in {"off", "over", "failed"}
                 /\ cl' = [cl EXCEPT ![c].pc = "done"]
                 /\ UNCHANGED <<px, cur, psignal, backlog, net>>
-----------------------------------------------------------------------------
(***************************************************************************)
(* The client's control and tunnel threads, its raw thread's failures and  *)
(* its signals.                                                            *)
(***************************************************************************)

\* A STOP counts only with the nonces of this pairing.
ClientTakesStop(c, m) == m = StopToClient(c, cl[c].pn)

\* A datagram with the wrong nonces is read and ignored.
ClientControlRecv(c, m) ==
  /\ cl[c].control = "run"
  /\ m \in net /\ m.type \in ToClient /\ Reaches(m, c)
  /\ net' = After(m)
  /\ \/ /\ m = LearnReady(c, cl[c].pn)
        /\ cl' = [cl EXCEPT ![c].got = @ \cup {"learnReady"}]
     \/ /\ m = ReadyAck(c, cl[c].pn)
        /\ cl' = [cl EXCEPT ![c].got = @ \cup {"readyAck"}]
     \/ /\ ClientTakesStop(c, m)
        /\ cl' = [cl EXCEPT ![c].got = @ \cup {"stop"}, ![c].control = "stop1"]
     \/ /\ m \notin {LearnReady(c, cl[c].pn), ReadyAck(c, cl[c].pn)}
        /\ ~ ClientTakesStop(c, m)
        /\ UNCHANGED cl
  /\ UNCHANGED <<px, cur, psignal, backlog>>

\* After stop_received the thread stores session_stop, then stop.
ClientControlStop(c) ==
  /\ \/ /\ cl[c].control = "stop1"
        /\ cl' = [cl EXCEPT ![c].control = "stop2",
                            ![c].flags = @ \cup {"sessionStop"}]
     \/ /\ cl[c].control = "stop2"
        /\ cl' = [cl EXCEPT ![c].control = "off", ![c].flags = @ \cup {"stop"}]
  /\ UNCHANGED <<px, cur, psignal, backlog, net>>

ClientControlExit(c) == /\ cl[c].control = "run"
                        /\ cl[c].flags # {}
                        /\ cl' = [cl EXCEPT ![c].control = "off"]
                        /\ UNCHANGED <<px, cur, psignal, backlog, net>>

ClientTunnelReady(c) == /\ cl[c].tunnel = "starting"
                        /\ cl' = [cl EXCEPT ![c].tunnel = "ready"]
                        /\ UNCHANGED <<px, cur, psignal, backlog, net>>

ClientTunnelEnd(c) == /\ cl[c].tunnel = "ready"
                      /\ cl[c].flags \ {"signal"} # {}
                      /\ cl' = [cl EXCEPT ![c].tunnel = "over"]
                      /\ UNCHANGED <<px, cur, psignal, backlog, net>>

\* Opening the queue, or reading it, fails.
ClientTunnelFail(c) ==
  /\ "local" \in Faults
  /\ \/ /\ cl[c].tunnel = "starting"
        /\ cl' = [cl EXCEPT ![c].tunnel = "failed",
                            ![c].flags = @ \cup {"sessionError"}]
     \/ /\ cl[c].tunnel = "ready"
        /\ cl' = [cl EXCEPT ![c].tunnel = "over",
                            ![c].flags = @ \cup {"sessionError"}]
  /\ UNCHANGED <<px, cur, psignal, backlog, net>>

\* The raw thread raises stop alone, which the wait of "up" does not poll.
ClientRawFail(c) == /\ "raw" \in Faults
                    /\ cl[c].plane
                    /\ cl' = [cl EXCEPT ![c].flags = @ \cup {"stop"}]
                    /\ UNCHANGED <<px, cur, psignal, backlog, net>>

ClientSignal(c) == /\ "signal" \in Faults
                   /\ cl[c].pc \notin {"done", "crashed"}
                   /\ cl' = [cl EXCEPT ![c].flags = @ \cup {"signal"}]
                   /\ UNCHANGED <<px, cur, psignal, backlog, net>>

\* The process is killed: its threads and sockets go with it.
ClientCrash(c) == /\ "crash" \in Faults
                  /\ cl[c].pc \notin {"done", "crashed"}
                  /\ cl' = [cl EXCEPT ![c].pc = "crashed", ![c].plane = FALSE,
                                      ![c].control = "off", ![c].tunnel =
                                        IF @ \in {"ready", "over"} THEN "over" ELSE "off"]
                  /\ UNCHANGED <<px, cur, psignal, backlog, net>>
-----------------------------------------------------------------------------
(***************************************************************************)
(* The proxy's main thread, in session s.                                  *)
(***************************************************************************)
ProxyInterrupted(s) ==
  \/ /\ px[s].pc \in {"learnInit", "learn", "consume", "waitNfq", "ready", "build", "up"}
     /\ "stop" \in px[s].flags
  \/ px[s].pc \in {"register", "learn", "consume", "ready", "up"} /\ psignal
  \/ /\ px[s].pc = "waitNfq" /\ px[s].tunnel # "ready"
     /\ psignal \/ "sessionError" \in px[s].flags
  \/ px[s].pc = "ready" /\ "stop" \in px[s].got
  \/ px[s].pc = "up" /\ px[s].flags # {}

Accept(s) == /\ s = cur + 1
             /\ cur # 0 => px[cur].pc = "closed"
             /\ ~ psignal
             /\ backlog # <<>>
             /\ px' = [px EXCEPT ![s].pc = "register", ![s].conn = Head(backlog)]
             /\ backlog' = Tail(backlog)
             /\ cur' = s
             /\ UNCHANGED <<cl, net, psignal>>

\* The first REGISTER read is taken, whoever sent it.  If its acknowledgement
\* cannot be sent the session stops, registered as it is.
ProxyRegisterRecv(s, m) ==
  /\ px[s].pc = "register"
  /\ m \in net /\ m.type \in ToProxy
  /\ \/ /\ m.type = "register"
        /\ px' = [px EXCEPT ![s].pc = "learnInit", ![s].cn = m.c, ![s].control = "run"]
        /\ net' = After(m) \cup {RegisterAck(m.c, s)}
     \/ /\ m.type = "register" /\ "local" \in Faults
        /\ px' = [px EXCEPT ![s].pc = "cleanup", ![s].cn = m.c,
                            ![s].flags = @ \cup {"stop"}]
        /\ net' = After(m)
     \/ /\ m.type # "register"
        /\ net' = After(m)
        /\ UNCHANGED px
  /\ UNCHANGED <<cl, cur, psignal, backlog>>

\* The learning rule is installed, the queue is created, and only then is
\* PROXY_LEARN_READY sent, once.
StartProxyLearn(s) ==
  /\ px[s].pc = "learnInit"
  /\ "stop" \notin px[s].flags
  /\ px' = [px EXCEPT ![s].pc = "learn"]
  /\ net' = net \cup {LearnReady(px[s].cn, s)}
  /\ UNCHANGED <<cl, cur, psignal, backlog>>

\* The marker packet reaches the proxy's host, once the client's own learning
\* queue has let it go.  It is seen only by a session that is learning and
\* whose connection it belongs to.
MarkerArrive(c) ==
  /\ cl[c].marker = "sent"
  /\ cl[c].pc # "learn"
  /\ cl' = [cl EXCEPT ![c].marker = "arrived"]
  /\ px' = [s \in Sessions |->
              IF px[s].pc = "learn" /\ px[s].conn = c
              THEN [px[s] EXCEPT !.pc = "consume"] ELSE px[s]]
  /\ UNCHANGED <<cur, psignal, backlog, net>>

\* The learning rule is deleted, the marker byte is read from the socket, the
\* tunnel rule is installed and the tunnel thread started.
ProxyLearnDone(s) ==
  /\ px[s].pc = "consume"
  /\ "stop" \notin px[s].flags
  /\ px' = [px EXCEPT ![s].pc = "waitNfq", ![s].tunnel = "starting"]
  /\ UNCHANGED <<cl, cur, psignal, backlog, net>>

ProxyNfqDone(s) == /\ px[s].pc = "waitNfq"
                   /\ px[s].tunnel = "ready"
                   /\ "stop" \notin px[s].flags
                   /\ px' = [px EXCEPT ![s].pc = "ready"]
                   /\ UNCHANGED <<cl, cur, psignal, backlog, net>>

\* Mutated: PROXY_READY_ACK waits for CLIENT_START_ACK.
ProxyReadySendLate(s) == /\ px[s].pc = "ready"
                         /\ ~ ProxyInterrupted(s)
                         /\ {"ready", "startAck"} \subseteq px[s].got
                         /\ net' = net \cup {ReadyAck(px[s].cn, s)}
                         /\ UNCHANGED <<cl, px, cur, psignal, backlog>>

\* Mutated: PROXY_READY_ACK is sent until CLIENT_READY comes, not after.
ProxyReadySendEarly(s) == /\ px[s].pc = "ready"
                          /\ ~ ProxyInterrupted(s)
                          /\ "ready" \notin px[s].got
                          /\ net' = net \cup {ReadyAck(px[s].cn, s)}
                          /\ UNCHANGED <<cl, px, cur, psignal, backlog>>

ProxyReadySend(s) == /\ px[s].pc = "ready"
                     /\ ~ ProxyInterrupted(s)
                     /\ "ready" \in px[s].got /\ "startAck" \notin px[s].got
                     /\ net' = net \cup {ReadyAck(px[s].cn, s)}
                     /\ UNCHANGED <<cl, px, cur, psignal, backlog>>

ProxyReadyDone(s) == /\ px[s].pc = "ready"
                     /\ ~ ProxyInterrupted(s)
                     /\ "startAck" \in px[s].got
                     /\ px' = [px EXCEPT ![s].pc = "build", ![s].done = TRUE]
                     /\ UNCHANGED <<cl, cur, psignal, backlog, net>>

\* tun, NAT rules, raw socket and raw thread are ready: open the data plane.
OpenProxyDataPlane(s) ==
  /\ px[s].pc = "build"
  /\ "stop" \notin px[s].flags
  /\ px' = [px EXCEPT ![s].pc = "up", ![s].plane = TRUE]
  /\ UNCHANGED <<cl, cur, psignal, backlog, net>>

\* A wait or a gate that finds the session stopping skips to the cleanup; all
\* but the wait of "up" raise stop on the way.
ProxyInterrupt(s) ==
  /\ ProxyInterrupted(s)
  /\ px' = [px EXCEPT ![s].pc = "cleanup",
                      ![s].flags = IF px[s].pc = "up" THEN @ ELSE @ \cup {"stop"}]
  /\ UNCHANGED <<cl, cur, psignal, backlog, net>>

ProxyAbandon(s) == /\ px' = [px EXCEPT ![s].pc = "cleanup",
                                       ![s].flags = @ \cup {"stop"}]
                   /\ UNCHANGED <<cl, cur, psignal, backlog, net>>

ProxyFail(s) == /\ "local" \in Faults
                /\ px[s].pc \in {"register", "learnInit", "learn", "consume",
                                 "waitNfq", "ready", "build"}
                /\ ProxyAbandon(s)

\* Mutated: the READY handshake has no timeout.
ProxyTimeoutNotReady(s) == /\ "proxyTimeout" \in Faults
                           /\ px[s].pc \in {"register", "consume"}
                           /\ ProxyAbandon(s)

\* 20 s for the handshakes, 3 s for the marker byte.
ProxyTimeout(s) == /\ "proxyTimeout" \in Faults
                   /\ px[s].pc \in {"register", "consume", "ready"}
                   /\ ProxyAbandon(s)

\* should_send_udp_stop: registered, and no STOP received.
ProxyCleanup(s) ==
  /\ px[s].pc = "cleanup"
  /\ net' = IF px[s].cn # NoClient /\ "stop" \notin px[s].got
            THEN net \cup {StopToClient(px[s].cn, s)} ELSE net
  /\ px' = [px EXCEPT ![s].pc = "closing"]
  /\ UNCHANGED <<cl, cur, psignal, backlog>>

ProxyClose(s) ==
  /\ px[s].pc = "closing"
  /\ px' = [px EXCEPT ![s].pc = "join", ![s].plane = FALSE,
                      ![s].flags = @ \cup {"stop", "sessionStop"}]
  /\ UNCHANGED <<cl, cur, psignal, backlog, net>>

\* Mutated: the control thread is not joined.
ProxyJoinEarly(s) == /\ px[s].pc = "join"
                     /\ px[s].tunnel \in {"off", "over", "failed"}
                     /\ px' = [px EXCEPT ![s].pc = "closed"]
                     /\ UNCHANGED <<cl, cur, psignal, backlog, net>>

ProxyJoin(s) == /\ px[s].pc = "join"
                /\ px[s].control = "off"
                /\ px[s].tunnel \in {"off", "over", "failed"}
                /\ px' = [px EXCEPT ![s].pc = "closed"]
                /\ UNCHANGED <<cl, cur, psignal, backlog, net>>
-----------------------------------------------------------------------------
(***************************************************************************)
(* The proxy's control and tunnel threads, its raw thread's failures and   *)
(* its signal.                                                             *)
(***************************************************************************)

\* Mutated: the nonces are not compared.
ProxyTakesAnyStop(s, m) == m.type = "stopToProxy"

\* A STOP counts only with the nonces of this session.
ProxyTakesStop(s, m) == m = StopToProxy(px[s].cn, s)

\* A REGISTER of the registered client is acknowledged again; if that cannot
\* be sent, session_error and stop are raised and the thread ends.
ProxyControlRecv(s, m) ==
  /\ px[s].control = "run"
  /\ m \in net /\ m.type \in ToProxy
  /\ \/ /\ m = Register(px[s].cn)
        /\ net' = After(m) \cup {RegisterAck(m.c, s)}
        /\ UNCHANGED px
     \/ /\ m = Register(px[s].cn) /\ "local" \in Faults
        /\ net' = After(m)
        /\ px' = [px EXCEPT ![s].flags = @ \cup {"sessionError", "stop"},
                            ![s].control = "off"]
     \/ /\ m = Ready(px[s].cn)
        /\ net' = After(m)
        /\ px' = [px EXCEPT ![s].got = @ \cup {"ready"}]
     \/ /\ m = StartAck(s)
        /\ net' = After(m)
        /\ px' = [px EXCEPT ![s].got = @ \cup {"startAck"}]
     \/ /\ ProxyTakesStop(s, m)
        /\ net' = After(m)
        /\ px' = [px EXCEPT ![s].got = @ \cup {"stop"}, ![s].control = "stop1"]
     \/ /\ m \notin {Register(px[s].cn), Ready(px[s].cn), StartAck(s)}
        /\ ~ ProxyTakesStop(s, m)
        /\ net' = After(m)
        /\ UNCHANGED px
  /\ UNCHANGED <<cl, cur, psignal, backlog>>

\* Mutated: the thread ends without storing stop.
ProxyControlStopHalf(s) ==
  /\ \/ /\ px[s].control = "stop1"
        /\ px' = [px EXCEPT ![s].control = "stop2",
                            ![s].flags = @ \cup {"sessionStop"}]
     \/ /\ px[s].control = "stop2"
        /\ px' = [px EXCEPT ![s].control = "off"]
  /\ UNCHANGED <<cl, cur, psignal, backlog, net>>

ProxyControlStop(s) ==
  /\ \/ /\ px[s].control = "stop1"
        /\ px' = [px EXCEPT ![s].control = "stop2",
                            ![s].flags = @ \cup {"sessionStop"}]
     \/ /\ px[s].control = "stop2"
        /\ px' = [px EXCEPT ![s].control = "off", ![s].flags = @ \cup {"stop"}]
  /\ UNCHANGED <<cl, cur, psignal, backlog, net>>

ProxyControlExit(s) == /\ px[s].control = "run"
                       /\ px[s].flags # {} \/ psignal
                       /\ px' = [px EXCEPT ![s].control = "off"]
                       /\ UNCHANGED <<cl, cur, psignal, backlog, net>>

ProxyTunnelReady(s) == /\ px[s].tunnel = "starting"
                       /\ px' = [px EXCEPT ![s].tunnel = "ready"]
                       /\ UNCHANGED <<cl, cur, psignal, backlog, net>>

ProxyTunnelEnd(s) == /\ px[s].tunnel = "ready"
                     /\ px[s].flags # {}
                     /\ px' = [px EXCEPT ![s].tunnel = "over"]
                     /\ UNCHANGED <<cl, cur, psignal, backlog, net>>

ProxyTunnelFail(s) ==
  /\ "local" \in Faults
  /\ \/ /\ px[s].tunnel = "starting"
        /\ px' = [px EXCEPT ![s].tunnel = "failed",
                            ![s].flags = @ \cup {"sessionError"}]
     \/ /\ px[s].tunnel = "ready"
        /\ px' = [px EXCEPT ![s].tunnel = "over",
                            ![s].flags = @ \cup {"sessionError"}]
  /\ UNCHANGED <<cl, cur, psignal, backlog, net>>

ProxyRawFail(s) == /\ "raw" \in Faults
                   /\ px[s].plane
                   /\ px' = [px EXCEPT ![s].flags = @ \cup {"stop"}]
                   /\ UNCHANGED <<cl, cur, psignal, backlog, net>>

ProxySignal == /\ "signal" \in Faults
               /\ ~ psignal
               /\ psignal' = TRUE
               /\ UNCHANGED <<cl, px, cur, backlog, net>>

Lose(m) == /\ m.type \in Faults
           /\ m \in net
           /\ net' = net \ {m}
           /\ UNCHANGED <<cl, px, cur, psignal, backlog>>
-----------------------------------------------------------------------------
(* The steps that the code takes on its own, and the rest.                 *)
ClientMain(c) ==
  \/ Connect(c) \/ StartLearn(c) \/ LearnCapture(c) \/ WaitNfqDone(c)
  \/ SendStartAck(c) \/ ReadyDone(c) \/ SettleDone(c) \/ OpenDataPlane(c)
  \/ ClientInterrupt(c) \/ ClientCleanup(c) \/ ClientClose(c) \/ ClientJoin(c)

ClientSend(c) == RegisterSend(c) \/ ReadySend(c)

ClientRecv(c, m) == RegisterRecv(c, m) \/ ClientControlRecv(c, m)

ClientThreads(c) == \/ ClientControlStop(c) \/ ClientControlExit(c)
                    \/ ClientTunnelReady(c) \/ ClientTunnelEnd(c)

ClientFault(c) == \/ ClientFail(c) \/ ClientTimeout(c) \/ ClientEnter(c)
                  \/ ClientTunnelFail(c) \/ ClientRawFail(c)
                  \/ ClientSignal(c) \/ ClientCrash(c)

ProxyMain(s) ==
  \/ Accept(s) \/ StartProxyLearn(s) \/ ProxyLearnDone(s) \/ ProxyNfqDone(s)
  \/ ProxyReadyDone(s) \/ OpenProxyDataPlane(s)
  \/ ProxyInterrupt(s) \/ ProxyCleanup(s) \/ ProxyClose(s) \/ ProxyJoin(s)

ProxyRecv(s, m) == ProxyRegisterRecv(s, m) \/ ProxyControlRecv(s, m)

ProxyThreads(s) == \/ ProxyControlStop(s) \/ ProxyControlExit(s)
                   \/ ProxyTunnelReady(s) \/ ProxyTunnelEnd(s)

ProxyFault(s) == \/ ProxyFail(s) \/ ProxyTimeout(s)
                 \/ ProxyTunnelFail(s) \/ ProxyRawFail(s)

ClientNext(c) == \/ ClientMain(c) \/ ClientSend(c) \/ ClientThreads(c)
                 \/ ClientFault(c) \/ MarkerArrive(c)
                 \/ \E m \in net : ClientRecv(c, m)

ProxyNext(s) == \/ ProxyMain(s) \/ ProxyReadySend(s) \/ ProxyThreads(s)
                \/ ProxyFault(s)
                \/ \E m \in net : ProxyRecv(s, m)

Next == \/ \E c \in Clients : ClientNext(c)
        \/ \E s \in Sessions : ProxyNext(s)
        \/ ProxySignal
        \/ \E m \in net : Lose(m)

Spec == Init /\ [][Next]_vars
-----------------------------------------------------------------------------
(***************************************************************************)
(* Fairness: the steps that the code takes on its own are taken.  The main *)
(* thread polls every 10 ms to 1 s, the other threads block for at most    *)
(* 1 s, and the kernel delivers the marker.  Nothing is assumed of a       *)
(* fault, of the user or of a signal.                                      *)
(***************************************************************************)
OwnStepsFair ==
  /\ \A c \in Clients : /\ WF_vars(ClientMain(c))
                        /\ WF_vars(RegisterSend(c))
                        /\ WF_vars(ReadySend(c))
                        /\ WF_vars(ClientThreads(c))
                        /\ WF_vars(MarkerArrive(c))
  /\ \A s \in Sessions : /\ WF_vars(ProxyMain(s))
                         /\ WF_vars(ProxyReadySend(s))
                         /\ WF_vars(ProxyThreads(s))

\* A wait that has a timeout ends.
TimeoutsFair == /\ \A c \in Clients : WF_vars(ClientTimeout(c))
                /\ \A s \in Sessions : WF_vars(ProxyTimeout(s))

\* A datagram that stays in flight is received: a socket's queue is read in
\* turn by whoever reads it.
ReceiveFair ==
  \A c \in Clients, s \in Sessions :
    /\ \A m \in {RegisterAck(c, s), LearnReady(c, s), ReadyAck(c, s),
                 StopToClient(c, s)} : WF_vars(ClientRecv(c, m))
    /\ \A m \in {Register(c), Ready(c), StartAck(s), StopToProxy(c, s)} :
         WF_vars(ProxyRecv(s, m))

\* On a lossy network, a datagram that is sent again and again is received.
ResendFair ==
  \A c \in Clients, s \in Sessions :
    /\ \A m \in {RegisterAck(c, s), ReadyAck(c, s)} : SF_vars(ClientRecv(c, m))
    /\ \A m \in {Register(c), Ready(c)} : SF_vars(ProxyRecv(s, m))

FairSpec  == Spec /\ OwnStepsFair /\ TimeoutsFair /\ ReceiveFair
LossySpec == Spec /\ OwnStepsFair /\ ReceiveFair /\ ResendFair
-----------------------------------------------------------------------------
(***************************************************************************)
(* Properties.                                                             *)
(***************************************************************************)
QueueOpened(t) == t.tunnel \in {"ready", "over"}

ClientEnding == {"closing", "join", "done", "crashed"}

ProxyEnding == {"closing", "join", "closed"}

\* A client holds a proxy nonce only of a session that registered this very
\* client: acknowledgements repeated, delayed or sent to another address
\* never pair a client with a session of somebody else (run_client_udp_register,
\* run_proxy_udp_register and the re-acknowledgement of the control loop).
RegistrationAgreement ==
  \A c \in Clients : cl[c].pn # 0 => px[cl[c].pn].cn = c

\* No learning marker is wasted: when the marker of a client is written, the
\* session it is paired with has its learning queue in place or is past that,
\* and when the marker of the connection that the session accepted has arrived,
\* the session no longer waits for one.
MarkerNotMissed ==
  \A c \in Clients :
    cl[c].marker # "none" =>
      LET p == px[cl[c].pn] IN
        /\ p.pc \notin {"idle", "register", "learnInit"}
        /\ cl[c].marker = "arrived" /\ p.conn = c => p.pc # "learn"

\* What the READY handshake is for: a side that has done it knows that both
\* tunnel queues have been opened, each for the nonce of the other.
ReadyAgreement ==
  /\ \A c \in Clients : cl[c].done => /\ QueueOpened(cl[c])
                                      /\ QueueOpened(px[cl[c].pn])
  /\ \A s \in Sessions : px[s].done => /\ QueueOpened(px[s])
                                       /\ px[s].cn \in Clients
                                       /\ QueueOpened(cl[px[s].cn])
                                       /\ cl[px[s].cn].pn = s

\* A side takes a STOP only when the other side of this very pairing has
\* ended or is past the point of no return: a STOP of an earlier session, or
\* of another client, never ends this one.
StopJustified ==
  /\ \A c \in Clients : "stop" \in cl[c].got => px[cl[c].pn].pc \in ProxyEnding
  /\ \A s \in Sessions :
       "stop" \in px[s].got => /\ px[s].cn \in Clients
                              /\ cl[px[s].cn].pn = s
                              /\ cl[px[s].cn].pc \in ClientEnding

\* The main threads outlive their helpers: once a session is closed, or a
\* client has ended, no late datagram and no thread writes to its state, which
\* in the code has gone out of scope.
EndedIsUntouched ==
  [][ /\ \A s \in Sessions : px[s].pc = "closed" => px'[s] = px[s]
      /\ \A c \in Clients : cl[c].pc = "done" =>
           cl'[c] = [cl[c] EXCEPT !.marker = cl'[c].marker] ]_vars

\* A session belongs to the connection it accepted: the client it registers is
\* the one whose TCP connection it holds.
RegisteredIsAccepted ==
  \A s \in Sessions : px[s].cn # NoClient => px[s].cn = px[s].conn

\* The client's raw thread has failed: it has raised stop alone, at which the
\* control thread has ended with every STOP unread, and wait_for_stop_request
\* goes on, as it does not look at stop.
Deserted(c) == /\ cl[c].pc = "up"
               /\ cl[c].flags = {"stop"}
               /\ cl[c].control = "off"
               /\ "stop" \notin cl[c].got

\* A STOP on its way to a client of that session ends the client, whatever its
\* main thread is doing, with one exception: a client whose raw thread fails
\* before the control thread has read the STOP stays up until its user ends it.
ClientStopped ==
  \A c \in Clients, s \in Sessions :
    cl[c].pn = s /\ StopToClient(c, s) \in net
      ~> cl[c].pc \in {"done", "crashed"} \/ Deserted(c)

\* A STOP on its way to the proxy ends its session, whatever the proxy is
\* doing, and the proxy accepts again.
SessionStopped ==
  \A c \in Clients, s \in Sessions :
    StopToProxy(c, s) \in net ~> px[s].pc = "closed"

\* Once PROXY_LEARN_READY is on its way to a client that waits for it, nothing
\* but a fault keeps the two sides from opening their data planes: the loss of
\* a datagram that is sent again is no such fault.
DataPlanesOpen ==
  \A c \in Clients, s \in Sessions :
    cl[c].pc = "waitLearn" /\ LearnReady(c, s) \in net
      ~> cl[c].plane /\ px[s].plane

\* On a lossy network the READY handshake still ends on both sides: a client
\* that sends READY to a waiting proxy gets its answer.
ReadyAnswered ==
  \A c \in Clients, s \in Sessions :
    cl[c].pc = "ready" /\ cl[c].pn = s /\ px[s].pc = "ready"
      ~> cl[c].done \/ px[s].pc # "ready"

\* Ctrl+C ends the client that gets it and the session the proxy is in, also
\* from the waits that do not look at the signal.
SignalEnds ==
  /\ \A c \in Clients : "signal" \in cl[c].flags ~> cl[c].pc \in {"done", "crashed"}
  /\ \A s \in Sessions : psignal /\ s = cur ~> px[s].pc = "closed"

\* A session error ends the session on the side that met it, although the READY
\* handshake does not look at session_error: there only the timeout ends it.
SessionErrorEnds ==
  /\ \A c \in Clients :
       "sessionError" \in cl[c].flags ~> cl[c].pc \in {"done", "crashed"}
  /\ \A s \in Sessions : "sessionError" \in px[s].flags ~> px[s].pc = "closed"
=============================================================================
