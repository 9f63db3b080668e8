------------------------------ MODULE VpnTunnel ------------------------------
(***************************************************************************)
(* The TCP tunnelling VPN: a client and a proxy, each a main thread and    *)
(* two workers.  One worker reads packets from the tun device and sends    *)
(* them down the TCP connection; the other cuts the byte stream into       *)
(* packets again and writes them to its tun device.  The mains prepare the *)
(* host, wait, and put it back.  A command that undoes something is taken  *)
(* to succeed: the programs do not look at its result.                     *)
(*                                                                         *)
(* The kernels' TCP is external: a stream with a window, end of file,      *)
(* reset.  Neither program ignores SIGPIPE, so that a send on a connection *)
(* that is shut or has been reset kills the process.                       *)
(***************************************************************************)
EXTENDS Naturals, Sequences, FiniteSets

CONSTANTS Supply,  \* bound: the packets that each tun device will hand out
          Header,  \* the bytes of a packet that its length is read from: 20
          Window,  \* the bytes that the connection holds in each direction
          Rules    \* the commands of setup_nat_rules that add a rule: 3

Sides == {"client", "proxy"}

Peer(x) == IF x = "client" THEN "proxy" ELSE "client"

ASSUME SupplyAssumption == \A x \in Sides : Supply[x] \in Seq([id : Nat, len : Nat])
ASSUME LengthAssumption ==
  /\ Header \in Nat \ {0} /\ Window \in Nat \ {0} /\ Rules \in Nat
  /\ \A x \in Sides : \A i \in 1 .. Len(Supply[x]) : Supply[x][i].len >= Header

VARIABLES main,     \* how far each main thread is
          up,       \* the worker from the tun device to the connection
          down,     \* the worker from the connection to the tun device
          stop,     \* the flag the three threads of a side share
          sig,      \* the proxy's g_signal_stop
          hand,     \* what send_all has not sent yet of its packet
          buffer,   \* stream_buffer
          line,     \* the socket: reset has an error to report, dead has not
          fin,      \* the side has shut its direction of the stream
          stream,   \* what the side has sent and the other not received
          read,     \* the packets read from the tun device
          written,  \* the packets written to it
          tun,      \* the tun device exists
          gateway,  \* the client's default route: "gateway", "tun" or "none"
          except,   \* the client's route to the proxy past the tun device
          nat       \* the proxy's rules

threads == <<main, up, down, stop, sig>>
socket  == <<line, fin, stream>>
data    == <<hand, buffer, read, written>>
host    == <<tun, gateway, except, nat>>
vars    == <<threads, socket, data, host>>
-----------------------------------------------------------------------------
(***************************************************************************)
(* Bytes.                                                                  *)
(***************************************************************************)
Byte(p, i) == [of |-> p, at |-> i]

Bytes(p) == [i \in 1 .. p.len |-> Byte(p, i)]

\* Mutated: the packet is popped as soon as its header is there.
TryPopHeader(b) ==
  IF Len(b) < Header \/ b[1].at # 1 THEN 0
  ELSE IF Len(b) < b[1].of.len THEN Len(b) ELSE b[1].of.len

\* Mutated: off by one, a packet waits for the first byte of the next.
TryPopLate(b) ==
  IF Len(b) < Header \/ b[1].at # 1 \/ Len(b) <= b[1].of.len THEN 0 ELSE b[1].of.len

\* try_pop_ipv4_packet: how many bytes it takes off the front, 0 for none.  A
\* byte that does not begin a packet does not read as version 4.
TryPop(b) ==
  IF Len(b) < Header \/ b[1].at # 1 \/ Len(b) < b[1].of.len THEN 0 ELSE b[1].of.len

Front(s, n) == SubSeq(s, 1, n)
Rest(s, n)  == SubSeq(s, n + 1, Len(s))
-----------------------------------------------------------------------------
(***************************************************************************)
(* State.  A main that is killed has not run its cleanup; one that is lost *)
(* has ended without it.                                                   *)
(***************************************************************************)
Over == {"ended", "lost", "killed"}

MainPhases(x) ==
  Over \cup IF x = "client"
           THEN {"start", "tun", "routed", "connected", "up", "stopping", "restored",
                 "unrouted", "join"}
           ELSE {"listen", "accepted", "tun", "up", "stopping", "join", "joined"}

\* Every variable has a value of its type.
TypeOK ==
  /\ \A x \in Sides : main[x] \in MainPhases(x)
  /\ up \in [Sides -> {"none", "check", "read", "send", "over"}]
  /\ down \in [Sides -> {"none", "check", "recv", "pop", "over"}]
  /\ stop \in [Sides -> BOOLEAN] /\ sig \in BOOLEAN
  /\ line \in [Sides -> {"none", "open", "reset", "dead"}]
  /\ fin \in [Sides -> BOOLEAN] /\ tun \in [Sides -> BOOLEAN]
  /\ \A x \in Sides : Len(stream[x]) <= Window
  /\ gateway \in {"gateway", "tun", "none"} /\ except \in BOOLEAN
  /\ nat \in 0 .. Rules

Init ==
  /\ main = [x \in Sides |-> IF x = "client" THEN "start" ELSE "listen"]
  /\ up = [x \in Sides |-> "none"] /\ down = [x \in Sides |-> "none"]
  /\ stop = [x \in Sides |-> FALSE] /\ sig = FALSE
  /\ hand = [x \in Sides |-> <<>>] /\ buffer = [x \in Sides |-> <<>>]
  /\ line = [x \in Sides |-> "none"] /\ fin = [x \in Sides |-> FALSE]
  /\ stream = [x \in Sides |-> <<>>]
  /\ read = [x \in Sides |-> <<>>] /\ written = [x \in Sides |-> <<>>]
  /\ tun = [x \in Sides |-> FALSE]
  /\ gateway = "gateway" /\ except = FALSE
  /\ nat = 0
-----------------------------------------------------------------------------
(***************************************************************************)
(* The connection.                                                         *)
(***************************************************************************)

\* x sends its end of file.
Fin(x) == /\ line' = [line EXCEPT ![x] = "dead"]
          /\ fin' = [fin EXCEPT ![x] = TRUE]
          /\ UNCHANGED stream

\* The socket of x is closed, by x or with its process: what lies unread in
\* it is answered with a reset instead.
Hangup(x) ==
  IF line[x] = "open" /\ stream[Peer(x)] # <<>>
  THEN /\ line' = [line EXCEPT ![x] = "dead",
                               ![Peer(x)] = IF @ = "open" THEN "reset" ELSE @]
       /\ stream' = [stream EXCEPT ![Peer(x)] = <<>>]
       /\ UNCHANGED fin
  ELSE IF line[x] = "open" THEN Fin(x)
  ELSE UNCHANGED socket

\* What x sends to a socket that is shut is answered with a reset.
Reset(x) == /\ line[x] = "open" /\ line[Peer(x)] = "dead"
            /\ stream[x] # <<>>
            /\ line' = [line EXCEPT ![x] = IF fin[Peer(x)] THEN "dead" ELSE "reset"]
            /\ stream' = [stream EXCEPT ![x] = <<>>]
            /\ UNCHANGED <<threads, fin, data, host>>

\* SIGPIPE.  The tun device goes with the process, and a route with its device.
Killed(x) == /\ up[x] = "send" /\ line[x] = "dead"
             /\ main' = [main EXCEPT ![x] = "killed"]
             /\ up' = [up EXCEPT ![x] = "over"]
             /\ down' = [down EXCEPT ![x] = "over"]
             /\ tun' = [tun EXCEPT ![x] = FALSE]
             /\ gateway' = IF x = "client" /\ gateway = "tun" THEN "none" ELSE gateway
             /\ UNCHANGED <<stop, sig, socket, data, except, nat>>
-----------------------------------------------------------------------------
(***************************************************************************)
(* From the tun device to the connection.                                  *)
(***************************************************************************)

\* The proxy's workers look at the signal too.
Stopping(x) == stop[x] \/ (x = "proxy" /\ sig)

UpCheck(x) == /\ up[x] = "check"
              /\ up' = [up EXCEPT ![x] = IF Stopping(x) THEN "over" ELSE "read"]
              /\ UNCHANGED <<main, down, stop, sig, socket, data, host>>

ReadTun(x) == /\ up[x] = "read"
              /\ Len(read[x]) < Len(Supply[x])
              /\ LET p == Supply[x][Len(read[x]) + 1]
                 IN /\ hand' = [hand EXCEPT ![x] = Bytes(p)]
                    /\ read' = [read EXCEPT ![x] = Append(@, Bytes(p))]
              /\ up' = [up EXCEPT ![x] = "send"]
              /\ UNCHANGED <<main, down, stop, sig, socket, buffer, written, host>>

\* Nothing to read, and a look at the flags 10 ms later.
ReadNothing(x) == /\ up[x] = "read"
                  /\ Len(read[x]) = Len(Supply[x])
                  /\ up' = [up EXCEPT ![x] = "check"]
                  /\ UNCHANGED <<main, down, stop, sig, socket, data, host>>

UpOver(x) == /\ up' = [up EXCEPT ![x] = "over"]
             /\ stop' = [stop EXCEPT ![x] = TRUE]
             /\ UNCHANGED <<main, down, sig>>

ReadFails(x) == up[x] = "read" /\ UpOver(x) /\ UNCHANGED <<socket, data, host>>

\* Mutated: the packet goes out whole, whatever the window is.
SendWhole(x) ==
  /\ up[x] = "send" /\ line[x] = "open"
  /\ stream' = [stream EXCEPT ![x] = @ \o hand[x]]
  /\ hand' = [hand EXCEPT ![x] = <<>>]
  /\ up' = [up EXCEPT ![x] = "check"]
  /\ UNCHANGED <<main, down, stop, sig, line, fin, buffer, read, written, host>>

\* One send of send_all, of as much as the window takes.
SendSome(x) ==
  /\ up[x] = "send" /\ line[x] = "open"
  /\ \E n \in 1 .. Len(hand[x]) :
       /\ Len(stream[x]) + n <= Window
       /\ stream' = [stream EXCEPT ![x] = @ \o Front(hand[x], n)]
       /\ hand' = [hand EXCEPT ![x] = Rest(@, n)]
       /\ up' = [up EXCEPT ![x] = IF n = Len(hand[x]) THEN "check" ELSE @]
  /\ UNCHANGED <<main, down, stop, sig, line, fin, buffer, read, written, host>>

SendFails(x) == /\ up[x] = "send" /\ line[x] = "reset"
                /\ UpOver(x)
                /\ line' = [line EXCEPT ![x] = "dead"]
                /\ UNCHANGED <<fin, stream, data, host>>

\* The proxy's send_all gives up when a signal has interrupted it.
SendInterrupted == /\ up["proxy"] = "send" /\ sig
                   /\ UpOver("proxy")
                   /\ UNCHANGED <<socket, data, host>>
-----------------------------------------------------------------------------
(***************************************************************************)
(* From the connection to the tun device.                                  *)
(***************************************************************************)
DownCheck(x) == /\ down[x] = "check"
                /\ down' = [down EXCEPT ![x] = IF Stopping(x) THEN "over" ELSE "recv"]
                /\ UNCHANGED <<main, up, stop, sig, socket, data, host>>

RecvSome(x) ==
  /\ down[x] = "recv"
  /\ \E n \in 1 .. Len(stream[Peer(x)]) :
       /\ buffer' = [buffer EXCEPT ![x] = @ \o Front(stream[Peer(x)], n)]
       /\ stream' = [stream EXCEPT ![Peer(x)] = Rest(@, n)]
  /\ down' = [down EXCEPT ![x] = "pop"]
  /\ UNCHANGED <<main, up, stop, sig, line, fin, hand, read, written, host>>

DownOver(x) == /\ down' = [down EXCEPT ![x] = "over"]
               /\ stop' = [stop EXCEPT ![x] = TRUE]
               /\ UNCHANGED <<main, up, sig>>

\* End of file or an error; an error is reported once.
RecvEnds(x) == /\ down[x] = "recv"
               /\ \/ fin[Peer(x)] /\ stream[Peer(x)] = <<>>
                  \/ line[x] \in {"reset", "dead"}
               /\ DownOver(x)
               /\ line' = [line EXCEPT ![x] = IF @ = "reset" THEN "dead" ELSE @]
               /\ UNCHANGED <<fin, stream, data, host>>

RecvInterrupted == /\ down["proxy"] = "recv" /\ sig
                   /\ down' = [down EXCEPT !["proxy"] = "over"]
                   /\ UNCHANGED <<main, up, stop, sig, socket, data, host>>

WriteTun(x) == /\ down[x] = "pop"
               /\ LET n == TryPop(buffer[x])
                  IN /\ n > 0
                     /\ written' = [written EXCEPT ![x] = Append(@, Front(buffer[x], n))]
                     /\ buffer' = [buffer EXCEPT ![x] = Rest(@, n)]
               /\ UNCHANGED <<threads, socket, hand, read, host>>

WriteFails(x) == /\ down[x] = "pop" /\ TryPop(buffer[x]) > 0
                 /\ DownOver(x)
                 /\ UNCHANGED <<socket, data, host>>

PoppedAll(x) == /\ down[x] = "pop" /\ TryPop(buffer[x]) = 0
                /\ down' = [down EXCEPT ![x] = "check"]
                /\ UNCHANGED <<main, up, stop, sig, socket, data, host>>
-----------------------------------------------------------------------------
(***************************************************************************)
(* The client's main.  A call that fails returns at once, after undoing    *)
(* what was done.                                                          *)
(***************************************************************************)
Enter(x, p) == /\ main' = [main EXCEPT ![x] = p]
               /\ UNCHANGED <<up, down, sig>>

Start(x) == /\ main' = [main EXCEPT ![x] = "up"]
            /\ up' = [up EXCEPT ![x] = "check"]
            /\ down' = [down EXCEPT ![x] = "check"]
            /\ UNCHANGED <<stop, sig>>

\* tun_alloc, set_nonblocking, setup_tun_interface.
OpenTun(x) == /\ main[x] = IF x = "client" THEN "start" ELSE "accepted"
              /\ Enter(x, "tun")
              /\ tun' = [tun EXCEPT ![x] = TRUE]
              /\ UNCHANGED <<stop, socket, data, gateway, except, nat>>

\* Mutated: the result of add_route is not looked at.
AddRouteUnchecked == /\ main["client"] = "tun"
                     /\ Enter("client", "routed")
                     /\ except' \in BOOLEAN
                     /\ UNCHANGED <<stop, socket, data, tun, gateway, nat>>

\* load_default_route and add_route.
AddRoute == /\ main["client"] = "tun"
            /\ Enter("client", "routed")
            /\ except' = TRUE
            /\ UNCHANGED <<stop, socket, data, tun, gateway, nat>>

ConnectProxy == /\ main["client"] = "routed" /\ main["proxy"] = "listen"
                /\ Enter("client", "connected")
                /\ line' = [line EXCEPT !["client"] = "open"]
                /\ UNCHANGED <<stop, fin, stream, data, host>>

\* replace_default_route_to_tun, and the two threads.
ReplaceDefault == /\ main["client"] = "connected"
                  /\ Start("client")
                  /\ gateway' = "tun"
                  /\ UNCHANGED <<socket, data, tun, except, nat>>

ClientSetupFails == /\ main["client"] \in {"start", "tun", "routed", "connected"}
                    /\ Enter("client", "ended")
                    /\ Hangup("client")
                    /\ tun' = [tun EXCEPT !["client"] = FALSE]
                    /\ except' = FALSE
                    /\ UNCHANGED <<stop, data, gateway, nat>>

\* wait_for_stop_request looks at nothing but the terminal and the signal: it
\* returns on Enter, or on a Ctrl+C since the program began.
ClientStops == /\ main["client"] = "up"
               /\ Enter("client", "stopping")
               /\ stop' = [stop EXCEPT !["client"] = TRUE]
               /\ UNCHANGED <<socket, data, host>>

RestoreDefault == /\ main["client"] = "stopping"
                  /\ Enter("client", "restored")
                  /\ gateway' = "gateway"
                  /\ UNCHANGED <<stop, socket, data, tun, except, nat>>

\* Mutated: the routes are not cleaned up.
CleanupNothing == /\ main["client"] = "restored"
                  /\ Enter("client", "unrouted")
                  /\ UNCHANGED <<stop, socket, data, host>>

CleanupRoutes == /\ main["client"] = "restored"
                 /\ Enter("client", "unrouted")
                 /\ except' = FALSE
                 /\ UNCHANGED <<stop, socket, data, tun, gateway, nat>>

\* Mutated: the socket is left to close.
NoShutdown(x) == /\ main[x] = IF x = "client" THEN "unrouted" ELSE "stopping"
                 /\ Enter(x, "join")
                 /\ UNCHANGED <<stop, socket, data, host>>

\* shutdown of both directions unblocks the two workers.
Shutdown(x) == /\ main[x] = IF x = "client" THEN "unrouted" ELSE "stopping"
               /\ Enter(x, "join")
               /\ IF line[x] = "open" THEN Fin(x)
                  ELSE line' = [line EXCEPT ![x] = "dead"] /\ UNCHANGED <<fin, stream>>
               /\ UNCHANGED <<stop, data, host>>

Joined(x) == main[x] = "join" /\ up[x] = "over" /\ down[x] = "over"

ClientCloses == /\ Joined("client")
                /\ Enter("client", "ended")
                /\ tun' = [tun EXCEPT !["client"] = FALSE]
                /\ UNCHANGED <<stop, socket, data, gateway, except, nat>>
-----------------------------------------------------------------------------
(***************************************************************************)
(* The proxy's main.                                                       *)
(***************************************************************************)

\* accept_client_with_signal; a connection may have ended before it is taken.
AcceptClient == /\ main["proxy"] = "listen" /\ line["client"] # "none"
                /\ Enter("proxy", "accepted")
                /\ line' = [line EXCEPT !["proxy"] = "open"]
                /\ UNCHANGED <<stop, fin, stream, data, host>>

\* A connection that waits to be accepted is reset.
Unlisten == /\ main["proxy"] = "listen"
            /\ Enter("proxy", "ended")
            /\ line' = [line EXCEPT !["client"] = IF @ = "open" THEN "reset" ELSE @]
            /\ stream' = [stream EXCEPT !["client"] = <<>>]
            /\ UNCHANGED <<stop, fin, data, host>>

StopListening == sig /\ Unlisten

\* listen_tcp, select or accept fails.
AcceptFails == ~sig /\ Unlisten

ProxyTunFails == /\ main["proxy"] = "accepted"
                 /\ Enter("proxy", "ended")
                 /\ Hangup("proxy")
                 /\ UNCHANGED <<stop, data, host>>

AddRule == /\ main["proxy"] = "tun" /\ nat < Rules
           /\ nat' = nat + 1
           /\ UNCHANGED <<threads, socket, data, tun, gateway, except>>

\* setup_nat_rules fails: main returns, and the rules it has added stay.
NatFails == /\ main["proxy"] = "tun" /\ nat < Rules
            /\ Enter("proxy", "lost")
            /\ Hangup("proxy")
            /\ tun' = [tun EXCEPT !["proxy"] = FALSE]
            /\ UNCHANGED <<stop, data, gateway, except, nat>>

StartProxy == /\ main["proxy"] = "tun" /\ nat = Rules
              /\ Start("proxy")
              /\ UNCHANGED <<socket, data, host>>

\* Mutated: like the client's, the main waits for a signal only.
ProxyStopsOnSignal == /\ main["proxy"] = "up"
                      /\ sig
                      /\ Enter("proxy", "stopping")
                      /\ stop' = [stop EXCEPT !["proxy"] = TRUE]
                      /\ UNCHANGED <<socket, data, host>>

ProxyStops == /\ main["proxy"] = "up"
              /\ sig \/ stop["proxy"]
              /\ Enter("proxy", "stopping")
              /\ stop' = [stop EXCEPT !["proxy"] = TRUE]
              /\ UNCHANGED <<socket, data, host>>

CleanupNat == /\ Joined("proxy")
              /\ Enter("proxy", "joined")
              /\ nat' = 0
              /\ UNCHANGED <<stop, socket, data, tun, gateway, except>>

ProxyCloses == /\ main["proxy"] = "joined"
               /\ Enter("proxy", "ended")
               /\ tun' = [tun EXCEPT !["proxy"] = FALSE]
               /\ UNCHANGED <<stop, socket, data, gateway, except, nat>>
-----------------------------------------------------------------------------
Signal == /\ ~sig /\ main["proxy"] \notin Over
          /\ sig' = TRUE
          /\ UNCHANGED <<main, up, down, stop, socket, data, host>>

Up(x) == \/ UpCheck(x) \/ ReadTun(x) \/ ReadNothing(x)
         \/ SendSome(x) \/ SendFails(x) \/ Killed(x)

Down(x) == DownCheck(x) \/ RecvSome(x) \/ RecvEnds(x) \/ WriteTun(x) \/ PoppedAll(x)

Faults(x) == ReadFails(x) \/ WriteFails(x) \/ Reset(x)

ClientMain == \/ OpenTun("client") \/ AddRoute \/ ConnectProxy \/ ReplaceDefault
              \/ RestoreDefault \/ CleanupRoutes
              \/ Shutdown("client") \/ ClientCloses

ProxyMain == \/ AcceptClient \/ StopListening \/ OpenTun("proxy") \/ AddRule
             \/ StartProxy \/ ProxyStops \/ Shutdown("proxy") \/ CleanupNat
             \/ ProxyCloses

Next == \/ \E x \in Sides : Up(x) \/ Down(x) \/ Faults(x)
        \/ ClientMain \/ ClientStops \/ ClientSetupFails
        \/ ProxyMain \/ AcceptFails \/ ProxyTunFails \/ NatFails
        \/ Signal \/ SendInterrupted \/ RecvInterrupted

Spec == Init /\ [][Next]_vars

\* The two workers and the main of each side go on, as far as they can; of
\* faults, signals and the user nothing is assumed.
FairSpec == /\ Spec
            /\ WF_vars(ClientMain) /\ WF_vars(ProxyMain)
            /\ \A x \in Sides : WF_vars(Up(x)) /\ WF_vars(Down(x))
-----------------------------------------------------------------------------
(***************************************************************************)
(* Properties.                                                             *)
(***************************************************************************)
ToProxy  == INSTANCE PacketFifo
              WITH Packets <- {Bytes(Supply["client"][i]) : i \in DOMAIN Supply["client"]},
                   in <- read["client"], out <- written["proxy"]
ToClient == INSTANCE PacketFifo
              WITH Packets <- {Bytes(Supply["proxy"][i]) : i \in DOMAIN Supply["proxy"]},
                   in <- read["proxy"], out <- written["client"]

\* Each direction is a FIFO of whole packets, wherever the stream is cut by
\* send and recv and wherever it ends (client_socket.cpp:118-131).
PacketsInOrder == ToProxy!Spec /\ ToClient!Spec

Phase(x) == CASE main[x] \in {"start", "listen", "accepted", "ended"} -> "free"
              [] main[x] \in {"lost", "killed"} -> "lost"
              [] OTHER -> "held"

ClientMarks == {m \in {"route", "gateway"} :
                  IF m = "route" THEN except ELSE gateway # "gateway"}
ProxyMarks  == IF nat > 0 THEN {"rules"} ELSE {}

ClientBorrows == INSTANCE BorrowedHost
                   WITH phase <- Phase("client"), marks <- ClientMarks, found <- {}
ProxyBorrows  == INSTANCE BorrowedHost
                   WITH phase <- Phase("proxy"), marks <- ProxyMarks, found <- {}

\* A client and a proxy that come to their end, from wherever in their set-up
\* or their work, give their hosts back (Client main.cpp:65-135, Proxy
\* main.cpp:90-132).  Two runs are lost: one killed by SIGPIPE, and a proxy
\* whose NAT set-up fails half-way.
HostGivenBack == ClientBorrows!Spec /\ ProxyBorrows!Spec

\* The connection never runs through the tunnel it carries: while the default
\* route goes to the tun device, the proxy has a route of its own, through
\* set-up, clean-up and every failure (Client main.cpp:77-98, 120-121).
ProxyReachable == gateway = "tun" => except

\* The proxy ends when its client has ended, whatever ended it, if need be by
\* SIGPIPE: its main looks at the workers' flag (Proxy main.cpp:108).
ProxyFollows == main["client"] \in Over /\ line["client"] # "none" ~> main["proxy"] \in Over

\* Enter or Ctrl+C ends the client: both workers come out of the calls that
\* they block in and are joined (Client main.cpp:123-129).
ClientEnds == main["client"] = "stopping" ~> main["client"] \in Over

\* While neither side stops, every packet read from one tun device is written
\* to the other: the window opens again, and the parser never waits for bytes
\* that it has.
Delivered ==
  \A x \in Sides : read[x] # written[Peer(x)]
    ~> read[x] = written[Peer(x)] \/ sig \/ \E y \in Sides : stop[y] \/ main[y] \in Over

\* "Restore default route while tunC still exists." (Client main.cpp:115)
RestoredWhileTunExists == tun["client"] \/ gateway = "gateway"
=============================================================================
