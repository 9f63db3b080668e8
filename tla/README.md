# A verification of the TCP tunnels

The repository holds four programs. Two of them, the *LTE-free* client and
proxy, keep a TCP connection open for show and move IP packets in forged TCP
segments beside it: each side learns the sequence numbers of the real
connection, takes the other side's forged segments out of the kernel through an
NFQUEUE, and sends its own through a raw socket. The other two are a plain VPN
over one TCP stream. This directory models all four in TLA+, checks the models
with TLC, and proves their main safety properties with TLAPS.

Paths below are abbreviated: `LC` = `src/LTE-Free-Client-Program`, `LP` =
`src/LTE-Free-Proxy-Server-Program`, `VC` = `src/Client-TCP-Tunnelling-VPN-Program`,
`VP` = `src/Proxy-Server-TCP-Tunnelling-VPN-Program`.

## 1. The system

### Components

| Component | State | Operations | Talks to |
|---|---|---|---|
| Client main (`LC/main.cpp`, `client_control.cpp`) | `stop`, `*_installed`, `*_started`, descriptors, saved default route | connect, register, wait, learn, READY handshake, settle, build the data plane, wait for the user, clean up | its three threads through atomics; the proxy by TCP and UDP |
| Client UDP control (`LC/client_udp.cpp`) | `ClientReadyState` under a mutex: nonces, `*_received`, `ready_done` | REGISTER with retries, wait for LEARN_READY, READY with retries, START_ACK three times, STOP five, control loop | proxy UDP control; raises `session_stop`, `stop` |
| Client learning and tunnel queue (`LC/client_nfqueue.cpp`) | `RealBase`, `FakeBase`, `ClientControlAckState`, `nfqueue_ready`, `session_error` | write the marker and capture it; tunnel loop: pass control ACKs, take inner packets out | kernel NFQUEUE, tun |
| Raw senders (`LC/client_raw.cpp`, `LP/proxy_raw.cpp`) | `RawSendState` | tun to forged TCP segment; raise `stop` on an error | tun, raw socket |
| Proxy main (`LP/main.cpp`, `proxy_control.cpp`) | per session: the same flags as the client's; listening sockets across sessions | accept loop, set-up, session wait, clean-up | its three threads; iptables |
| Proxy UDP control (`LP/proxy_udp.cpp`) | `ProxyReadyState`; the UDP socket is shared by all sessions | take REGISTER, answer it again, LEARN_READY, READY_ACK with retries, STOP | client UDP control |
| Proxy learning and tunnel queue (`LP/proxy_nfqueue.cpp`) | as the client's, and the rule in INPUT | create the queue, announce it, capture the marker, delete the rule, consume the marker's byte; tunnel loop | NFQUEUE, iptables, tun |
| Proxy NAT (`LP/proxy_nat.cpp`) | three rules in iptables, same text in every session | append, delete | iptables |
| Tun devices, TCP sockets | descriptors | open, configure, connect, accept | kernel |
| VPN client and proxy (`VC`, `VP`) | stream buffer, `stop`, routes, NAT rules | two copy loops each way, stream parser | each other by one TCP stream |

### How they interact

1. The client connects by TCP; the proxy takes one connection at a time.
2. `CLIENT_REGISTER` (client nonce) and `REGISTER_ACK` (both nonces) pair them
   over UDP. After that each side has one *control thread* that reads its UDP
   socket, and main waits for what the thread notes under the mutex.
3. The proxy installs the learning rule, opens its queue and sends
   `PROXY_LEARN_READY` once. The client writes a one-byte marker into the TCP
   connection; both sides see the packet on their queues and learn from it.
4. Both open their tunnel queues, then do the READY handshake:
   `CLIENT_READY` / `READY_ACK`, both repeated, then `CLIENT_START_ACK` three times.
5. Both build their data planes and wait for an end: Enter or Ctrl+C at the
   client, Ctrl+C at the proxy, an error, or the other side's `STOP`.

The VPN is simpler: the client prepares its routes and connects, the proxy
accepts and prepares its rules, and then two threads a side copy packets
between the tun device and the one TCP stream until one of them ends.

### What is hard about it, and what makes each part right

* **UDP control.** Datagrams may be lost, repeated, late, and reach a socket
  that a later run of the client or a later session owns. Right: nobody is
  paired with the wrong peer, no STOP ends the wrong session, a side that
  leaves the READY handshake knows both queues open, and the waits end.
* **The threads of a side.** Main reads `stop`, `session_stop`, `session_error`,
  `g_signal_stop` in different subsets in different loops, and the control
  thread raises them one by one. Right: from every wait, every flag that should
  end the program does, and nothing runs after the session's state has gone.
* **The hosts.** A dozen set-up steps may fail or be overtaken by `stop`; the
  clean-up undoes what flags say was done. Right: a run or session gives the
  host back as it found it; the data plane is published only when complete; no
  descriptor is closed under a thread; what goes to the proxy itself never
  enters the tunnel.
* **The forged connection.** Two kernels and two programs use one connection.
  Right: both sides learn the same bases, no kernel ever sees a forged segment,
  the kernels' keepalive gets through, the forged numbers leave no hole, also
  when they wrap.
* **The VPN.** Right: what comes out of the stream is the sequence of packets
  that went in; both programs end when they should; both hosts are given back.

The hazards, line by line, with the properties that cover them, are in
`PROJECT.json`.

## 2. Modules

| Module | Models |
|---|---|
| `LteControl` | both LTE-free programs' control protocol and threads: any number of client runs, a sequence of proxy sessions, the network |
| `ClientSession` | the host of the LTE-free client over its runs: rules, routes, descriptors, threads, flags |
| `ProxySession` | the host of the LTE-free proxy over its sessions: rules, NAT, queue, descriptors, threads, flags |
| `ForgedTcp` | the shown TCP connection, the marker, both sides' learning and tunnel callbacks and raw senders |
| `VpnTunnel` | both VPN programs: mains, four workers, the byte stream, routes and rules |
| `BorrowedHost` | abstract: what a program that changes its host promises |
| `PacketFifo` | abstract: what a tunnel promises of one direction |
| `SetUpOrder` | abstract: the order in which the two sides of each pairing open what they open |
| `LteSetUp` | `LteControl` with a history variable, and the refinement of `SetUpOrder` |
| `ClientHost`, `ProxyHost` | the two sessions with history variables, their properties, and the refinement of `BorrowedHost` |
| `LteControlProofs`, `ClientHostProofs`, `ProxySessionProofs`, `ForgedTcpProofs`, `VpnTunnelProofs` | an inductive invariant and theorems each |
| `LteSetUpProofs` | on top of `LteControlProofs`: the refinement of `SetUpOrder` |
| `VpnStreamProofs` | on top of `VpnTunnelProofs`: the invariant of the byte stream, and what follows from it |
| `MC*` | the instances for TLC |

The five detailed modules are five views of the same programs, cut where the
programs themselves are loosely coupled. `LteControl` has the messages and takes
the host as calls that may fail; `ClientSession` and `ProxySession` have the host
and take the peer as the moments at which the control thread raises its flags;
`ForgedTcp` has the packets and takes from the control protocol when the sides
move on. That interface is a module, `SetUpOrder`: the client learns after the
proxy's learning queue is there, a side has its tunnel queue after it has
learned, a data plane opens after both tunnel queues have. `ForgedTcp` guards
its steps with `Order!Needs` and with nothing else of the other side, so it has
every order that `SetUpOrder` allows; `LteControl` keeps to it (`SetUpInOrder`).

`LteSetUp` adds the history variable `opened` to `LteControl`: for each pairing of
a client with a session, what the one has opened while it held the other's
nonce. A learning queue counts as opened when main is at its loop (`pc` is
`"learn"`), a tunnel queue when `nfqueue_ready` is set, a data plane when
`data_plane_ready` is. `SetUpOrder` says nothing of the TCP connection; `ForgedTcp`
is about a pairing whose session has accepted the connection of its client
(finding 1 is that another may be registered).

### LteControl

A *client* is one run of the client program. It makes one nonce, so its identity
stands for the nonce, and a restarted client is another element of `Clients`. A
*session* is one turn of the proxy's accept loop, and its number stands for the
proxy's nonce. `cl[c]` and `px[s]` are records; their fields are

| Field | In the code |
|---|---|
| `pc` | where main is: one value for each wait, and for the stretches between them in which a flag may still arrive |
| `pn`, `cn` | `proxy_nonce` held by the client, `client_nonce` held by the session |
| `conn` | the TCP connection the session has accepted |
| `got` | the `*_received` fields of the ready state |
| `flags` | `stop`, `session_stop`, `session_error`, and the client's `g_signal_stop` |
| `control`, `tunnel` | the control thread, and the tunnel thread with its queue |
| `done`, `plane` | `ready_done`, `data_plane_ready` |
| `marker` | the marker byte: unwritten, written, arrived |

`net` is the set of datagrams in flight. With the fault `"duplicate"` a received
datagram stays in it, so it may come again, and at any later time; with
`"rebind"` it may reach another client's socket; a datagram whose type `Faults`
names may vanish. Sending a datagram three or five times is sending it into this set once.

Each action is one turn of a loop, one receive, or the stretch of main between
two waits. A polling loop sees a flag only when it comes round, so the actions
that leave such a loop are guarded by its flags being down (`ClientPolls`,
`ProxyInterrupted`), and those that follow a blocking receive are not. The
control thread carries out a STOP in the three steps of the code. Time is
abstract: a wait that has a timeout may time out at any moment. Calls that may
fail do so under the fault `"local"`.

### ProxySession and ProxyHost

`pc` walks through the numbered steps of `LP/main.cpp:96-490`; `After` is their
order. Almost every step is inside `if(!stop.load())`, so `Skip` passes the step
when `stop` is up, and `CallFails` raises it. An iptables command is one step and
the assignment to its `*_installed` flag (`Note`) is another, with the same test
between them as in the code. `rules[s]` counts the copies of session `s`'s
NFQUEUE rule - the learning rule and the tunnel rule have the same text - and
`nat` counts the copies of each of the three NAT rules, whose text is the same in
all sessions. A deletion removes one copy, or does nothing. Deletions are taken
to succeed when there is something to delete. The tunnel callback reads
`data_plane_ready` and writes to the descriptor in two steps (`TakePacket`,
`WriteTun`). The peer appears as the moments at which the control thread raises
`stop` (`UdpStops`); the READY handshake may also return true when the signal or
`stop` comes during the last turn of its loop, as it may in the code.

`ProxyHost` adds two history variables, `met` (the rules that were there when
the session began) and `missed` (a `stop` came up between a command and its
note), which no step of the program reads, and states what the proxy owes its
host. The refinement maps a session with `missed` to a *lost* run of
`BorrowedHost`: finding 2 is that such a session exists.

### ClientSession and ClientHost

The client leaves its set-up by `goto cleanup` at the first failure, and notes
an installation in the statement after it, so there is no gap like the proxy's.
`rules` holds the NFQUEUE rules of each run (their text has the run's own port),
`exception` the route to the proxy past the tunnel, and `default` the host's
default routes of the best metric and of a worse one: `ip route replace default`
without a metric makes or changes the first and leaves the second, so what the
programs read before and put back after need not be the same route. The routes
through a tun device go when its descriptor is closed (`WithoutTun`). Here the
commands that undo may fail too (`"undo"`), and the process may be killed
(`Killed`) at every step; `harm` notes both. `found`, the history variable of
`ClientHost`, is what the run met.

### ForgedTcp

`phase[x]` says which rule a side has and whether a queue reads it; the order is
that of the two mains and the learning functions. `tcp[x]` is a kernel's end of
the connection, external: the next number, the oldest unacknowledged one, the
next expected, and whether a keepalive probe is out. A segment that reaches a
side with a rule goes to a callback if a queue reads it and is lost if none
does; without a rule the kernel takes it (`KernelGets`) and answers. What the
client sends while it learns passes its own queue (`outq`). `Learn` is what both
callbacks read from the marker's segment; `Allowed` is the window of control ACKs; `Extractable` the test of
`extract_inner_ipv4_packet`; `NextSeq` and `Offset` the arithmetic of the raw
senders modulo `Word`. Of a header only the fields that a callback decides by
are there, and a payload is what its first byte says, its length, and the tun
device it came from. `Put` bounds the network: a segment beyond `InFlight`
pushes another off it, which is a loss.

### VpnTunnel

Bytes are `[of, at]`: byte `at` of packet `of`, so that a parser that cuts the
stream anywhere else shows. `send_all` puts as many bytes as the window takes
(`SendSome`), `recv` takes any number (`RecvSome`), and `TryPop` is
`try_pop_ipv4_packet` on `stream_buffer`. `line`, `fin` and `stream` are the
kernel's socket, external: end of file, a reset answered to data that nobody
reads, an error reported once, and SIGPIPE (`Killed`) on the send after it: no
line of either program ignores the signal. The mains have their set-up, the
wait with the conditions of each program (the client's looks at the terminal
and the signal only, the proxy's at the workers' flag too), `shutdown`, the
joins and the clean-up. A command that undoes something is taken to succeed,
as the programs take it. Each direction refines `PacketFifo`, each program
`BorrowedHost`; a run is *lost* there when SIGPIPE kills it or when the proxy's
NAT set-up fails half-way (`NatFails`), whose rules stay.

## 3. What the runs check

| Run | Instance | Shows |
|---|---|---|
| `control_faults` | 1 client, 1 session, all faults of both hosts, repeated and late datagrams, fair; 302,396 states | `ReadyAgreement`: a side that has done the handshake knows both queues open. `EndedIsUntouched`: nothing writes to the state of an ended client or session. `SignalEnds`: Ctrl+C ends a side from every wait, those that do not look at the signal included. `TypeOK` |
| `control_sessions` | 2 client runs that give up, 2 sessions, repeated, late, misdelivered datagrams; 266,231 states | `RegistrationAgreement`, `StopJustified`, `MarkerNotMissed`: no datagram of one pairing has an effect on another. `SetUpInOrder`: each pairing keeps to `SetUpOrder`. The proxy sends no STOP here: that a client takes one only of a session that ends is proved (section 5) |
| `control_live` | 1, 1, loss of what is sent again, fair; 332 states | `ReadyAnswered`, `DataPlanesOpen`: the retries get through and the chain of waits comes to its end |
| `control_stop` | 1, 1, failing calls and raw threads, timeouts, the user, fair; 428,851 states | `ClientStopped`, `SessionStopped`, `SessionErrorEnds`: a STOP or an error ends a side from every point, but for a client whose raw thread has failed (`Deserted`) |
| `control_stale_register` | 2, 1, no fault | *violated*: a session registers a client other than the one it accepted (finding 1) |
| `session_faults` | 3 sessions, every call and thread may fail, `stop` and signals at every step, fair; 30,465 states | `OneRule`, `PlaneComplete`, `DescriptorsOpen`, `NothingRuns`, `HostGivenBack` (refines `BorrowedHost`), `CleanupEnds`, `TypeOK` |
| `session_left` | 1 session, the control thread raises `stop` | *violated*: the learning rule stays installed (finding 2) |
| `session_transition` | 1 session, calls may fail | *violated*: a rule without a consumer (finding 3) |
| `client_host` | 2 runs, every call, undoing and thread may fail, signals, kill, fair; 82,808 states | `ProxyReachable`: what goes to the proxy never enters the tunnel. `LeftoversKept`: no run takes back what another has left. `DescriptorsOpen`, `HostGivenBack` (refines `BorrowedHost`), `CleanupEnds`, `TypeOK` |
| `forged_tcp` | word 16, 3 packets, 2 segments in flight, loss, repetition, reordering, keepalive, fair; 151,193 states | `BasesAgree`, `StreamIntact`, `NothingInvented`, `NoHole`, `ProbeAnswered` (in the end: the kernel's limit of three probes is a time), `TypeOK` |
| `vpn_tunnel` | 2 packets and 1, window 2, 2 rules, failures, resets, signal, user, fair; 173,776 states | `PacketsInOrder` (refines `PacketFifo` twice), `HostGivenBack` (refines `BorrowedHost` twice), `ProxyReachable`, `ProxyFollows`, `ClientEnds`, `Delivered`, `TypeOK` |
| `vpn_sigpipe` | the same | *violated*: the default route is not restored while the tun device exists (finding 4) |

**Bounds.** One client and one session contain every interleaving of the four
main and control threads, two tunnel threads and two raw threads of a pairing;
two and two are the least in which a datagram of one pairing can meet another.
On the hosts, two runs or sessions are enough for what one leaves to meet the
next (`MaxRuns` 2), and a third session meets what two have left
(`MaxSessions` 3 there). In `ForgedTcp` the marker takes the last number of a
word of 16 (`Starts`), so the bases wrap, and the client's two packets of 11
bytes are more than a word; `Header` 10 and `MTU` 11 separate a marker, a packet
and what is neither; two segments in flight are the least that can be reordered
(`InFlight`). In `VpnTunnel` a packet of two bytes can be cut in the middle and
one of one byte can follow it in the same `recv`; the window of 2 is full while
a packet still waits, `Header` 1 is the least that the parser can wait for, and
`Rules` 2 has a set-up that fails half-way. The safety theorems hold for all
values of these constants.

**Deadlock** is not checked. A run of each model ends when its runs, sessions or
packets are used up, and the code itself has waits without a timeout in
which both sides can stay (a lost `PROXY_LEARN_READY`; see the hazards).

**Fairness.** In `LteControl`, `OwnStepsFair`: main, the control threads, the
tunnel threads and the resending loops go on. The code polls every 10 ms to 1 s
and its other receives have timeouts of at most 1 s, so none of them can stop on
its own. `TimeoutsFair`: a wait for which the code has a timeout ends.
`ReceiveFair`: a datagram that stays in flight is received; one that may be lost
need not stay. `ResendFair` (strong): of a datagram sent again and again, one
gets through; used only for the loops that do send again and again, REGISTER and
READY. `LossySpec` is these without `TimeoutsFair`: nobody gives up. In
`ClientHost` and `ProxyHost` (`HFairSpec`) the clean-up and each thread are
weakly fair; the set-up is not. In `ForgedTcp` (`FairSpec`) main and the learning
loop are weakly fair, the kernels probe and retransmit, and strong fairness says
that of the marker, a probe or an answer that a kernel sends again and again one
arrives; nothing is assumed of forged segments. In `VpnTunnel` (`FairSpec`) both
mains and both workers of each side are weakly fair. Nothing is assumed anywhere
of users, signals, failures, crashes or resets.

## 4. Findings

1. `LP/proxy_udp.cpp:318`: the session registers the sender of the first REGISTER
   it reads, without comparing it with the TCP connection it has accepted.
2. `LP/main.cpp:206`, also 289 and 375: if the control thread raises `stop` after
   an installation has succeeded and before main tests `stop` to note it, the
   rule is never deleted. The clean-up at 268-278 says that it is there for
   rules that a failed learning left. This is the one way: every other session
   gives the host back (`HostGivenBack`, whose exception is `missed`).
3. `LP/main.cpp:283`: the tunnel rule precedes the tunnel queue. The comment at
   `LP/proxy_nfqueue.cpp:599` orders the deletion of the learning rule so that no
   packet meets a rule without a queue in this very transition.
4. `VC/client_socket.cpp:18`: `send_all` sends without `MSG_NOSIGNAL`, and nothing
   ignores SIGPIPE. A client that sends on a connection the proxy has reset is
   killed; its tun device goes, and the default route with it. The comment at
   `VC/main.cpp:115` restores the route "while tunC still exists".

No finding, but visible in the models: an error of the client's raw thread raises
`stop` only (`LC/client_raw.cpp:222`, 242, 250). The control thread ends at it and
reads no STOP any more, the proxy's included, while `wait_for_stop_request`
(`LC/client_control.cpp:171`) does not look at `stop`: the client stays up without
its threads until its user or a signal ends it. `ClientStopped` names this state,
`Deserted`, as its exception. At `LP/main.cpp:254` the flag is cleared only
if `stop` is down, so a `stop` after a successful learning leads to a second
deletion, which the comments at 250-252 and 272 mean to avoid. It finds no rule
and does no harm. A VPN proxy whose NAT set-up fails half-way keeps the rules it
has added (`VP/main.cpp:90`); a VPN client whose proxy has gone waits for its
user with the default route in the dead tunnel (`VC/main.cpp:107`).

## 5. What is proved

The seven proof modules are checked by TLAPS, for every value of the constants
under the assumptions the modules name: `NoClient` is not a client
(`ClientsAssumption`); bounds are natural numbers (`MaxSessionsAssumption`,
`RunsAssumption`, `BoundsAssumption`); `Word` is more than 1 and the lengths fit
it (`WordAssumption`, `LengthsAssumption`); the supply of a tun device is a
sequence of packets no shorter than a header (`SupplyAssumption`,
`LengthAssumption`). `Faults` may be any set of the faults, `Clients` any set.

**LteControl.** `TypeCorrect`, `RegistrationAgrees`, `MarkerIsSeen`, `ReadyAgrees`,
`StopIsJustified` state the runs' invariants of the same meaning; all follow
from `InvAlways`. None of the invariants is inductive: what a side may conclude
from a datagram depends on what was true when it was sent. `Inv` therefore says
of every datagram in flight (`NetFacts`) and of every note a control thread has
made (`GotFacts`) what it implies about its sender, using only facts that no step
makes false again (`ClientGrows`, `ProxyGrows`), and of each side how far main
must have come for its fields to have their values (`ClientLocal`,
`ProxyLocal`). Each action is shown to be a `LocalStep` and to send only true
datagrams; one lemma then carries the facts over any such step. `MarkerFacts`,
which a step can make false, has its own lemma. `EndedStaysUntouched` is an
action property: a client or session ends only when its control and tunnel
threads have ended (`ClientLocal`, `ProxyLocal`), every step of a side needs
main or one of these to be alive, and a datagram that arrives for a side that has
ended is read by nobody. Only the marker that a client has left on the wire may
still arrive.

**ProxyHost.** `TypeCorrect`, `NoSecondRule`, `PlaneIsComplete`,
`DescriptorsStayOpen` and `NothingRunsBetween` follow from its `InvAlways`. Its
`Inv` says what main may count on at each step (`RuleInv`, `PlaneInv`) and who may
be using what (`UseInv`). The facts about the set-up are stated under `~Stopped`:
`stop` is never lowered within a session, so another thread can only make them
vacuous, and a step that needs them has tested `stop`. `HostIsGivenBack` is the
refinement of `BorrowedHost`: what has been added to what the session met is
exactly what is noted, or what a step between command and note still knows of,
unless `missed`.

**ClientHost.** `TypeCorrect`, `ProxyIsReachable`, `DescriptorsStayOpen`, and the
refinement `HostIsGivenBack`. The invariant follows the notes of main: what is
noted is there until main has taken it back, what is not noted is as the run
found it. That the default route is restored needs, through all the steps in
between, that the run began with one through the gateway, or has not noted it.
`LeftoversStay` (`LeftoversKept`) adds an invariant of its own, `LeftInv`: no rule on
the host is of a later run than this one, so none that the run met is its own to
delete.

`SetUpIsInOrder`, in `LteSetUpProofs`, is the refinement of `SetUpOrder` by
`LteSetUp`, for all pairings at once. The history variable needs its own
invariant: what is past its opening is in `opened` (`ClientNotes`,
`SessionNotes`), `PROXY_LEARN_READY` in flight or noted speaks of a learning
queue that is in it (`NetNotes`), and who has left the READY handshake has its
answer (`Answered`). Every step is classified once (`NextMoves`): it opens
nothing, or one client or one session opens one thing, from a state that its
guard describes. What an opening needs of its own side is then in the notes, and
what it needs of the other side in the facts that `Inv` keeps of an answer
(`ClientGotFact`, `StartAcked`).

**ForgedTcp.** `TypeCorrect`, `BasesAreTheSame`, `StreamStaysIntact`,
`NothingIsInvented`, `NumbersHaveNoHole`. The invariant says of every segment on
its way, however late, that it is *honest*: a marker bears the number the client
gave it, a packet was read from its sender's tun device and is on its way only
if the receiver has opened its tunnel queue, and an acknowledgement of the
marker implies that the proxy's kernel has it. With that, a kernel without a
rule can only be handed segments of the other kernel. The facts hold while both
sockets are open and neither side cleans up (`Connected`). `NumbersHaveNoHole`
rests on lemmas on remainders (`ModDifference`) and on the tenth that `Offset`
takes: it grows with the bytes and never faster.

**VpnTunnel.** `ProxyStaysReachable`, and `HostsAreGivenBack`, the refinement of
`BorrowedHost` by both programs. The invariant says what is on the host in every
phase of a main, and that a worker lives only between the start of the threads
and their join, where SIGPIPE may find it.

`PacketsStayInOrder`, in `VpnStreamProofs`, is the refinement of `PacketFifo` in
both directions, and `TypeCorrect` the types with the window. What `recv` and
`send` leave at a moment is three pieces of byte stream - the receiver's buffer,
the stream, what is still in hand - cut anywhere, and the claim is that together
they spell the packets that have been read and not yet written. To say it by
concatenating these packets would need induction over their number. `Carried`
says it by positions instead: there is a function `cut` that gives the end of
each packet in all that has been read, and each byte on its way is the byte of
the packet whose span its position falls in. A packet read extends `cut` by one
(`CarriedPut`), `send_all` and `recv` move bytes between the three pieces and
change none, a packet written drops the first span (`CarriedGet`), and a reset or
a close leaves a beginning of what was there (`CarriedLess`). `PopsPacket` is the
heart of it: the byte that `try_pop_ipv4_packet` reads the length from is the
first of the next packet, so that it takes off exactly that packet. That the
first byte is there at all needs the rest of `BytesInv`: a worker has something
in hand only while it sends, a socket opens only before its worker runs, and no
packet is shorter than a header.

Each `Inv` was model-checked on the instances of the runs before it was proved.

**Only model-checked:** all liveness, which is outside the prover's reach, and the
violated properties. Every safety property of a passing run is proved.

## 6. What is not modelled

* Header layouts, checksums, byte order, and the fields of a header that no
  callback decides by. The callbacks' decisions are modelled, their parsing is not.
* `try_pop_ipv4_packet` and the stream loops of `LC` and `LP`: commented out.
* Socket options, tun configuration, the text of commands, printing: pure I/O.
  Their failure is a failing call.
* Addresses. A client is reached by identity; the proxy's stored address, which
  changes on a READY while a copy of the old one is still in use
  (`LP/proxy_udp.cpp:378`), is not there.
* `ip_forward` is switched on and never restored by either proxy, and the metric
  of the default route is lost when it is restored; the marks of a host are
  rules, the exception, and whether there is a way out.
* `std::system` ignores SIGINT while its command runs, so a Ctrl+C can be lost; the
  signal of the models is one that reached the handler.
* Failing undo commands of the VPN and of the LTE-free proxy. Their results are
  not looked at, and a rule that cannot be deleted simply stays.

## 7. Plan

Done: `LteControl`, `ProxySession`, `ClientSession`, `ForgedTcp` and `VpnTunnel`,
each with its proofs, and the three abstract specifications. Left, in this order:

1. `ReadyAddr`: the proxy's address of the client over a NAT rebinding, and the
   copy that `run_proxy_ready_handshake` keeps.
2. That `ClientSession` and `ProxySession`, seen through their data planes and
   flags, implement the two sides of `LteControl`.
3. Failing undo commands in `ProxySession`, as in `ClientSession`.
