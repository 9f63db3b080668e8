---------------------------- MODULE ClientSession ----------------------------
(***************************************************************************)
(* What runs of LTE-Free-Client-Program do to their host: the two NFQUEUE  *)
(* rules, the route exception for the proxy, the default route, the tun    *)
(* and raw descriptors and the threads that use them, from the start of    *)
(* main to the end of its cleanup, one run after the other.                *)
(*                                                                         *)
(* Unlike the proxy's main, this one leaves the set-up by goto cleanup at  *)
(* the first failure, and notes what it has installed in the statement     *)
(* that follows the command; no test of stop stands in between.            *)
(*                                                                         *)
(* The peer is left out: its messages are the moments at which the UDP     *)
(* thread raises its flags.  LteControl models the messages.               *)
(***************************************************************************)
EXTENDS Naturals

CONSTANTS MaxRuns,  \* bound: the number of runs
          Faults    \* the faults that may strike

ASSUME RunsAssumption == MaxRuns \in Nat
ASSUME FaultsAssumption ==
  Faults \subseteq {"call", "undo", "udp", "tunnel", "raw", "kill"}

VARIABLES pc,        \* where main is
          run,       \* the number of the run, 0 before the first
          flags,     \* the atomics stop, session_stop, session_error that are up
          signal,    \* g_signal_stop
          default,   \* the host's default routes, of metric 0 and of a worse one
          exception, \* the host's route to the proxy: none of its own, or via the gateway
          rules,     \* the NFQUEUE rules of each run on the host
          noted,     \* the *_installed flags and the notes in RouteSnapshot
          fd,        \* tun_fd and raw_send_fd
          thread,    \* the three threads
          plane,     \* data_plane_ready
          hand,      \* the tunnel callback has read data_plane_ready as true
          harm       \* the run was killed, or a command of its cleanup failed

vars == <<pc, run, flags, signal, default, exception, rules, noted, fd, thread,
          plane, hand, harm>>
routes == <<default, exception>>
peers  == <<thread, hand>>

Runs == 1 .. MaxRuns

\* What follows each step of main in program order: the set-up, the wait
\* and the cleanup.
After == [connect  |-> "register", register |-> "startUdp",
          startUdp |-> "waitLearn", waitLearn |-> "hookLearn",
          hookLearn |-> "learn", learn |-> "dropLearn",
          dropLearn |-> "hookTunnel", hookTunnel |-> "startTunnel",
          startTunnel |-> "waitNfq", waitNfq |-> "ready",
          ready |-> "settle", settle |-> "tun", tun |-> "load",
          load |-> "except", except |-> "replace", replace |-> "check",
          check |-> "raw", raw |-> "publish", publish |-> "startRaw",
          startRaw |-> "up", up |-> "closing", closing |-> "joinRaw",
          joinRaw |-> "restore", restore |-> "unroute",
          unroute |-> "unhookTunnel", unhookTunnel |-> "unhookLearn",
          unhookLearn |-> "join", join |-> "close"]

\* The steps that wait for the peer or for a thread.
Waits == {"connect", "register", "waitLearn", "learn", "waitNfq", "ready",
          "settle", "check"}

Pcs == DOMAIN After \cup {"close", "idle"}

\* Every variable has a value of its type.
TypeOK == /\ pc \in Pcs
          /\ run \in 0 .. MaxRuns
          /\ flags \subseteq {"stop", "sessionStop", "sessionError"}
          /\ signal \in BOOLEAN
          /\ default \in [{"first", "second"} -> {"none", "gateway", "tun"}]
          /\ exception \in {"none", "gateway"}
          /\ rules \subseteq {"learning", "tunnel"} \X Runs
          /\ noted \subseteq {"learning", "tunnel", "exception", "default"}
          /\ fd \in [{"tun", "raw"} -> {"none", "open", "closed"}]
          /\ thread \in [{"udp", "tunnel", "raw"} -> {"off", "starting", "run", "over"}]
          /\ plane \in BOOLEAN
          /\ hand \in BOOLEAN
          /\ harm \in BOOLEAN

NoFds     == [d \in {"tun", "raw"} |-> "none"]
NoThreads == [t \in {"udp", "tunnel", "raw"} |-> "off"]

\* The host has one default route, via the gateway, of either metric.
Init == /\ pc = "idle"
        /\ run = 0
        /\ flags = {}
        /\ signal = FALSE
        /\ \E m \in {"first", "second"} :
             default = [n \in {"first", "second"} |-> IF n = m THEN "gateway" ELSE "none"]
        /\ exception = "none"
        /\ rules = {}
        /\ noted = {}
        /\ fd = NoFds
        /\ thread = NoThreads
        /\ plane = FALSE
        /\ hand = FALSE
        /\ harm = FALSE
-----------------------------------------------------------------------------
(***************************************************************************)
(* The kernel's routes.  Of two default routes the one of metric 0 wins,   *)
(* and `ip route replace default`, without a metric, makes or changes that *)
(* one.  The routes through a tun device go when its descriptor is closed. *)
(***************************************************************************)
Effective == IF default["first"] # "none" THEN default["first"] ELSE default["second"]

Replace(via) == default' = [default EXCEPT !["first"] = via]

WithoutTun == [m \in DOMAIN default |-> IF default[m] = "tun" THEN "none" ELSE default[m]]
-----------------------------------------------------------------------------
(***************************************************************************)
(* Main: the set-up.                                                       *)
(***************************************************************************)
Stopped == "stop" \in flags

To(p) == pc' = p /\ UNCHANGED <<run, signal>>

Raise(f) == flags' = flags \cup {f}

\* The process starts, on a host that earlier runs have left as it is.
Start == /\ pc = "idle"
         /\ run < MaxRuns
         /\ pc' = "connect"
         /\ run' = run + 1
         /\ flags' = {}
         /\ signal' = FALSE
         /\ noted' = {}
         /\ fd' = NoFds
         /\ thread' = NoThreads
         /\ plane' = FALSE
         /\ hand' = FALSE
         /\ harm' = FALSE
         /\ UNCHANGED <<routes, rules>>

\* A wait ends well.  The wait for the tunnel queue tests every flag once
\* more when it is over, the last test before the data plane all but the
\* signal; the other waits may have missed a flag.
Pass == /\ pc \in Waits
        /\ pc = "waitNfq" => thread["tunnel"] = "run" /\ flags = {} /\ ~signal
        /\ pc = "check" => flags = {}
        /\ To(After[pc])
        /\ UNCHANGED <<flags, routes, rules, noted, fd, peers, plane, harm>>

\* A wait ends because of a flag or the signal, or it fails.
GiveUp == /\ pc \in Waits
          /\ flags # {} \/ signal \/ "call" \in Faults
          /\ To("closing")
          /\ UNCHANGED <<flags, routes, rules, noted, fd, peers, plane, harm>>

\* A call that changes nothing when it fails.
CallFails == /\ pc \in {"hookLearn", "hookTunnel", "load", "except", "replace", "raw"}
             /\ "call" \in Faults
             /\ To("closing")
             /\ UNCHANGED <<flags, routes, rules, noted, fd, peers, plane, harm>>

StartThread(p, t, as) == /\ pc = p
                         /\ thread' = [thread EXCEPT ![t] = as]
                         /\ To(After[p])
                         /\ UNCHANGED <<flags, routes, rules, noted, fd, hand, plane, harm>>

StartUdp    == StartThread("startUdp", "udp", "run")
StartTunnel == StartThread("startTunnel", "tunnel", "starting")
StartRaw    == StartThread("startRaw", "raw", "run")

\* Mutated: the rule names the port of another run.
InstallRuleOfNext(p, kind) == /\ pc = p
                              /\ rules' = rules \cup {<<kind, run + 1>>}
                              /\ noted' = noted \cup {kind}
                              /\ To(After[p])
                              /\ UNCHANGED <<flags, routes, fd, peers, plane, harm>>

InstallRule(p, kind) == /\ pc = p
                        /\ rules' = rules \cup {<<kind, run>>}
                        /\ noted' = noted \cup {kind}
                        /\ To(After[p])
                        /\ UNCHANGED <<flags, routes, fd, peers, plane, harm>>

\* if(*_rule_installed) delete the rule.  Whether the deletion succeeds is
\* not looked at.
DropRule(p, kind) ==
  /\ pc = p
  /\ \/ /\ rules' = IF kind \in noted THEN rules \ {<<kind, run>>} ELSE rules
        /\ UNCHANGED harm
     \/ /\ kind \in noted
        /\ "undo" \in Faults
        /\ harm' = TRUE
        /\ UNCHANGED rules
  /\ noted' = noted \ {kind}
  /\ To(After[p])
  /\ UNCHANGED <<flags, routes, fd, peers, plane>>

OpenTun == /\ pc = "tun"
           /\ fd' = [fd EXCEPT !["tun"] = "open"]
           /\ To(After["tun"])
           /\ UNCHANGED <<flags, routes, rules, noted, peers, plane, harm>>

\* tun_alloc fails, or what follows it, which leaves the descriptor open.
TunFails == /\ pc = "tun"
            /\ "call" \in Faults
            /\ \E s \in {"none", "open"} : fd' = [fd EXCEPT !["tun"] = s]
            /\ To("closing")
            /\ UNCHANGED <<flags, routes, rules, noted, peers, plane, harm>>

\* load_default_route takes the first default route that ip prints, and
\* wants a gateway in it.
LoadRoute == /\ pc = "load"
             /\ To(IF Effective = "gateway" THEN After["load"] ELSE "closing")
             /\ UNCHANGED <<flags, routes, rules, noted, fd, peers, plane, harm>>

\* Mutated: the route is added and not noted.
AddExceptionUnnoted == /\ pc = "except"
                       /\ exception' = "gateway"
                       /\ To(IF exception = "gateway" THEN "closing" ELSE After["except"])
                       /\ UNCHANGED <<flags, default, rules, noted, fd, peers, plane, harm>>

\* Mutated: the route is noted before ip has added it.
AddExceptionNotedFirst == /\ pc = "except"
                          /\ exception' = "gateway"
                          /\ noted' = noted \cup {"exception"}
                          /\ To(IF exception = "gateway" THEN "closing" ELSE After["except"])
                          /\ UNCHANGED <<flags, default, rules, fd, peers, plane, harm>>

\* add_route: ip refuses to add a route that is there.
AddException == /\ pc = "except"
                /\ \/ /\ exception = "gateway"
                      /\ UNCHANGED <<exception, noted>>
                      /\ To("closing")
                   \/ /\ exception = "none"
                      /\ exception' = "gateway"
                      /\ noted' = noted \cup {"exception"}
                      /\ To(After["except"])
                /\ UNCHANGED <<flags, default, rules, fd, peers, plane, harm>>

ReplaceDefault == /\ pc = "replace"
                  /\ Replace("tun")
                  /\ noted' = noted \cup {"default"}
                  /\ To(After["replace"])
                  /\ UNCHANGED <<flags, exception, rules, fd, peers, plane, harm>>

OpenRaw == /\ pc = "raw"
           /\ fd' = [fd EXCEPT !["raw"] = "open"]
           /\ To(After["raw"])
           /\ UNCHANGED <<flags, routes, rules, noted, peers, plane, harm>>

Publish == /\ pc = "publish"
           /\ plane' = TRUE
           /\ To(After["publish"])
           /\ UNCHANGED <<flags, routes, rules, noted, fd, peers, harm>>
-----------------------------------------------------------------------------
(***************************************************************************)
(* Main: the end of the run and its cleanup.                               *)
(***************************************************************************)

\* wait_for_stop_request ends: the user may press Enter at any time.
Leave == /\ pc = "up"
         /\ To(After["up"])
         /\ UNCHANGED <<flags, routes, rules, noted, fd, peers, plane, harm>>

\* Mutated: stop stays down.
ClosePlaneHalf == /\ pc = "closing"
                  /\ flags' = flags \cup {"sessionStop"}
                  /\ plane' = FALSE
                  /\ To(After["closing"])
                  /\ UNCHANGED <<routes, rules, noted, fd, peers, harm>>

ClosePlane == /\ pc = "closing"
              /\ flags' = flags \cup {"stop", "sessionStop"}
              /\ plane' = FALSE
              /\ To(After["closing"])
              /\ UNCHANGED <<routes, rules, noted, fd, peers, harm>>

\* Mutated: the raw thread is not joined before the routes are taken back.
JoinRawLater == /\ pc = "joinRaw"
                /\ To(After["joinRaw"])
                /\ UNCHANGED <<flags, routes, rules, noted, fd, peers, plane, harm>>

JoinRaw == /\ pc = "joinRaw"
           /\ thread["raw"] \in {"off", "over"}
           /\ To(After["joinRaw"])
           /\ UNCHANGED <<flags, routes, rules, noted, fd, peers, plane, harm>>

RestoreDefault ==
  /\ pc = "restore"
  /\ \/ /\ "default" \in noted
        /\ Replace("gateway")
        /\ UNCHANGED harm
     \/ /\ "default" \notin noted
        /\ UNCHANGED <<default, harm>>
     \/ /\ "default" \in noted
        /\ "undo" \in Faults
        /\ harm' = TRUE
        /\ UNCHANGED default
  /\ To(After["restore"])
  /\ UNCHANGED <<flags, exception, rules, noted, fd, peers, plane>>

CleanupRoutes ==
  /\ pc = "unroute"
  /\ \/ /\ exception' = IF "exception" \in noted THEN "none" ELSE exception
        /\ UNCHANGED harm
     \/ /\ "exception" \in noted
        /\ "undo" \in Faults
        /\ harm' = TRUE
        /\ UNCHANGED exception
  /\ To(After["unroute"])
  /\ UNCHANGED <<flags, default, rules, noted, fd, peers, plane>>

\* Mutated: the tunnel thread is not joined before its descriptor is closed.
JoinUdpOnly == /\ pc = "join"
               /\ thread["udp"] \in {"off", "over"}
               /\ To(After["join"])
               /\ UNCHANGED <<flags, routes, rules, noted, fd, peers, plane, harm>>

Join == /\ pc = "join"
        /\ \A t \in {"tunnel", "udp"} : thread[t] \in {"off", "over"}
        /\ To(After["join"])
        /\ UNCHANGED <<flags, routes, rules, noted, fd, peers, plane, harm>>

Close == /\ pc = "close"
         /\ fd' = [d \in DOMAIN fd |-> IF fd[d] = "open" THEN "closed" ELSE fd[d]]
         /\ default' = WithoutTun
         /\ To("idle")
         /\ UNCHANGED <<flags, exception, rules, noted, peers, plane, harm>>
-----------------------------------------------------------------------------
(***************************************************************************)
(* The threads, the signal, and the death of the process.                  *)
(***************************************************************************)
Elsewhere == UNCHANGED <<pc, run, signal, routes, rules, noted, fd, plane, harm>>

\* The UDP thread takes a STOP, or fails: it raises two flags and returns.
UdpStops == /\ thread["udp"] = "run"
            /\ "udp" \in Faults
            /\ \E f \in {"sessionStop", "sessionError"} :
                 flags' = flags \cup {f, "stop"}
            /\ thread' = [thread EXCEPT !["udp"] = "over"]
            /\ Elsewhere /\ UNCHANGED hand

UdpEnds == /\ thread["udp"] = "run"
           /\ flags # {} \/ signal
           /\ thread' = [thread EXCEPT !["udp"] = "over"]
           /\ Elsewhere /\ UNCHANGED <<flags, hand>>

\* The tunnel thread opens its queue and raises nfqueue_ready.
TunnelOpens == /\ thread["tunnel"] = "starting"
               /\ thread' = [thread EXCEPT !["tunnel"] = "run"]
               /\ Elsewhere /\ UNCHANGED <<flags, hand>>

TunnelFails == /\ thread["tunnel"] = "starting"
               /\ "tunnel" \in Faults
               /\ Raise("sessionError")
               /\ thread' = [thread EXCEPT !["tunnel"] = "over"]
               /\ Elsewhere /\ UNCHANGED hand

\* The callback finds data_plane_ready up and will write to tun_fd.
TakePacket == /\ thread["tunnel"] = "run"
              /\ plane /\ ~hand
              /\ hand' = TRUE
              /\ Elsewhere /\ UNCHANGED <<flags, thread>>

WriteTun == /\ hand
            /\ hand' = FALSE
            /\ Elsewhere /\ UNCHANGED <<flags, thread>>

\* The write to tun fails, or the receive from the queue does.
TunnelBreaks == /\ thread["tunnel"] = "run"
                /\ "tunnel" \in Faults
                /\ Raise("sessionError")
                /\ hand' = FALSE
                /\ Elsewhere /\ UNCHANGED thread

TunnelEnds == /\ thread["tunnel"] = "run"
              /\ ~hand
              /\ flags # {}
              /\ thread' = [thread EXCEPT !["tunnel"] = "over"]
              /\ Elsewhere /\ UNCHANGED <<flags, hand>>

\* tun_to_raw_loop ends, because of a failure or because it is told to.  It
\* does not look at the signal.
RawFails == /\ thread["raw"] = "run"
            /\ "raw" \in Faults
            /\ Raise("stop")
            /\ thread' = [thread EXCEPT !["raw"] = "over"]
            /\ Elsewhere /\ UNCHANGED hand

RawEnds == /\ thread["raw"] = "run"
           /\ Stopped
           /\ thread' = [thread EXCEPT !["raw"] = "over"]
           /\ Elsewhere /\ UNCHANGED <<flags, hand>>

\* SIGINT or SIGTERM.
Signal == /\ pc # "idle"
          /\ ~signal
          /\ signal' = TRUE
          /\ UNCHANGED <<pc, run, flags, routes, rules, noted, fd, peers, plane, harm>>

\* The process is killed: the kernel closes its descriptors, and the tun
\* device goes with its routes.  Rules and the exception stay.
Killed == /\ pc # "idle"
          /\ "kill" \in Faults
          /\ To("idle")
          /\ fd' = NoFds
          /\ thread' = NoThreads
          /\ plane' = FALSE
          /\ hand' = FALSE
          /\ default' = WithoutTun
          /\ harm' = TRUE
          /\ UNCHANGED <<flags, exception, rules, noted>>
-----------------------------------------------------------------------------
SetUp == \/ Start \/ Pass \/ GiveUp \/ CallFails
         \/ StartUdp \/ StartTunnel \/ StartRaw
         \/ InstallRule("hookLearn", "learning")
         \/ DropRule("dropLearn", "learning")
         \/ InstallRule("hookTunnel", "tunnel")

Plane == \/ OpenTun \/ TunFails \/ LoadRoute \/ AddException
         \/ ReplaceDefault \/ OpenRaw \/ Publish

Cleanup == \/ Leave \/ ClosePlane \/ JoinRaw \/ RestoreDefault \/ CleanupRoutes
           \/ DropRule("unhookTunnel", "tunnel")
           \/ DropRule("unhookLearn", "learning")
           \/ Join \/ Close

Threads == \/ UdpStops \/ UdpEnds
           \/ TunnelOpens \/ TunnelFails \/ TakePacket \/ WriteTun
           \/ TunnelBreaks \/ TunnelEnds
           \/ RawFails \/ RawEnds

Next == SetUp \/ Plane \/ Cleanup \/ Threads \/ Signal \/ Killed

Spec == Init /\ [][Next]_vars
=============================================================================
