---------------------------- MODULE ProxySession ----------------------------
(***************************************************************************)
(* What one session of LTE-Free-Proxy-Server-Program leaves on its host:   *)
(* the NFQUEUE rules of the connection, the NAT and FORWARD rules, the     *)
(* queue, the tun and raw descriptors and the threads that use them, from  *)
(* accept to the end of the cleanup, over the turns of the accept loop.    *)
(*                                                                         *)
(* The program is one main thread that sets things up in a fixed order and *)
(* three threads that may raise stop at any moment.  Almost every step is  *)
(* inside an if(!stop.load()), so main runs on to the cleanup through the  *)
(* steps it skips, and what the cleanup undoes is what main has noted in   *)
(* its *_installed flags.  A command of iptables is one step; the flag     *)
(* that notes it is another.                                               *)
(*                                                                         *)
(* The peer is left out: its messages are the moments at which the UDP     *)
(* thread raises stop, its packets the moments at which the tunnel         *)
(* thread's callback takes one.  LteControl models the messages.           *)
(***************************************************************************)
EXTENDS Naturals

CONSTANTS MaxSessions,   \* bound: the turns of the accept loop
          Faults         \* the faults that may strike

ASSUME MaxSessionsAssumption == MaxSessions \in Nat
ASSUME FaultsAssumption == Faults \subseteq {"call", "udp", "tunnel", "raw"}

VARIABLES pc,       \* where main is
          sess,     \* the number of the session, 0 before the first
          flags,    \* the atomics stop, session_stop, session_error that are up
          signal,   \* g_signal_stop
          rules,    \* NFQUEUE rules in INPUT, counted for each connection
          nat,      \* copies of each NAT and FORWARD rule
          noted,    \* the *_installed flags that are true
          queue,    \* who consumes the NFQUEUE
          fd,       \* tun_fd and raw_send_fd
          thread,   \* the three threads
          plane,    \* data_plane_ready
          hand      \* the tunnel callback has read data_plane_ready as true

vars == <<pc, sess, flags, signal, rules, nat, noted, queue, fd, thread, plane, hand>>
host == <<rules, nat, queue, fd>>
peers == <<thread, hand>>

Sessions == 1 .. MaxSessions
NatRules == {"forwardOut", "forwardBack", "masquerade"}

\* What follows each step of main in program order: the set-up, the wait
\* and the cleanup.
After == [register    |-> "startUdp",   startUdp   |-> "hookLearn",
          hookLearn   |-> "noteLearn",  noteLearn  |-> "learn",
          learn       |-> "forget",     forget     |-> "dropLearn",
          dropLearn   |-> "hookTunnel", hookTunnel |-> "noteTunnel",
          noteTunnel  |-> "startTunnel", startTunnel |-> "waitNfq",
          waitNfq     |-> "ready",      ready      |-> "tun",
          tun         |-> "nat",        nat        |-> "noteNat",
          noteNat     |-> "raw",        raw        |-> "startRaw",
          startRaw    |-> "publish",    publish    |-> "up",
          up          |-> "closing",    closing    |-> "dropTunnel",
          dropTunnel  |-> "dropRest",   dropRest   |-> "join",
          join        |-> "dropNat",    dropNat    |-> "close"]

\* The steps that a test of stop guards.
Gated == {"register", "startUdp", "hookLearn", "noteLearn", "learn", "forget",
          "hookTunnel", "noteTunnel", "startTunnel", "waitNfq", "ready", "tun",
          "nat", "noteNat", "raw", "startRaw", "publish"}

\* The steps within learn_proxy_tcp_base_with_nfqueue.
Learning == {"capture", "unhook", "detach", "consume"}

Pcs == DOMAIN After \cup Learning \cup {"accept", "close", "exit"}

\* Every variable has a value of its type; no count of rules is negative.
TypeOK == /\ pc \in Pcs
          /\ sess \in 0 .. MaxSessions
          /\ flags \subseteq {"stop", "sessionStop", "sessionError"}
          /\ signal \in BOOLEAN
          /\ rules \in [Sessions -> Nat]
          /\ nat \in [NatRules -> Nat]
          /\ noted \subseteq {"learning", "tunnel", "nat"}
          /\ queue \in {"none", "learning", "tunnel"}
          /\ fd \in [{"tun", "raw"} -> {"none", "open", "closed"}]
          /\ thread \in [{"udp", "tunnel", "raw"} -> {"off", "starting", "run", "over"}]
          /\ plane \in BOOLEAN
          /\ hand \in BOOLEAN

NoFds     == [d \in {"tun", "raw"} |-> "none"]
NoThreads == [t \in {"udp", "tunnel", "raw"} |-> "off"]

Init == /\ pc = "accept"
        /\ sess = 0
        /\ flags = {}
        /\ signal = FALSE
        /\ rules = [s \in Sessions |-> 0]
        /\ nat = [r \in NatRules |-> 0]
        /\ noted = {}
        /\ queue = "none"
        /\ fd = NoFds
        /\ thread = NoThreads
        /\ plane = FALSE
        /\ hand = FALSE
-----------------------------------------------------------------------------
(***************************************************************************)
(* Commands.  A rule is inserted once for each run of iptables, even if it *)
(* is there already; a deletion takes one copy away and does nothing when  *)
(* there is none.                                                          *)
(***************************************************************************)
Hook == rules' = [rules EXCEPT ![sess] = @ + 1]

\* Mutated: the count of rules goes down although there is no rule.
UnhookAny == rules' = [rules EXCEPT ![sess] = @ - 1]

Unhook == rules' = [rules EXCEPT ![sess] = IF @ = 0 THEN 0 ELSE @ - 1]

\* setup_nat_rules appends its rules one after the other; the command that
\* fails is the sysctl before them or one of the three.
Appended == {{}, {"forwardOut"}, {"forwardOut", "forwardBack"}}

Plus(n, rs)  == [r \in NatRules |-> n[r] + (IF r \in rs THEN 1 ELSE 0)]
CleanupNat(n) == [r \in NatRules |-> IF n[r] = 0 THEN 0 ELSE n[r] - 1]
-----------------------------------------------------------------------------
(***************************************************************************)
(* Main: the set-up.                                                       *)
(***************************************************************************)
Stopped == "stop" \in flags

\* main is at p and stop is down.
At(p) == pc = p /\ ~Stopped

To(p) == pc' = p /\ UNCHANGED <<sess, signal>>

Raise(f) == flags' = flags \cup {f}

\* A step behind if(!stop.load()) when stop is up.
Skip == /\ pc \in Gated
        /\ Stopped
        /\ To(After[pc])
        /\ UNCHANGED <<flags, host, peers, noted, plane>>

\* A call that returns false makes main raise stop and run on.
CallFails == /\ pc \in {"register", "hookLearn", "hookTunnel", "ready", "raw"}
             /\ ~Stopped
             /\ "call" \in Faults \/ (signal /\ pc \in {"register", "ready"})
             /\ Raise("stop")
             /\ To(After[pc])
             /\ UNCHANGED <<host, peers, noted, plane>>

\* accept_client_with_signal, and the keepalive and raw configuration that
\* may fail with the session already begun.
Accept == /\ pc = "accept"
          /\ ~signal
          /\ sess < MaxSessions
          /\ sess' = sess + 1
          /\ pc' = "register"
          /\ flags' \in {{}} \cup (IF "call" \in Faults THEN {{"stop"}} ELSE {})
          /\ noted' = {}
          /\ fd' = NoFds
          /\ thread' = NoThreads
          /\ plane' = FALSE
          /\ hand' = FALSE
          /\ UNCHANGED <<signal, rules, nat, queue>>

\* run_proxy_udp_register or run_proxy_ready_handshake returns true.
Handshake == /\ pc \in {"register", "ready"}
             /\ ~Stopped
             /\ To(After[pc])
             /\ UNCHANGED <<flags, host, peers, noted, plane>>

StartThread(p, t, as) == /\ At(p)
                         /\ thread' = [thread EXCEPT ![t] = as]
                         /\ To(After[p])
                         /\ UNCHANGED <<flags, host, noted, plane, hand>>

StartUdp    == StartThread("startUdp", "udp", "run")
StartTunnel == StartThread("startTunnel", "tunnel", "starting")
StartRaw    == StartThread("startRaw", "raw", "run")

InstallRule(p) == /\ At(p)
                  /\ Hook
                  /\ To(After[p])
                  /\ UNCHANGED <<flags, nat, queue, fd, peers, noted, plane>>

\* if(!stop.load()) *_installed = true
Note(p, what) == /\ At(p)
                 /\ noted' = noted \cup {what}
                 /\ To(After[p])
                 /\ UNCHANGED <<flags, host, peers, plane>>
-----------------------------------------------------------------------------
(***************************************************************************)
(* learn_proxy_tcp_base_with_nfqueue.                                      *)
(***************************************************************************)
OpenLearnQueue == /\ At("learn")
                  /\ queue' = "learning"
                  /\ To("capture")
                  /\ UNCHANGED <<flags, rules, nat, fd, peers, noted, plane>>

\* The marker has been seen on the queue.
Capture == /\ pc = "capture"
           /\ To("unhook")
           /\ UNCHANGED <<flags, host, peers, noted, plane>>

\* Mutated: the queue stays when a wait fails.
LearnFailsAttached == /\ pc \in {"capture", "consume"}
                      /\ Stopped \/ signal \/ "call" \in Faults
                      /\ Raise("stop")
                      /\ To("dropLearn")
                      /\ UNCHANGED <<host, peers, noted, plane>>

\* It returns false: the queue cannot be opened, or stop, a signal, a timeout
\* or an error ends one of its waits.  main raises stop, so it does not pass
\* the step that would forget the rule.
LearnFails == /\ \/ At("learn") /\ "call" \in Faults
                 \/ /\ pc \in {"capture", "consume"}
                    /\ Stopped \/ signal \/ "call" \in Faults
              /\ queue' = "none"
              /\ Raise("stop")
              /\ To("dropLearn")
              /\ UNCHANGED <<rules, nat, fd, peers, noted, plane>>

\* Mutated: the learning rule stays.
UnhookLearnKept == /\ pc = "unhook"
                   /\ To("detach")
                   /\ UNCHANGED <<flags, host, peers, noted, plane>>

UnhookLearn == /\ pc = "unhook"
               /\ Unhook
               /\ To("detach")
               /\ UNCHANGED <<flags, nat, queue, fd, peers, noted, plane>>

DetachLearn == /\ pc = "detach"
               /\ queue' = "none"
               /\ To("consume")
               /\ UNCHANGED <<flags, rules, nat, fd, peers, noted, plane>>

Consume == /\ pc = "consume"
           /\ To("forget")
           /\ UNCHANGED <<flags, host, peers, noted, plane>>

\* if(!stop.load()) learning_rule_installed = false
Forget == /\ At("forget")
          /\ noted' = noted \ {"learning"}
          /\ To(After["forget"])
          /\ UNCHANGED <<flags, host, peers, plane>>

\* if(*_rule_installed) delete the rule; the two rules have the same text.
DropRule(p, what) ==
  /\ pc = p
  /\ IF what \in noted THEN Unhook ELSE UNCHANGED rules
  /\ noted' = noted \ {what}
  /\ To(After[p])
  /\ UNCHANGED <<flags, nat, queue, fd, peers, plane>>
-----------------------------------------------------------------------------
(***************************************************************************)
(* Main: the data plane and the cleanup.                                   *)
(***************************************************************************)

\* The wait for the tunnel thread ends when its queue is open, or without
\* it, and then main raises stop.
NfqReady == /\ At("waitNfq")
            /\ thread["tunnel"] = "run"
            /\ To(After["waitNfq"])
            /\ UNCHANGED <<flags, host, peers, noted, plane>>

NfqNotReady == /\ At("waitNfq")
               /\ thread["tunnel"] # "run"
               /\ signal \/ "sessionError" \in flags
               /\ Raise("stop")
               /\ To(After["waitNfq"])
               /\ UNCHANGED <<host, peers, noted, plane>>

OpenTun == /\ At("tun")
           /\ fd' = [fd EXCEPT !["tun"] = "open"]
           /\ To(After["tun"])
           /\ UNCHANGED <<flags, rules, nat, queue, peers, noted, plane>>

\* tun_alloc fails, or what follows it, which leaves the descriptor open.
TunFails == /\ At("tun")
            /\ "call" \in Faults
            /\ \E s \in {"none", "open"} : fd' = [fd EXCEPT !["tun"] = s]
            /\ Raise("stop")
            /\ To(After["tun"])
            /\ UNCHANGED <<rules, nat, queue, peers, noted, plane>>

SetUpNat == /\ At("nat")
            /\ nat' = Plus(nat, NatRules)
            /\ To(After["nat"])
            /\ UNCHANGED <<flags, rules, queue, fd, peers, noted, plane>>

\* Mutated: what was appended before the failure stays.
SetUpNatFailsKept == /\ At("nat")
                     /\ "call" \in Faults
                     /\ \E rs \in Appended : nat' = Plus(nat, rs)
                     /\ Raise("stop")
                     /\ To(After["nat"])
                     /\ UNCHANGED <<rules, queue, fd, peers, noted, plane>>

\* Mutated: stop stays down.
SetUpNatFailsOn == /\ At("nat")
                   /\ "call" \in Faults
                   /\ \E rs \in Appended : nat' = CleanupNat(Plus(nat, rs))
                   /\ To(After["nat"])
                   /\ UNCHANGED <<flags, rules, queue, fd, peers, noted, plane>>

SetUpNatFails == /\ At("nat")
                 /\ "call" \in Faults
                 /\ \E rs \in Appended : nat' = CleanupNat(Plus(nat, rs))
                 /\ Raise("stop")
                 /\ To(After["nat"])
                 /\ UNCHANGED <<rules, queue, fd, peers, noted, plane>>

OpenRaw == /\ At("raw")
           /\ fd' = [fd EXCEPT !["raw"] = "open"]
           /\ To(After["raw"])
           /\ UNCHANGED <<flags, rules, nat, queue, peers, noted, plane>>

Publish == /\ At("publish")
           /\ plane' = TRUE
           /\ To(After["publish"])
           /\ UNCHANGED <<flags, host, peers, noted>>

\* The session's wait loop ends.
Leave == /\ pc = "up"
         /\ flags # {} \/ signal
         /\ To(After["up"])
         /\ UNCHANGED <<flags, host, peers, noted, plane>>

\* Mutated: the descriptors are closed before the threads are joined.
ClosePlaneCloses == /\ pc = "closing"
                    /\ flags' = flags \cup {"stop", "sessionStop"}
                    /\ plane' = FALSE
                    /\ fd' = [d \in DOMAIN fd |->
                                IF fd[d] = "open" THEN "closed" ELSE fd[d]]
                    /\ To(After["closing"])
                    /\ UNCHANGED <<rules, nat, queue, peers, noted>>

\* Mutated: stop stays down.
ClosePlaneHalf == /\ pc = "closing"
                  /\ flags' = flags \cup {"sessionStop"}
                  /\ plane' = FALSE
                  /\ To(After["closing"])
                  /\ UNCHANGED <<host, peers, noted>>

ClosePlane == /\ pc = "closing"
              /\ flags' = flags \cup {"stop", "sessionStop"}
              /\ plane' = FALSE
              /\ To(After["closing"])
              /\ UNCHANGED <<host, peers, noted>>

Join == /\ pc = "join"
        /\ \A t \in DOMAIN thread : thread[t] \in {"off", "over"}
        /\ To(After["join"])
        /\ UNCHANGED <<flags, host, peers, noted, plane>>

DropNat == /\ pc = "dropNat"
           /\ nat' = IF "nat" \in noted THEN CleanupNat(nat) ELSE nat
           /\ noted' = noted \ {"nat"}
           /\ To(After["dropNat"])
           /\ UNCHANGED <<flags, rules, queue, fd, peers, plane>>

Close == /\ pc = "close"
         /\ fd' = [d \in DOMAIN fd |-> IF fd[d] = "open" THEN "closed" ELSE fd[d]]
         /\ To(IF signal THEN "exit" ELSE "accept")
         /\ UNCHANGED <<flags, rules, nat, queue, peers, noted, plane>>

\* A signal breaks off the accept loop.
Exit == /\ pc = "accept"
        /\ signal
        /\ To("exit")
        /\ UNCHANGED <<flags, host, peers, noted, plane>>
-----------------------------------------------------------------------------
(***************************************************************************)
(* The threads, and the signal.                                            *)
(***************************************************************************)
Elsewhere == UNCHANGED <<pc, sess, signal, rules, nat, noted, plane>>

\* The UDP thread takes a valid STOP, or cannot answer a REGISTER: it raises
\* two flags and returns.  It may have been receiving when stop was raised.
UdpStops == /\ thread["udp"] = "run"
            /\ "udp" \in Faults
            /\ \E f \in {"sessionStop", "sessionError"} :
                 flags' = flags \cup {f, "stop"}
            /\ thread' = [thread EXCEPT !["udp"] = "over"]
            /\ Elsewhere /\ UNCHANGED <<queue, fd, hand>>

UdpEnds == /\ thread["udp"] = "run"
           /\ flags # {} \/ signal
           /\ thread' = [thread EXCEPT !["udp"] = "over"]
           /\ Elsewhere /\ UNCHANGED <<flags, queue, fd, hand>>

\* The tunnel thread opens its queue and raises nfqueue_ready.
TunnelOpens == /\ thread["tunnel"] = "starting"
               /\ queue' = "tunnel"
               /\ thread' = [thread EXCEPT !["tunnel"] = "run"]
               /\ Elsewhere /\ UNCHANGED <<flags, fd, hand>>

TunnelFails == /\ thread["tunnel"] = "starting"
               /\ "tunnel" \in Faults
               /\ Raise("sessionError")
               /\ thread' = [thread EXCEPT !["tunnel"] = "over"]
               /\ Elsewhere /\ UNCHANGED <<queue, fd, hand>>

\* The callback finds data_plane_ready up and will write to tun_fd.
TakePacket == /\ thread["tunnel"] = "run"
              /\ queue = "tunnel" /\ plane /\ ~hand
              /\ hand' = TRUE
              /\ Elsewhere /\ UNCHANGED <<flags, queue, fd, thread>>

WriteTun == /\ hand
            /\ hand' = FALSE
            /\ Elsewhere /\ UNCHANGED <<flags, queue, fd, thread>>

\* The write to tun fails, or the receive from the queue does.
TunnelBreaks == /\ thread["tunnel"] = "run"
                /\ "tunnel" \in Faults
                /\ Raise("sessionError")
                /\ hand' = FALSE
                /\ Elsewhere /\ UNCHANGED <<queue, fd, thread>>

TunnelEnds == /\ thread["tunnel"] = "run"
              /\ ~hand
              /\ flags # {}
              /\ queue' = "none"
              /\ thread' = [thread EXCEPT !["tunnel"] = "over"]
              /\ Elsewhere /\ UNCHANGED <<flags, fd, hand>>

\* tun_to_raw_loop ends, because of a failure or because it is told to.
RawFails == /\ thread["raw"] = "run"
            /\ "raw" \in Faults
            /\ Raise("stop")
            /\ thread' = [thread EXCEPT !["raw"] = "over"]
            /\ Elsewhere /\ UNCHANGED <<queue, fd, hand>>

RawEnds == /\ thread["raw"] = "run"
           /\ Stopped \/ signal
           /\ thread' = [thread EXCEPT !["raw"] = "over"]
           /\ Elsewhere /\ UNCHANGED <<flags, queue, fd, hand>>

\* SIGINT or SIGTERM.
Signal == /\ ~signal
          /\ signal' = TRUE
          /\ UNCHANGED <<pc, sess, flags, host, peers, noted, plane>>
-----------------------------------------------------------------------------
SetUp == \/ Accept \/ Skip \/ CallFails \/ Handshake
         \/ StartUdp \/ StartTunnel \/ StartRaw
         \/ InstallRule("hookLearn") \/ InstallRule("hookTunnel")
         \/ Note("noteLearn", "learning") \/ Note("noteTunnel", "tunnel")
         \/ Note("noteNat", "nat")

Learn == \/ OpenLearnQueue \/ Capture \/ UnhookLearn \/ DetachLearn
         \/ Consume \/ LearnFails
         \/ Forget \/ DropRule("dropLearn", "learning")

Plane == \/ NfqReady \/ NfqNotReady \/ OpenTun \/ TunFails
         \/ SetUpNat \/ SetUpNatFails \/ OpenRaw \/ Publish

Cleanup == \/ Leave \/ ClosePlane
           \/ DropRule("dropTunnel", "tunnel") \/ DropRule("dropRest", "learning")
           \/ Join \/ DropNat \/ Close \/ Exit

Threads == \/ UdpStops \/ UdpEnds
           \/ TunnelOpens \/ TunnelFails \/ TakePacket \/ WriteTun
           \/ TunnelBreaks \/ TunnelEnds
           \/ RawFails \/ RawEnds

Next == SetUp \/ Learn \/ Plane \/ Cleanup \/ Threads \/ Signal

Spec == Init /\ [][Next]_vars
=============================================================================
