-------------------------- MODULE ProxySessionProofs --------------------------
(***************************************************************************)
(* What one session of the proxy leaves on its host, for every number of   *)
(* sessions and every combination of faults: proofs about ProxySession and *)
(* ProxyHost.                                                              *)
(*                                                                         *)
(* The invariant says what main may count on where it stands.  Its facts   *)
(* about the set-up hold only while stop is down: stop is never lowered in *)
(* a session, so a step of another thread that raises it can only make     *)
(* them hold vacuously, and the steps of main that rely on them test stop  *)
(* first.                                                                  *)
(***************************************************************************)
EXTENDS ProxyHost, TLAPS

Before == {"register", "startUdp", "hookLearn", "noteLearn", "learn", "capture",
           "unhook", "detach", "consume", "forget", "dropLearn", "hookTunnel",
           "noteTunnel", "startTunnel"}

WithTun == {"nat", "noteNat", "raw", "startRaw", "publish"}

WithRule == {"noteTunnel", "startTunnel", "waitNfq", "ready", "tun"} \cup WithTun

UntilJoin == {"up", "closing", "dropTunnel", "dropRest", "join"}

\* What main knows of the rules of the connection.
RuleInv ==
  /\ pc \notin {"accept", "exit"} => sess \in Sessions
  /\ \A s \in Sessions : rules[s] <= 1 /\ (s > sess => rules[s] = 0)
  /\ pc \in {"register", "startUdp", "hookLearn", "detach", "consume"}
       => rules[sess] = 0
  /\ pc \in {"forget", "dropLearn", "hookTunnel"} /\ ~Stopped => rules[sess] = 0

\* What the set-up has established when stop is down.
PlaneInv ==
  /\ plane => pc \in {"up", "closing"}
  /\ plane => rules[sess] = 1
  /\ plane => \A r \in NatRules : nat[r] >= 1
  /\ plane => fd["tun"] = "open" /\ fd["raw"] = "open" /\ thread["raw"] # "off"
  /\ pc \in WithRule /\ ~Stopped => rules[sess] = 1
  /\ pc \in {"noteNat", "raw", "startRaw", "publish"} /\ ~Stopped
       => \A r \in NatRules : nat[r] >= 1
  /\ pc \in WithTun /\ ~Stopped => fd["tun"] = "open"
  /\ pc \in {"startRaw", "publish"} /\ ~Stopped => fd["raw"] = "open"
  /\ pc = "publish" /\ ~Stopped => thread["raw"] # "off"

\* Which thread may be using what, and where main is then.
UseInv ==
  /\ hand => thread["tunnel"] = "run" /\ fd["tun"] = "open" /\ pc \in UntilJoin
  /\ thread["raw"] = "run" => /\ fd["tun"] = "open" /\ fd["raw"] = "open"
                              /\ pc \in {"publish"} \cup UntilJoin
  /\ thread["tunnel"] = "run" <=> queue = "tunnel"
  /\ queue = "learning" => pc \in {"capture", "unhook", "detach"}
  /\ pc \in Before => thread["tunnel"] = "off"
  /\ pc \in {"dropNat", "close", "accept", "exit"}
       => \A t \in {"udp", "tunnel", "raw"} : thread[t] \in {"off", "over"}
  /\ pc \in {"accept", "exit"} => fd["tun"] # "open" /\ fd["raw"] # "open"

Inv == TypeOK /\ RuleInv /\ PlaneInv /\ UseInv
-----------------------------------------------------------------------------
\* The order of the steps of main, step by step.
LEMMA AfterStep ==
  /\ After["register"] = "startUdp"
  /\ After["startUdp"] = "hookLearn"
  /\ After["hookLearn"] = "noteLearn"
  /\ After["noteLearn"] = "learn"
  /\ After["learn"] = "forget"
  /\ After["forget"] = "dropLearn"
  /\ After["dropLearn"] = "hookTunnel"
  /\ After["hookTunnel"] = "noteTunnel"
  /\ After["noteTunnel"] = "startTunnel"
  /\ After["startTunnel"] = "waitNfq"
  /\ After["waitNfq"] = "ready"
  /\ After["ready"] = "tun"
  /\ After["tun"] = "nat"
  /\ After["nat"] = "noteNat"
  /\ After["noteNat"] = "raw"
  /\ After["raw"] = "startRaw"
  /\ After["startRaw"] = "publish"
  /\ After["publish"] = "up"
  /\ After["up"] = "closing"
  /\ After["closing"] = "dropTunnel"
  /\ After["dropTunnel"] = "dropRest"
  /\ After["dropRest"] = "join"
  /\ After["join"] = "dropNat"
  /\ After["dropNat"] = "close"
BY DEF After

\* Every step and every place inside the learning is a value of pc.
LEMMA PcsAre ==
  Pcs = {"register", "startUdp", "hookLearn", "noteLearn", "learn",
         "forget", "dropLearn", "hookTunnel", "noteTunnel", "startTunnel",
         "waitNfq", "ready", "tun", "nat", "noteNat", "raw", "startRaw",
         "publish", "up", "closing", "dropTunnel", "dropRest", "join",
         "dropNat", "capture", "unhook", "detach", "consume", "accept",
         "close", "exit"}
BY DEF Pcs, After, Learning

\* The other threads touch neither main's place nor the rules, raise flags
\* and never lower them, and do not undo the start of a thread.
LEMMA ThreadsKeep ==
  ASSUME TypeOK, Threads
  PROVE  /\ UNCHANGED <<pc, sess, signal, rules, nat, noted, plane, fd>>
         /\ flags \subseteq flags'
         /\ thread["raw"] # "off" => thread'["raw"] # "off"
<1>1. CASE UdpStops
  BY <1>1 DEF TypeOK, UdpStops, Elsewhere
<1>2. CASE UdpEnds
  BY <1>2 DEF TypeOK, UdpEnds, Elsewhere
<1>3. CASE TunnelOpens
  BY <1>3 DEF TypeOK, TunnelOpens, Elsewhere
<1>4. CASE TunnelFails
  BY <1>4 DEF TypeOK, TunnelFails, Elsewhere, Raise
<1>5. CASE TakePacket
  BY <1>5 DEF TypeOK, TakePacket, Elsewhere
<1>6. CASE WriteTun
  BY <1>6 DEF TypeOK, WriteTun, Elsewhere
<1>7. CASE TunnelBreaks
  BY <1>7 DEF TypeOK, TunnelBreaks, Elsewhere, Raise
<1>8. CASE TunnelEnds
  BY <1>8 DEF TypeOK, TunnelEnds, Elsewhere
<1>9. CASE RawFails
  BY <1>9 DEF TypeOK, RawFails, Elsewhere, Raise
<1>10. CASE RawEnds
  BY <1>10 DEF TypeOK, RawEnds, Elsewhere, Stopped
<1> QED BY <1>1, <1>2, <1>3, <1>4, <1>5, <1>6, <1>7, <1>8, <1>9, <1>10 DEF
           Threads

\* The types are kept: a rule is only counted for the session that runs.
LEMMA TypeStep == Inv /\ [Next]_vars => TypeOK'
<1> SUFFICES ASSUME Inv, [Next]_vars
             PROVE  TypeOK'
  OBVIOUS
<1>1. CASE SetUp
  <2>1. CASE Skip
    BY <2>1, AfterStep, PcsAre DEF Inv, TypeOK, RuleInv, Skip, To, Stopped,
       Gated, host, peers, Sessions, NatRules
  <2>2. CASE CallFails
    BY <2>2, AfterStep, PcsAre DEF Inv, TypeOK, RuleInv, CallFails, To, Raise,
       Stopped, host, peers, Sessions, NatRules
  <2>3. CASE Accept
    <3>1. flags' \subseteq {"stop", "sessionStop", "sessionError"}
      BY <2>3 DEF Accept
    <3>2. pc' \in Pcs /\ sess' \in 0 .. MaxSessions
      BY <2>3, PcsAre, MaxSessionsAssumption DEF Inv, TypeOK, Accept
    <3> QED
      BY <2>3, <3>1, <3>2
         DEF Inv, TypeOK, Accept, NoFds, NoThreads, NatRules
  <2>4. CASE Handshake
    BY <2>4, AfterStep, PcsAre DEF Inv, TypeOK, RuleInv, Handshake, To,
       Stopped, host, peers, Sessions, NatRules
  <2>5. CASE StartUdp
    BY <2>5, AfterStep, PcsAre DEF Inv, TypeOK, RuleInv, StartUdp, StartThread,
       To, At, Stopped, host, Sessions, NatRules
  <2>6. CASE StartTunnel
    BY <2>6, AfterStep, PcsAre DEF Inv, TypeOK, RuleInv, StartTunnel,
       StartThread, To, At, Stopped, host, Sessions, NatRules
  <2>7. CASE StartRaw
    BY <2>7, AfterStep, PcsAre DEF Inv, TypeOK, RuleInv, StartRaw, StartThread,
       To, At, Stopped, host, Sessions, NatRules
  <2>8. CASE InstallRule("hookLearn")
    BY <2>8, AfterStep, PcsAre DEF Inv, TypeOK, RuleInv, InstallRule, Hook, To,
       At, Stopped, peers, Sessions, NatRules
  <2>9. CASE InstallRule("hookTunnel")
    BY <2>9, AfterStep, PcsAre DEF Inv, TypeOK, RuleInv, InstallRule, Hook, To,
       At, Stopped, peers, Sessions, NatRules
  <2>10. CASE Note("noteLearn", "learning")
    BY <2>10, AfterStep, PcsAre DEF Inv, TypeOK, RuleInv, Note, To, At,
       Stopped, host, peers, Sessions, NatRules
  <2>11. CASE Note("noteTunnel", "tunnel")
    BY <2>11, AfterStep, PcsAre DEF Inv, TypeOK, RuleInv, Note, To, At,
       Stopped, host, peers, Sessions, NatRules
  <2>12. CASE Note("noteNat", "nat")
    BY <2>12, AfterStep, PcsAre DEF Inv, TypeOK, RuleInv, Note, To, At,
       Stopped, host, peers, Sessions, NatRules
  <2> QED BY <1>1, <2>1, <2>2, <2>3, <2>4, <2>5, <2>6, <2>7, <2>8, <2>9,
         <2>10, <2>11, <2>12 DEF SetUp
<1>2. CASE Learn
  <2>1. CASE OpenLearnQueue
    BY <2>1, AfterStep, PcsAre DEF Inv, TypeOK, RuleInv, OpenLearnQueue, To,
       At, Stopped, peers, Sessions, NatRules
  <2>2. CASE Capture
    BY <2>2, AfterStep, PcsAre DEF Inv, TypeOK, RuleInv, Capture, To, host,
       peers, Sessions, NatRules
  <2>3. CASE UnhookLearn
    BY <2>3, AfterStep, PcsAre DEF Inv, TypeOK, RuleInv, UnhookLearn, Unhook,
       To, peers, Sessions, NatRules
  <2>4. CASE DetachLearn
    BY <2>4, AfterStep, PcsAre DEF Inv, TypeOK, RuleInv, DetachLearn, To,
       peers, Sessions, NatRules
  <2>5. CASE Consume
    BY <2>5, AfterStep, PcsAre DEF Inv, TypeOK, RuleInv, Consume, To, host,
       peers, Sessions, NatRules
  <2>6. CASE LearnFails
    BY <2>6, AfterStep, PcsAre DEF Inv, TypeOK, RuleInv, LearnFails, To, At,
       Raise, Stopped, peers, Sessions, NatRules
  <2>7. CASE Forget
    BY <2>7, AfterStep, PcsAre DEF Inv, TypeOK, RuleInv, Forget, To, At,
       Stopped, host, peers, Sessions, NatRules
  <2>8. CASE DropRule("dropLearn", "learning")
    BY <2>8, AfterStep, PcsAre DEF Inv, TypeOK, RuleInv, DropRule, Unhook, To,
       peers, Sessions, NatRules
  <2> QED BY <1>2, <2>1, <2>2, <2>3, <2>4, <2>5, <2>6, <2>7, <2>8 DEF Learn
<1>3. CASE Plane
  <2>1. CASE NfqReady
    BY <2>1, AfterStep, PcsAre DEF Inv, TypeOK, RuleInv, NfqReady, To, At,
       Stopped, host, peers, Sessions, NatRules
  <2>2. CASE NfqNotReady
    BY <2>2, AfterStep, PcsAre DEF Inv, TypeOK, RuleInv, NfqNotReady, To, At,
       Raise, Stopped, host, peers, Sessions, NatRules
  <2>3. CASE OpenTun
    BY <2>3, AfterStep, PcsAre DEF Inv, TypeOK, RuleInv, OpenTun, To, At,
       Stopped, peers, Sessions, NatRules
  <2>4. CASE TunFails
    BY <2>4, AfterStep, PcsAre DEF Inv, TypeOK, RuleInv, TunFails, To, At,
       Raise, Stopped, peers, Sessions, NatRules
  <2>5. CASE SetUpNat
    BY <2>5, AfterStep, PcsAre DEF Inv, TypeOK, RuleInv, SetUpNat, Plus, To,
       At, Stopped, peers, Sessions, NatRules
  <2>6. CASE SetUpNatFails
    BY <2>6, AfterStep, PcsAre DEF Inv, TypeOK, RuleInv, SetUpNatFails, Plus,
       CleanupNat, Appended, To, At, Raise, Stopped, peers, Sessions, NatRules
  <2>7. CASE OpenRaw
    BY <2>7, AfterStep, PcsAre DEF Inv, TypeOK, RuleInv, OpenRaw, To, At,
       Stopped, peers, Sessions, NatRules
  <2>8. CASE Publish
    BY <2>8, AfterStep, PcsAre DEF Inv, TypeOK, RuleInv, Publish, To, At,
       Stopped, host, peers, Sessions, NatRules
  <2> QED BY <1>3, <2>1, <2>2, <2>3, <2>4, <2>5, <2>6, <2>7, <2>8 DEF Plane
<1>4. CASE Cleanup
  <2>1. CASE Leave
    BY <2>1, AfterStep, PcsAre DEF Inv, TypeOK, RuleInv, Leave, To, host,
       peers, Sessions, NatRules
  <2>2. CASE ClosePlane
    BY <2>2, AfterStep, PcsAre DEF Inv, TypeOK, RuleInv, ClosePlane, To, host,
       peers, Sessions, NatRules
  <2>3. CASE DropRule("dropTunnel", "tunnel")
    BY <2>3, AfterStep, PcsAre DEF Inv, TypeOK, RuleInv, DropRule, Unhook, To,
       peers, Sessions, NatRules
  <2>4. CASE DropRule("dropRest", "learning")
    BY <2>4, AfterStep, PcsAre DEF Inv, TypeOK, RuleInv, DropRule, Unhook, To,
       peers, Sessions, NatRules
  <2>5. CASE Join
    BY <2>5, AfterStep, PcsAre DEF Inv, TypeOK, RuleInv, Join, To, host, peers,
       Sessions, NatRules
  <2>6. CASE DropNat
    BY <2>6, AfterStep, PcsAre DEF Inv, TypeOK, RuleInv, DropNat, CleanupNat,
       To, peers, Sessions, NatRules
  <2>7. CASE Close
    BY <2>7, AfterStep, PcsAre DEF Inv, TypeOK, RuleInv, Close, To, peers,
       Sessions, NatRules
  <2>8. CASE Exit
    BY <2>8, AfterStep, PcsAre DEF Inv, TypeOK, RuleInv, Exit, To, host, peers,
       Sessions, NatRules
  <2> QED BY <1>4, <2>1, <2>2, <2>3, <2>4, <2>5, <2>6, <2>7, <2>8 DEF Cleanup
<1>5. CASE Threads
  <2>1. CASE UdpStops
    BY <2>1, PcsAre DEF Inv, TypeOK, RuleInv, UdpStops, Elsewhere, Sessions,
       NatRules
  <2>2. CASE UdpEnds
    BY <2>2, PcsAre DEF Inv, TypeOK, RuleInv, UdpEnds, Elsewhere, Sessions,
       NatRules
  <2>3. CASE TunnelOpens
    BY <2>3, PcsAre DEF Inv, TypeOK, RuleInv, TunnelOpens, Elsewhere, Sessions,
       NatRules
  <2>4. CASE TunnelFails
    BY <2>4, PcsAre DEF Inv, TypeOK, RuleInv, TunnelFails, Elsewhere, Raise,
       Sessions, NatRules
  <2>5. CASE TakePacket
    BY <2>5, PcsAre DEF Inv, TypeOK, RuleInv, TakePacket, Elsewhere, Sessions,
       NatRules
  <2>6. CASE WriteTun
    BY <2>6, PcsAre DEF Inv, TypeOK, RuleInv, WriteTun, Elsewhere, Sessions,
       NatRules
  <2>7. CASE TunnelBreaks
    BY <2>7, PcsAre DEF Inv, TypeOK, RuleInv, TunnelBreaks, Elsewhere, Raise,
       Sessions, NatRules
  <2>8. CASE TunnelEnds
    BY <2>8, PcsAre DEF Inv, TypeOK, RuleInv, TunnelEnds, Elsewhere, Sessions,
       NatRules
  <2>9. CASE RawFails
    BY <2>9, PcsAre DEF Inv, TypeOK, RuleInv, RawFails, Elsewhere, Raise,
       Sessions, NatRules
  <2>10. CASE RawEnds
    BY <2>10, PcsAre DEF Inv, TypeOK, RuleInv, RawEnds, Elsewhere, Stopped,
       Sessions, NatRules
  <2> QED BY <1>5, <2>1, <2>2, <2>3, <2>4, <2>5, <2>6, <2>7, <2>8, <2>9,
         <2>10 DEF Threads
<1>6. CASE Signal
  BY <1>6 DEF Inv, TypeOK, RuleInv, Signal, host, peers, Sessions, NatRules
<1>7. CASE UNCHANGED vars
  BY <1>7 DEF Inv, TypeOK, RuleInv, vars, Sessions, NatRules
<1> QED BY <1>1, <1>2, <1>3, <1>4, <1>5, <1>6, <1>7 DEF Next

\* What main knows of the rules is kept.
LEMMA RuleStep == Inv /\ [Next]_vars => RuleInv'
<1> SUFFICES ASSUME Inv, [Next]_vars
             PROVE  RuleInv'
  OBVIOUS
<1>1. CASE SetUp
  <2>1. CASE Skip
    BY <2>1, AfterStep DEF Inv, TypeOK, RuleInv, Skip, To, Stopped, Gated,
       host, peers, Sessions
  <2>2. CASE CallFails
    BY <2>2, AfterStep DEF Inv, TypeOK, RuleInv, CallFails, To, Raise, Stopped,
       host, peers, Sessions
  <2>3. CASE Accept
    BY <2>3, MaxSessionsAssumption DEF Inv, TypeOK, RuleInv, Accept, NoFds,
       NoThreads, Sessions, Stopped
  <2>4. CASE Handshake
    BY <2>4, AfterStep DEF Inv, TypeOK, RuleInv, Handshake, To, Stopped, host,
       peers, Sessions
  <2>5. CASE StartUdp
    BY <2>5, AfterStep DEF Inv, TypeOK, RuleInv, StartUdp, StartThread, To, At,
       Stopped, host, Sessions
  <2>6. CASE StartTunnel
    BY <2>6, AfterStep DEF Inv, TypeOK, RuleInv, StartTunnel, StartThread, To,
       At, Stopped, host, Sessions
  <2>7. CASE StartRaw
    BY <2>7, AfterStep DEF Inv, TypeOK, RuleInv, StartRaw, StartThread, To, At,
       Stopped, host, Sessions
  <2>8. CASE InstallRule("hookLearn")
    BY <2>8, AfterStep DEF Inv, TypeOK, RuleInv, InstallRule, Hook, To, At,
       Stopped, peers, Sessions
  <2>9. CASE InstallRule("hookTunnel")
    BY <2>9, AfterStep DEF Inv, TypeOK, RuleInv, InstallRule, Hook, To, At,
       Stopped, peers, Sessions
  <2>10. CASE Note("noteLearn", "learning")
    BY <2>10, AfterStep DEF Inv, TypeOK, RuleInv, Note, To, At, Stopped, host,
       peers, Sessions
  <2>11. CASE Note("noteTunnel", "tunnel")
    BY <2>11, AfterStep DEF Inv, TypeOK, RuleInv, Note, To, At, Stopped, host,
       peers, Sessions
  <2>12. CASE Note("noteNat", "nat")
    BY <2>12, AfterStep DEF Inv, TypeOK, RuleInv, Note, To, At, Stopped, host,
       peers, Sessions
  <2> QED BY <1>1, <2>1, <2>2, <2>3, <2>4, <2>5, <2>6, <2>7, <2>8, <2>9,
         <2>10, <2>11, <2>12 DEF SetUp
<1>2. CASE Learn
  <2>1. CASE OpenLearnQueue
    BY <2>1, AfterStep DEF Inv, TypeOK, RuleInv, OpenLearnQueue, To, At,
       Stopped, peers, Sessions
  <2>2. CASE Capture
    BY <2>2, AfterStep DEF Inv, TypeOK, RuleInv, Capture, To, host, peers,
       Sessions, Stopped
  <2>3. CASE UnhookLearn
    BY <2>3, AfterStep DEF Inv, TypeOK, RuleInv, UnhookLearn, Unhook, To,
       peers, Sessions, Stopped
  <2>4. CASE DetachLearn
    BY <2>4, AfterStep DEF Inv, TypeOK, RuleInv, DetachLearn, To, peers,
       Sessions, Stopped
  <2>5. CASE Consume
    BY <2>5, AfterStep DEF Inv, TypeOK, RuleInv, Consume, To, host, peers,
       Sessions, Stopped
  <2>6. CASE LearnFails
    BY <2>6, AfterStep DEF Inv, TypeOK, RuleInv, LearnFails, To, At, Raise,
       Stopped, peers, Sessions
  <2>7. CASE Forget
    BY <2>7, AfterStep DEF Inv, TypeOK, RuleInv, Forget, To, At, Stopped, host,
       peers, Sessions
  <2>8. CASE DropRule("dropLearn", "learning")
    <3>1. rules' = rules \/ rules' = [rules EXCEPT ![sess] = IF @ = 0 THEN 0 ELSE @ - 1]
      BY <2>8 DEF DropRule, Unhook
    <3>2. sess' = sess /\ flags' = flags /\ pc \notin {"accept", "exit"}
      BY <2>8 DEF DropRule, To
    <3>3. pc' = After[pc] /\ pc \in {"dropLearn", "dropTunnel", "dropRest"}
      BY <2>8 DEF DropRule, To
    <3>4. \A s \in Sessions : rules'[s] \in Nat /\ rules'[s] <= rules[s]
      BY <3>1 DEF Inv, TypeOK
    <3> QED
      BY <3>2, <3>3, <3>4, AfterStep DEF Inv, TypeOK, RuleInv, Stopped
  <2> QED BY <1>2, <2>1, <2>2, <2>3, <2>4, <2>5, <2>6, <2>7, <2>8 DEF Learn
<1>3. CASE Plane
  <2>1. CASE NfqReady
    BY <2>1, AfterStep DEF Inv, TypeOK, RuleInv, NfqReady, To, At, Stopped,
       host, peers, Sessions
  <2>2. CASE NfqNotReady
    BY <2>2, AfterStep DEF Inv, TypeOK, RuleInv, NfqNotReady, To, At, Raise,
       Stopped, host, peers, Sessions
  <2>3. CASE OpenTun
    BY <2>3, AfterStep DEF Inv, TypeOK, RuleInv, OpenTun, To, At, Stopped,
       peers, Sessions
  <2>4. CASE TunFails
    BY <2>4, AfterStep DEF Inv, TypeOK, RuleInv, TunFails, To, At, Raise,
       Stopped, peers, Sessions
  <2>5. CASE SetUpNat
    BY <2>5, AfterStep DEF Inv, TypeOK, RuleInv, SetUpNat, Plus, To, At,
       Stopped, peers, Sessions
  <2>6. CASE SetUpNatFails
    BY <2>6, AfterStep DEF Inv, TypeOK, RuleInv, SetUpNatFails, Plus,
       CleanupNat, Appended, To, At, Raise, Stopped, peers, Sessions
  <2>7. CASE OpenRaw
    BY <2>7, AfterStep DEF Inv, TypeOK, RuleInv, OpenRaw, To, At, Stopped,
       peers, Sessions
  <2>8. CASE Publish
    BY <2>8, AfterStep DEF Inv, TypeOK, RuleInv, Publish, To, At, Stopped,
       host, peers, Sessions
  <2> QED BY <1>3, <2>1, <2>2, <2>3, <2>4, <2>5, <2>6, <2>7, <2>8 DEF Plane
<1>4. CASE Cleanup
  <2>1. CASE Leave
    BY <2>1, AfterStep DEF Inv, TypeOK, RuleInv, Leave, To, host, peers,
       Sessions, Stopped
  <2>2. CASE ClosePlane
    BY <2>2, AfterStep DEF Inv, TypeOK, RuleInv, ClosePlane, To, host, peers,
       Sessions, Stopped
  <2>3. CASE DropRule("dropTunnel", "tunnel")
    <3>1. rules' = rules \/ rules' = [rules EXCEPT ![sess] = IF @ = 0 THEN 0 ELSE @ - 1]
      BY <2>3 DEF DropRule, Unhook
    <3>2. sess' = sess /\ flags' = flags /\ pc \notin {"accept", "exit"}
      BY <2>3 DEF DropRule, To
    <3>3. pc' = After[pc] /\ pc \in {"dropLearn", "dropTunnel", "dropRest"}
      BY <2>3 DEF DropRule, To
    <3>4. \A s \in Sessions : rules'[s] \in Nat /\ rules'[s] <= rules[s]
      BY <3>1 DEF Inv, TypeOK
    <3> QED
      BY <3>2, <3>3, <3>4, AfterStep DEF Inv, TypeOK, RuleInv, Stopped
  <2>4. CASE DropRule("dropRest", "learning")
    <3>1. rules' = rules \/ rules' = [rules EXCEPT ![sess] = IF @ = 0 THEN 0 ELSE @ - 1]
      BY <2>4 DEF DropRule, Unhook
    <3>2. sess' = sess /\ flags' = flags /\ pc \notin {"accept", "exit"}
      BY <2>4 DEF DropRule, To
    <3>3. pc' = After[pc] /\ pc \in {"dropLearn", "dropTunnel", "dropRest"}
      BY <2>4 DEF DropRule, To
    <3>4. \A s \in Sessions : rules'[s] \in Nat /\ rules'[s] <= rules[s]
      BY <3>1 DEF Inv, TypeOK
    <3> QED
      BY <3>2, <3>3, <3>4, AfterStep DEF Inv, TypeOK, RuleInv, Stopped
  <2>5. CASE Join
    BY <2>5, AfterStep DEF Inv, TypeOK, RuleInv, Join, To, host, peers,
       Sessions, Stopped
  <2>6. CASE DropNat
    BY <2>6, AfterStep DEF Inv, TypeOK, RuleInv, DropNat, CleanupNat, To,
       peers, Sessions, Stopped
  <2>7. CASE Close
    BY <2>7, AfterStep DEF Inv, TypeOK, RuleInv, Close, To, peers, Sessions,
       Stopped
  <2>8. CASE Exit
    BY <2>8, AfterStep DEF Inv, TypeOK, RuleInv, Exit, To, host, peers,
       Sessions, Stopped
  <2> QED BY <1>4, <2>1, <2>2, <2>3, <2>4, <2>5, <2>6, <2>7, <2>8 DEF Cleanup
<1>5. CASE Threads
  BY <1>5, ThreadsKeep DEF Inv, TypeOK, RuleInv, Sessions, Stopped
<1>6. CASE Signal
  BY <1>6 DEF Inv, TypeOK, RuleInv, Signal, host, peers, Sessions, Stopped
<1>7. CASE UNCHANGED vars
  BY <1>7 DEF Inv, TypeOK, RuleInv, vars, Sessions, Stopped
<1> QED BY <1>1, <1>2, <1>3, <1>4, <1>5, <1>6, <1>7 DEF Next

\* What the set-up has established is kept, until main clears data_plane_ready.
LEMMA PlaneStep == Inv /\ [Next]_vars => PlaneInv'
<1> SUFFICES ASSUME Inv, [Next]_vars
             PROVE  PlaneInv'
  OBVIOUS
<1>1. CASE SetUp
  <2>1. CASE Skip
    BY <2>1, AfterStep DEF Inv, TypeOK, RuleInv, PlaneInv, Skip, To, Stopped,
       Gated, host, peers, Sessions, NatRules, WithRule, WithTun
  <2>2. CASE CallFails
    BY <2>2, AfterStep DEF Inv, TypeOK, RuleInv, PlaneInv, CallFails, To,
       Raise, Stopped, host, peers, Sessions, NatRules, WithRule, WithTun
  <2>3. CASE Accept
    BY <2>3, MaxSessionsAssumption DEF Inv, TypeOK, RuleInv, PlaneInv, Accept,
       NoFds, NoThreads, Sessions, NatRules, WithRule, WithTun, Stopped
  <2>4. CASE Handshake
    BY <2>4, AfterStep DEF Inv, TypeOK, RuleInv, PlaneInv, Handshake, To,
       Stopped, host, peers, Sessions, NatRules, WithRule, WithTun
  <2>5. CASE StartUdp
    BY <2>5, AfterStep DEF Inv, TypeOK, RuleInv, PlaneInv, StartUdp,
       StartThread, To, At, Stopped, host, Sessions, NatRules, WithRule,
       WithTun
  <2>6. CASE StartTunnel
    BY <2>6, AfterStep DEF Inv, TypeOK, RuleInv, PlaneInv, StartTunnel,
       StartThread, To, At, Stopped, host, Sessions, NatRules, WithRule,
       WithTun
  <2>7. CASE StartRaw
    BY <2>7, AfterStep DEF Inv, TypeOK, RuleInv, PlaneInv, StartRaw,
       StartThread, To, At, Stopped, host, Sessions, NatRules, WithRule,
       WithTun
  <2>8. CASE InstallRule("hookLearn")
    BY <2>8, AfterStep DEF Inv, TypeOK, RuleInv, PlaneInv, InstallRule, Hook,
       To, At, Stopped, peers, Sessions, NatRules, WithRule, WithTun
  <2>9. CASE InstallRule("hookTunnel")
    BY <2>9, AfterStep DEF Inv, TypeOK, RuleInv, PlaneInv, InstallRule, Hook,
       To, At, Stopped, peers, Sessions, NatRules, WithRule, WithTun
  <2>10. CASE Note("noteLearn", "learning")
    BY <2>10, AfterStep DEF Inv, TypeOK, RuleInv, PlaneInv, Note, To, At,
       Stopped, host, peers, Sessions, NatRules, WithRule, WithTun
  <2>11. CASE Note("noteTunnel", "tunnel")
    BY <2>11, AfterStep DEF Inv, TypeOK, RuleInv, PlaneInv, Note, To, At,
       Stopped, host, peers, Sessions, NatRules, WithRule, WithTun
  <2>12. CASE Note("noteNat", "nat")
    BY <2>12, AfterStep DEF Inv, TypeOK, RuleInv, PlaneInv, Note, To, At,
       Stopped, host, peers, Sessions, NatRules, WithRule, WithTun
  <2> QED BY <1>1, <2>1, <2>2, <2>3, <2>4, <2>5, <2>6, <2>7, <2>8, <2>9,
         <2>10, <2>11, <2>12 DEF SetUp
<1>2. CASE Learn
  <2>1. CASE OpenLearnQueue
    BY <2>1, AfterStep DEF Inv, TypeOK, RuleInv, PlaneInv, OpenLearnQueue, To,
       At, Stopped, peers, Sessions, NatRules, WithRule, WithTun
  <2>2. CASE Capture
    BY <2>2, AfterStep DEF Inv, TypeOK, RuleInv, PlaneInv, Capture, To, host,
       peers, Sessions, NatRules, WithRule, WithTun, Stopped
  <2>3. CASE UnhookLearn
    BY <2>3, AfterStep DEF Inv, TypeOK, RuleInv, PlaneInv, UnhookLearn, Unhook,
       To, peers, Sessions, NatRules, WithRule, WithTun, Stopped
  <2>4. CASE DetachLearn
    BY <2>4, AfterStep DEF Inv, TypeOK, RuleInv, PlaneInv, DetachLearn, To,
       peers, Sessions, NatRules, WithRule, WithTun, Stopped
  <2>5. CASE Consume
    BY <2>5, AfterStep DEF Inv, TypeOK, RuleInv, PlaneInv, Consume, To, host,
       peers, Sessions, NatRules, WithRule, WithTun, Stopped
  <2>6. CASE LearnFails
    BY <2>6, AfterStep DEF Inv, TypeOK, RuleInv, PlaneInv, LearnFails, To, At,
       Raise, Stopped, peers, Sessions, NatRules, WithRule, WithTun
  <2>7. CASE Forget
    BY <2>7, AfterStep DEF Inv, TypeOK, RuleInv, PlaneInv, Forget, To, At,
       Stopped, host, peers, Sessions, NatRules, WithRule, WithTun
  <2>8. CASE DropRule("dropLearn", "learning")
    BY <2>8, AfterStep DEF Inv, TypeOK, RuleInv, PlaneInv, DropRule, Unhook,
       To, peers, Sessions, NatRules, WithRule, WithTun, Stopped
  <2> QED BY <1>2, <2>1, <2>2, <2>3, <2>4, <2>5, <2>6, <2>7, <2>8 DEF Learn
<1>3. CASE Plane
  <2>1. CASE NfqReady
    BY <2>1, AfterStep DEF Inv, TypeOK, RuleInv, PlaneInv, NfqReady, To, At,
       Stopped, host, peers, Sessions, NatRules, WithRule, WithTun
  <2>2. CASE NfqNotReady
    BY <2>2, AfterStep DEF Inv, TypeOK, RuleInv, PlaneInv, NfqNotReady, To, At,
       Raise, Stopped, host, peers, Sessions, NatRules, WithRule, WithTun
  <2>3. CASE OpenTun
    BY <2>3, AfterStep DEF Inv, TypeOK, RuleInv, PlaneInv, OpenTun, To, At,
       Stopped, peers, Sessions, NatRules, WithRule, WithTun
  <2>4. CASE TunFails
    BY <2>4, AfterStep DEF Inv, TypeOK, RuleInv, PlaneInv, TunFails, To, At,
       Raise, Stopped, peers, Sessions, NatRules, WithRule, WithTun
  <2>5. CASE SetUpNat
    BY <2>5, AfterStep DEF Inv, TypeOK, RuleInv, PlaneInv, SetUpNat, Plus, To,
       At, Stopped, peers, Sessions, NatRules, WithRule, WithTun
  <2>6. CASE SetUpNatFails
    BY <2>6, AfterStep DEF Inv, TypeOK, RuleInv, PlaneInv, SetUpNatFails, Plus,
       CleanupNat, Appended, To, At, Raise, Stopped, peers, Sessions, NatRules,
       WithRule, WithTun
  <2>7. CASE OpenRaw
    BY <2>7, AfterStep DEF Inv, TypeOK, RuleInv, PlaneInv, OpenRaw, To, At,
       Stopped, peers, Sessions, NatRules, WithRule, WithTun
  <2>8. CASE Publish
    BY <2>8, AfterStep DEF Inv, TypeOK, RuleInv, PlaneInv, Publish, To, At,
       Stopped, host, peers, Sessions, NatRules, WithRule, WithTun
  <2> QED BY <1>3, <2>1, <2>2, <2>3, <2>4, <2>5, <2>6, <2>7, <2>8 DEF Plane
<1>4. CASE Cleanup
  <2>1. CASE Leave
    BY <2>1, AfterStep DEF Inv, TypeOK, RuleInv, PlaneInv, Leave, To, host,
       peers, Sessions, NatRules, WithRule, WithTun, Stopped
  <2>2. CASE ClosePlane
    BY <2>2, AfterStep DEF Inv, TypeOK, RuleInv, PlaneInv, ClosePlane, To,
       host, peers, Sessions, NatRules, WithRule, WithTun, Stopped
  <2>3. CASE DropRule("dropTunnel", "tunnel")
    BY <2>3, AfterStep DEF Inv, TypeOK, RuleInv, PlaneInv, DropRule, Unhook,
       To, peers, Sessions, NatRules, WithRule, WithTun, Stopped
  <2>4. CASE DropRule("dropRest", "learning")
    BY <2>4, AfterStep DEF Inv, TypeOK, RuleInv, PlaneInv, DropRule, Unhook,
       To, peers, Sessions, NatRules, WithRule, WithTun, Stopped
  <2>5. CASE Join
    BY <2>5, AfterStep DEF Inv, TypeOK, RuleInv, PlaneInv, Join, To, host,
       peers, Sessions, NatRules, WithRule, WithTun, Stopped
  <2>6. CASE DropNat
    BY <2>6, AfterStep DEF Inv, TypeOK, RuleInv, PlaneInv, DropNat, CleanupNat,
       To, peers, Sessions, NatRules, WithRule, WithTun, Stopped
  <2>7. CASE Close
    BY <2>7, AfterStep DEF Inv, TypeOK, RuleInv, PlaneInv, Close, To, peers,
       Sessions, NatRules, WithRule, WithTun, Stopped
  <2>8. CASE Exit
    BY <2>8, AfterStep DEF Inv, TypeOK, RuleInv, PlaneInv, Exit, To, host,
       peers, Sessions, NatRules, WithRule, WithTun, Stopped
  <2> QED BY <1>4, <2>1, <2>2, <2>3, <2>4, <2>5, <2>6, <2>7, <2>8 DEF Cleanup
<1>5. CASE Threads
  <2>1. UNCHANGED <<pc, sess, rules, nat, plane, fd>>
    BY <1>5, ThreadsKeep DEF Inv
  <2>2. (~Stopped' => ~Stopped) /\ (thread["raw"] # "off" => thread'["raw"] # "off")
    BY <1>5, ThreadsKeep DEF Inv, Stopped
  <2> QED BY <2>1, <2>2 DEF Inv, PlaneInv
<1>6. CASE Signal
  BY <1>6 DEF Inv, TypeOK, RuleInv, PlaneInv, Signal, host, peers, Sessions,
     NatRules, WithRule, WithTun, Stopped
<1>7. CASE UNCHANGED vars
  BY <1>7 DEF Inv, TypeOK, RuleInv, PlaneInv, vars, Sessions, NatRules,
     WithRule, WithTun, Stopped
<1> QED BY <1>1, <1>2, <1>3, <1>4, <1>5, <1>6, <1>7 DEF Next

\* Who may be using what is kept.
LEMMA UseStep == Inv /\ [Next]_vars => UseInv'
<1> SUFFICES ASSUME Inv, [Next]_vars
             PROVE  UseInv'
  OBVIOUS
<1>1. CASE SetUp
  <2>1. CASE Skip
    BY <2>1, AfterStep DEF Inv, TypeOK, UseInv, Skip, To, Stopped, Gated, host,
       peers, Before, UntilJoin
  <2>2. CASE CallFails
    BY <2>2, AfterStep DEF Inv, TypeOK, UseInv, CallFails, To, Raise, Stopped,
       host, peers, Before, UntilJoin
  <2>3. CASE Accept
    BY <2>3, MaxSessionsAssumption DEF Inv, TypeOK, UseInv, Accept, NoFds,
       NoThreads, Before, UntilJoin
  <2>4. CASE Handshake
    BY <2>4, AfterStep DEF Inv, TypeOK, UseInv, Handshake, To, Stopped, host,
       peers, Before, UntilJoin
  <2>5. CASE StartUdp
    BY <2>5, AfterStep DEF Inv, TypeOK, UseInv, StartUdp, StartThread, To, At,
       Stopped, host, Before, UntilJoin
  <2>6. CASE StartTunnel
    BY <2>6, AfterStep DEF Inv, TypeOK, UseInv, StartTunnel, StartThread, To,
       At, Stopped, host, Before, UntilJoin
  <2>7. CASE StartRaw
    BY <2>7, AfterStep DEF Inv, TypeOK, UseInv, StartRaw, StartThread, To, At,
       Stopped, host, Before, UntilJoin, PlaneInv, WithTun
  <2>8. CASE InstallRule("hookLearn")
    BY <2>8, AfterStep DEF Inv, TypeOK, UseInv, InstallRule, Hook, To, At,
       Stopped, peers, Before, UntilJoin
  <2>9. CASE InstallRule("hookTunnel")
    BY <2>9, AfterStep DEF Inv, TypeOK, UseInv, InstallRule, Hook, To, At,
       Stopped, peers, Before, UntilJoin
  <2>10. CASE Note("noteLearn", "learning")
    BY <2>10, AfterStep DEF Inv, TypeOK, UseInv, Note, To, At, Stopped, host,
       peers, Before, UntilJoin
  <2>11. CASE Note("noteTunnel", "tunnel")
    BY <2>11, AfterStep DEF Inv, TypeOK, UseInv, Note, To, At, Stopped, host,
       peers, Before, UntilJoin
  <2>12. CASE Note("noteNat", "nat")
    BY <2>12, AfterStep DEF Inv, TypeOK, UseInv, Note, To, At, Stopped, host,
       peers, Before, UntilJoin
  <2> QED BY <1>1, <2>1, <2>2, <2>3, <2>4, <2>5, <2>6, <2>7, <2>8, <2>9,
         <2>10, <2>11, <2>12 DEF SetUp
<1>2. CASE Learn
  <2>1. CASE OpenLearnQueue
    BY <2>1, AfterStep DEF Inv, TypeOK, UseInv, OpenLearnQueue, To, At,
       Stopped, peers, Before, UntilJoin
  <2>2. CASE Capture
    BY <2>2, AfterStep DEF Inv, TypeOK, UseInv, Capture, To, host, peers,
       Before, UntilJoin
  <2>3. CASE UnhookLearn
    BY <2>3, AfterStep DEF Inv, TypeOK, UseInv, UnhookLearn, Unhook, To, peers,
       Before, UntilJoin
  <2>4. CASE DetachLearn
    BY <2>4, AfterStep DEF Inv, TypeOK, UseInv, DetachLearn, To, peers, Before,
       UntilJoin
  <2>5. CASE Consume
    BY <2>5, AfterStep DEF Inv, TypeOK, UseInv, Consume, To, host, peers,
       Before, UntilJoin
  <2>6. CASE LearnFails
    BY <2>6, AfterStep DEF Inv, TypeOK, UseInv, LearnFails, To, At, Raise,
       Stopped, peers, Before, UntilJoin
  <2>7. CASE Forget
    BY <2>7, AfterStep DEF Inv, TypeOK, UseInv, Forget, To, At, Stopped, host,
       peers, Before, UntilJoin
  <2>8. CASE DropRule("dropLearn", "learning")
    BY <2>8, AfterStep DEF Inv, TypeOK, UseInv, DropRule, Unhook, To, peers,
       Before, UntilJoin
  <2> QED BY <1>2, <2>1, <2>2, <2>3, <2>4, <2>5, <2>6, <2>7, <2>8 DEF Learn
<1>3. CASE Plane
  <2>1. CASE NfqReady
    BY <2>1, AfterStep DEF Inv, TypeOK, UseInv, NfqReady, To, At, Stopped,
       host, peers, Before, UntilJoin
  <2>2. CASE NfqNotReady
    BY <2>2, AfterStep DEF Inv, TypeOK, UseInv, NfqNotReady, To, At, Raise,
       Stopped, host, peers, Before, UntilJoin
  <2>3. CASE OpenTun
    BY <2>3, AfterStep DEF Inv, TypeOK, UseInv, OpenTun, To, At, Stopped,
       peers, Before, UntilJoin
  <2>4. CASE TunFails
    BY <2>4, AfterStep DEF Inv, TypeOK, UseInv, TunFails, To, At, Raise,
       Stopped, peers, Before, UntilJoin
  <2>5. CASE SetUpNat
    BY <2>5, AfterStep DEF Inv, TypeOK, UseInv, SetUpNat, Plus, To, At,
       Stopped, peers, Before, UntilJoin
  <2>6. CASE SetUpNatFails
    BY <2>6, AfterStep DEF Inv, TypeOK, UseInv, SetUpNatFails, Plus,
       CleanupNat, Appended, To, At, Raise, Stopped, peers, Before, UntilJoin
  <2>7. CASE OpenRaw
    BY <2>7, AfterStep DEF Inv, TypeOK, UseInv, OpenRaw, To, At, Stopped,
       peers, Before, UntilJoin
  <2>8. CASE Publish
    BY <2>8, AfterStep DEF Inv, TypeOK, UseInv, Publish, To, At, Stopped, host,
       peers, Before, UntilJoin
  <2> QED BY <1>3, <2>1, <2>2, <2>3, <2>4, <2>5, <2>6, <2>7, <2>8 DEF Plane
<1>4. CASE Cleanup
  <2>1. CASE Leave
    BY <2>1, AfterStep DEF Inv, TypeOK, UseInv, Leave, To, host, peers, Before,
       UntilJoin
  <2>2. CASE ClosePlane
    BY <2>2, AfterStep DEF Inv, TypeOK, UseInv, ClosePlane, To, host, peers,
       Before, UntilJoin
  <2>3. CASE DropRule("dropTunnel", "tunnel")
    BY <2>3, AfterStep DEF Inv, TypeOK, UseInv, DropRule, Unhook, To, peers,
       Before, UntilJoin
  <2>4. CASE DropRule("dropRest", "learning")
    BY <2>4, AfterStep DEF Inv, TypeOK, UseInv, DropRule, Unhook, To, peers,
       Before, UntilJoin
  <2>5. CASE Join
    BY <2>5, AfterStep DEF Inv, TypeOK, UseInv, Join, To, host, peers, Before,
       UntilJoin
  <2>6. CASE DropNat
    BY <2>6, AfterStep DEF Inv, TypeOK, UseInv, DropNat, CleanupNat, To, peers,
       Before, UntilJoin
  <2>7. CASE Close
    BY <2>7, AfterStep DEF Inv, TypeOK, UseInv, Close, To, peers, Before,
       UntilJoin
  <2>8. CASE Exit
    BY <2>8, AfterStep DEF Inv, TypeOK, UseInv, Exit, To, host, peers, Before,
       UntilJoin
  <2> QED BY <1>4, <2>1, <2>2, <2>3, <2>4, <2>5, <2>6, <2>7, <2>8 DEF Cleanup
<1>5. CASE Threads
  <2>1. CASE UdpStops
    BY <2>1 DEF Inv, TypeOK, UseInv, UdpStops, Elsewhere, Before, UntilJoin
  <2>2. CASE UdpEnds
    BY <2>2 DEF Inv, TypeOK, UseInv, UdpEnds, Elsewhere, Before, UntilJoin
  <2>3. CASE TunnelOpens
    BY <2>3 DEF Inv, TypeOK, UseInv, TunnelOpens, Elsewhere, Before, UntilJoin
  <2>4. CASE TunnelFails
    BY <2>4 DEF Inv, TypeOK, UseInv, TunnelFails, Elsewhere, Raise, Before,
       UntilJoin
  <2>5. CASE TakePacket
    BY <2>5 DEF Inv, TypeOK, UseInv, TakePacket, Elsewhere, Before, UntilJoin,
       PlaneInv, WithTun
  <2>6. CASE WriteTun
    BY <2>6 DEF Inv, TypeOK, UseInv, WriteTun, Elsewhere, Before, UntilJoin
  <2>7. CASE TunnelBreaks
    BY <2>7 DEF Inv, TypeOK, UseInv, TunnelBreaks, Elsewhere, Raise, Before,
       UntilJoin
  <2>8. CASE TunnelEnds
    BY <2>8 DEF Inv, TypeOK, UseInv, TunnelEnds, Elsewhere, Before, UntilJoin
  <2>9. CASE RawFails
    BY <2>9 DEF Inv, TypeOK, UseInv, RawFails, Elsewhere, Raise, Before,
       UntilJoin
  <2>10. CASE RawEnds
    BY <2>10 DEF Inv, TypeOK, UseInv, RawEnds, Elsewhere, Stopped, Before,
       UntilJoin
  <2> QED BY <1>5, <2>1, <2>2, <2>3, <2>4, <2>5, <2>6, <2>7, <2>8, <2>9,
         <2>10 DEF Threads
<1>6. CASE Signal
  BY <1>6 DEF Inv, TypeOK, UseInv, Signal, host, peers, Before, UntilJoin
<1>7. CASE UNCHANGED vars
  BY <1>7 DEF Inv, TypeOK, UseInv, vars, Before, UntilJoin
<1> QED BY <1>1, <1>2, <1>3, <1>4, <1>5, <1>6, <1>7 DEF Next

\* The invariant holds of every reachable state.
THEOREM InvAlways == Spec => []Inv
<1>1. Init => Inv
  <2> SUFFICES ASSUME Init
               PROVE  Inv
    OBVIOUS
  <2>1. TypeOK
    <3>1. pc \in Pcs /\ sess \in 0 .. MaxSessions
      BY MaxSessionsAssumption, PcsAre DEF Init
    <3>2. fd \in [{"tun", "raw"} -> {"none", "open", "closed"}]
      BY DEF Init, NoFds
    <3>3. thread \in [{"udp", "tunnel", "raw"} -> {"off", "starting", "run", "over"}]
      BY DEF Init, NoThreads
    <3> QED BY <3>1, <3>2, <3>3 DEF Init, TypeOK
  <2>2. RuleInv
    BY DEF Init, RuleInv
  <2>3. PlaneInv
    BY DEF Init, PlaneInv, WithRule, WithTun
  <2>4. UseInv
    BY DEF Init, UseInv, NoFds, NoThreads, Before
  <2> QED BY <2>1, <2>2, <2>3, <2>4 DEF Inv
<1>2. Inv /\ [Next]_vars => Inv'
  BY TypeStep, RuleStep, PlaneStep, UseStep DEF Inv
<1> QED BY <1>1, <1>2, PTL DEF Spec

\* Every variable keeps its type; no deletion makes a count of rules negative.
THEOREM TypeCorrect == Spec => []TypeOK
<1>1. Inv => TypeOK
  BY DEF Inv
<1> QED BY <1>1, InvAlways, PTL

\* A connection never has two NFQUEUE rules, although two steps install one
\* and three delete one.
THEOREM NoSecondRule == Spec => []OneRule
<1>1. Inv => OneRule
  BY DEF Inv, RuleInv, OneRule
<1> QED BY <1>1, InvAlways, PTL

\* While data_plane_ready is up, everything a packet needs is in place.
THEOREM PlaneIsComplete == Spec => []PlaneComplete
<1>1. Inv => PlaneComplete
  BY DEF Inv, TypeOK, PlaneInv, PlaneComplete
<1> QED BY <1>1, InvAlways, PTL

\* No thread uses a descriptor that is not open.
THEOREM DescriptorsStayOpen == Spec => []DescriptorsOpen
<1>1. Inv => DescriptorsOpen
  BY DEF Inv, TypeOK, UseInv, DescriptorsOpen
<1> QED BY <1>1, InvAlways, PTL

\* Between two sessions nothing of the first runs or is open.
THEOREM NothingRunsBetween == Spec => []NothingRuns
<1>1. Inv => NothingRuns
  BY DEF Inv, TypeOK, PlaneInv, UseInv, NothingRuns, Over, UntilJoin
<1> QED BY <1>1, InvAlways, PTL
-----------------------------------------------------------------------------
(***************************************************************************)
(* What a session leaves of its rules.  As long as no note was missed, a   *)
(* rule that the session did not find is noted, or main stands between the *)
(* command and the note with stop down.                                    *)
(***************************************************************************)
NoteInv ==
  /\ pc \in {"dropRest", "join", "dropNat", "close"} => "tunnel" \notin noted
  /\ pc \in {"join", "dropNat", "close"} => "learning" \notin noted
  /\ pc = "close" => "nat" \notin noted
  /\ pc \in Before \cup {"waitNfq", "ready", "tun", "nat", "noteNat"} => "nat" \notin noted

LeftInv ==
  /\ pc \notin {"accept", "exit"} =>
       \A s \in Sessions : s # sess => rules[s] = met.rules[s]
  /\ pc \notin {"accept", "exit"} /\ ~missed =>
       \/ rules[sess] = 0
       \/ "learning" \in noted
       \/ "tunnel" \in noted
       \/ pc \in {"noteLearn", "noteTunnel"} /\ ~Stopped
  /\ pc \notin {"accept", "exit"} /\ ~missed =>
       \A r \in NatRules :
         \/ nat[r] <= met.nat[r]
         \/ /\ nat[r] <= met.nat[r] + 1
            /\ "nat" \in noted \/ (pc = "noteNat" /\ ~Stopped)

MetOK == /\ met \in [rules : [Sessions -> Nat], nat : [NatRules -> Nat]]
         /\ missed \in BOOLEAN

HInv == Inv /\ NoteInv /\ LeftInv /\ MetOK

\* What main has noted where it stands is kept.
LEMMA NoteStep == Inv /\ NoteInv /\ [Next]_vars => NoteInv'
<1> SUFFICES ASSUME Inv, NoteInv, [Next]_vars
             PROVE  NoteInv'
  OBVIOUS
<1>1. CASE SetUp
  <2>1. CASE Skip
    BY <2>1, AfterStep DEF NoteInv, Before, Stopped, At, Skip, To, Gated,
       host, peers
  <2>2. CASE CallFails
    BY <2>2, AfterStep DEF NoteInv, Before, Stopped, At, CallFails, To,
       Raise, host, peers
  <2>3. CASE Accept
    BY <2>3, AfterStep DEF NoteInv, Before, Stopped, At, Accept, NoFds,
       NoThreads
  <2>4. CASE Handshake
    BY <2>4, AfterStep DEF NoteInv, Before, Stopped, At, Handshake, To, host,
       peers
  <2>5. CASE StartUdp
    BY <2>5, AfterStep DEF NoteInv, Before, Stopped, At, StartUdp,
       StartThread, To, host
  <2>6. CASE StartTunnel
    BY <2>6, AfterStep DEF NoteInv, Before, Stopped, At, StartTunnel,
       StartThread, To, host
  <2>7. CASE StartRaw
    BY <2>7, AfterStep DEF NoteInv, Before, Stopped, At, StartRaw,
       StartThread, To, host
  <2>8. CASE InstallRule("hookLearn")
    BY <2>8, AfterStep DEF NoteInv, Before, Stopped, At, InstallRule, Hook,
       To, peers
  <2>9. CASE InstallRule("hookTunnel")
    BY <2>9, AfterStep DEF NoteInv, Before, Stopped, At, InstallRule, Hook,
       To, peers
  <2>10. CASE Note("noteLearn", "learning")
    BY <2>10, AfterStep DEF NoteInv, Before, Stopped, At, Note, To, host,
       peers
  <2>11. CASE Note("noteTunnel", "tunnel")
    BY <2>11, AfterStep DEF NoteInv, Before, Stopped, At, Note, To, host,
       peers
  <2>12. CASE Note("noteNat", "nat")
    BY <2>12, AfterStep DEF NoteInv, Before, Stopped, At, Note, To, host,
       peers
  <2> QED BY <1>1, <2>1, <2>2, <2>3, <2>4, <2>5, <2>6, <2>7, <2>8, <2>9,
     <2>10, <2>11, <2>12 DEF SetUp
<1>2. CASE Learn
  <2>1. CASE OpenLearnQueue
    BY <2>1, AfterStep DEF NoteInv, Before, Stopped, At, OpenLearnQueue, To,
       peers
  <2>2. CASE Capture
    BY <2>2, AfterStep DEF NoteInv, Before, Stopped, At, Capture, To, host,
       peers
  <2>3. CASE UnhookLearn
    BY <2>3, AfterStep DEF NoteInv, Before, Stopped, At, UnhookLearn, Unhook,
       To, peers
  <2>4. CASE DetachLearn
    BY <2>4, AfterStep DEF NoteInv, Before, Stopped, At, DetachLearn, To,
       peers
  <2>5. CASE Consume
    BY <2>5, AfterStep DEF NoteInv, Before, Stopped, At, Consume, To, host,
       peers
  <2>6. CASE LearnFails
    BY <2>6, AfterStep DEF NoteInv, Before, Stopped, At, LearnFails, To,
       Raise, peers
  <2>7. CASE Forget
    BY <2>7, AfterStep DEF NoteInv, Before, Stopped, At, Forget, To, host,
       peers
  <2>8. CASE DropRule("dropLearn", "learning")
    BY <2>8, AfterStep DEF NoteInv, Before, Stopped, At, DropRule, Unhook,
       To, peers
  <2> QED BY <1>2, <2>1, <2>2, <2>3, <2>4, <2>5, <2>6, <2>7, <2>8 DEF Learn
<1>3. CASE Plane
  <2>1. CASE NfqReady
    BY <2>1, AfterStep DEF NoteInv, Before, Stopped, At, NfqReady, To, host,
       peers
  <2>2. CASE NfqNotReady
    BY <2>2, AfterStep DEF NoteInv, Before, Stopped, At, NfqNotReady, To,
       Raise, host, peers
  <2>3. CASE OpenTun
    BY <2>3, AfterStep DEF NoteInv, Before, Stopped, At, OpenTun, To, peers
  <2>4. CASE TunFails
    BY <2>4, AfterStep DEF NoteInv, Before, Stopped, At, TunFails, To, Raise,
       peers
  <2>5. CASE SetUpNat
    BY <2>5, AfterStep DEF NoteInv, Before, Stopped, At, SetUpNat, Plus, To,
       peers
  <2>6. CASE SetUpNatFails
    BY <2>6, AfterStep DEF NoteInv, Before, Stopped, At, SetUpNatFails, Plus,
       CleanupNat, Appended, To, Raise, peers
  <2>7. CASE OpenRaw
    BY <2>7, AfterStep DEF NoteInv, Before, Stopped, At, OpenRaw, To, peers
  <2>8. CASE Publish
    BY <2>8, AfterStep DEF NoteInv, Before, Stopped, At, Publish, To, host,
       peers
  <2> QED BY <1>3, <2>1, <2>2, <2>3, <2>4, <2>5, <2>6, <2>7, <2>8 DEF Plane
<1>4. CASE Cleanup
  <2>1. CASE Leave
    BY <2>1, AfterStep DEF NoteInv, Before, Stopped, At, Leave, To, host,
       peers
  <2>2. CASE ClosePlane
    BY <2>2, AfterStep DEF NoteInv, Before, Stopped, At, ClosePlane, To,
       host, peers
  <2>3. CASE DropRule("dropTunnel", "tunnel")
    BY <2>3, AfterStep DEF NoteInv, Before, Stopped, At, DropRule, Unhook,
       To, peers
  <2>4. CASE DropRule("dropRest", "learning")
    BY <2>4, AfterStep DEF NoteInv, Before, Stopped, At, DropRule, Unhook,
       To, peers
  <2>5. CASE Join
    BY <2>5, AfterStep DEF NoteInv, Before, Stopped, At, Join, To, host,
       peers
  <2>6. CASE DropNat
    BY <2>6, AfterStep DEF NoteInv, Before, Stopped, At, DropNat, CleanupNat,
       To, peers
  <2>7. CASE Close
    BY <2>7, AfterStep DEF NoteInv, Before, Stopped, At, Close, To, peers
  <2>8. CASE Exit
    BY <2>8, AfterStep DEF NoteInv, Before, Stopped, At, Exit, To, host,
       peers
  <2> QED BY <1>4, <2>1, <2>2, <2>3, <2>4, <2>5, <2>6, <2>7, <2>8 DEF Cleanup
<1>5. CASE Threads
  BY <1>5, ThreadsKeep DEF Inv, NoteInv
<1>6. CASE Signal
  BY <1>6, AfterStep DEF NoteInv, Before, Stopped, At, Signal, host, peers
<1>7. CASE UNCHANGED vars
  BY <1>7, AfterStep DEF NoteInv, Before, Stopped, At, vars
<1> QED
  BY <1>1, <1>2, <1>3, <1>4, <1>5, <1>6, <1>7 DEF Next

\* What a step does to the two history variables.
LEMMA NextAndNote ==
  ASSUME MetOK, [HNext]_hvars
  PROVE  /\ [Next]_vars
         /\ sess' = sess => met' = met
         /\ sess' # sess => met' = Installed /\ ~missed'
         /\ sess' = sess => (missed' <=> missed \/ (pc \in Notes /\ ~Stopped /\ Stopped'))
         /\ missed' \in BOOLEAN
<1>1. CASE HNext
  BY <1>1 DEF HNext, MetOK
<1>2. CASE UNCHANGED hvars
  <2>1. UNCHANGED vars /\ met' = met /\ missed' = missed /\ sess' = sess /\ flags' = flags
    BY <1>2 DEF hvars, vars
  <2> QED
    BY <2>1 DEF MetOK, Stopped
<1> QED BY <1>1, <1>2

\* What the session has left is kept.
LEMMA LeftStep == HInv /\ [HNext]_hvars => LeftInv'
<1> SUFFICES ASSUME HInv, [HNext]_hvars
             PROVE  LeftInv'
  OBVIOUS
<1>0. /\ [Next]_vars
      /\ sess' = sess => met' = met
      /\ sess' # sess => met' = Installed /\ ~missed'
      /\ sess' = sess /\ ~missed' => ~missed /\ ~(pc \in Notes /\ ~Stopped /\ Stopped')
  BY NextAndNote DEF HInv
<1>1. CASE SetUp
  <2>1. CASE Skip
    BY <2>1, <1>0, AfterStep DEF HInv, Inv, TypeOK, RuleInv, NoteInv,
       LeftInv, MetOK, Notes, Before, Stopped, At, Sessions, Skip, To, Gated,
       host, peers
  <2>2. CASE CallFails
    BY <2>2, <1>0, AfterStep DEF HInv, Inv, TypeOK, RuleInv, NoteInv,
       LeftInv, MetOK, Notes, Before, Stopped, At, Sessions, CallFails, To,
       Raise, host, peers
  <2>3. CASE Accept
    <3>1. /\ sess' # sess /\ sess' \in Sessions /\ rules' = rules /\ nat' = nat
          /\ pc' = "register" /\ met' = Installed
      BY <2>3, <1>0, MaxSessionsAssumption DEF HInv, Inv, TypeOK, Accept, Sessions
    <3>2. rules[sess'] = 0
      <4>1. sess' > sess
        BY <2>3 DEF HInv, Inv, TypeOK, Accept
      <4> QED BY <3>1, <4>1 DEF HInv, Inv, RuleInv
    <3> QED
      BY <1>0, <3>1, <3>2 DEF HInv, Inv, TypeOK, LeftInv, Installed
  <2>4. CASE Handshake
    BY <2>4, <1>0, AfterStep DEF HInv, Inv, TypeOK, RuleInv, NoteInv,
       LeftInv, MetOK, Notes, Before, Stopped, At, Sessions, Handshake, To,
       host, peers
  <2>5. CASE StartUdp
    BY <2>5, <1>0, AfterStep DEF HInv, Inv, TypeOK, RuleInv, NoteInv,
       LeftInv, MetOK, Notes, Before, Stopped, At, Sessions, StartUdp,
       StartThread, To, host
  <2>6. CASE StartTunnel
    BY <2>6, <1>0, AfterStep DEF HInv, Inv, TypeOK, RuleInv, NoteInv,
       LeftInv, MetOK, Notes, Before, Stopped, At, Sessions, StartTunnel,
       StartThread, To, host
  <2>7. CASE StartRaw
    BY <2>7, <1>0, AfterStep DEF HInv, Inv, TypeOK, RuleInv, NoteInv,
       LeftInv, MetOK, Notes, Before, Stopped, At, Sessions, StartRaw,
       StartThread, To, host
  <2>8. CASE InstallRule("hookLearn")
    BY <2>8, <1>0, AfterStep DEF HInv, Inv, TypeOK, RuleInv, NoteInv,
       LeftInv, MetOK, Notes, Before, Stopped, At, Sessions, InstallRule,
       Hook, To, peers
  <2>9. CASE InstallRule("hookTunnel")
    BY <2>9, <1>0, AfterStep DEF HInv, Inv, TypeOK, RuleInv, NoteInv,
       LeftInv, MetOK, Notes, Before, Stopped, At, Sessions, InstallRule,
       Hook, To, peers
  <2>10. CASE Note("noteLearn", "learning")
    BY <2>10, <1>0, AfterStep DEF HInv, Inv, TypeOK, RuleInv, NoteInv,
       LeftInv, MetOK, Notes, Before, Stopped, At, Sessions, Note, To, host,
       peers
  <2>11. CASE Note("noteTunnel", "tunnel")
    BY <2>11, <1>0, AfterStep DEF HInv, Inv, TypeOK, RuleInv, NoteInv,
       LeftInv, MetOK, Notes, Before, Stopped, At, Sessions, Note, To, host,
       peers
  <2>12. CASE Note("noteNat", "nat")
    BY <2>12, <1>0, AfterStep DEF HInv, Inv, TypeOK, RuleInv, NoteInv,
       LeftInv, MetOK, Notes, Before, Stopped, At, Sessions, Note, To, host,
       peers
  <2> QED BY <1>1, <2>1, <2>2, <2>3, <2>4, <2>5, <2>6, <2>7, <2>8, <2>9,
     <2>10, <2>11, <2>12 DEF SetUp
<1>2. CASE Learn
  <2>1. CASE OpenLearnQueue
    BY <2>1, <1>0, AfterStep DEF HInv, Inv, TypeOK, RuleInv, NoteInv,
       LeftInv, MetOK, Notes, Before, Stopped, At, Sessions, OpenLearnQueue,
       To, peers
  <2>2. CASE Capture
    BY <2>2, <1>0, AfterStep DEF HInv, Inv, TypeOK, RuleInv, NoteInv,
       LeftInv, MetOK, Notes, Before, Stopped, At, Sessions, Capture, To,
       host, peers
  <2>3. CASE UnhookLearn
    BY <2>3, <1>0, AfterStep DEF HInv, Inv, TypeOK, RuleInv, NoteInv,
       LeftInv, MetOK, Notes, Before, Stopped, At, Sessions, UnhookLearn,
       Unhook, To, peers
  <2>4. CASE DetachLearn
    BY <2>4, <1>0, AfterStep DEF HInv, Inv, TypeOK, RuleInv, NoteInv,
       LeftInv, MetOK, Notes, Before, Stopped, At, Sessions, DetachLearn, To,
       peers
  <2>5. CASE Consume
    BY <2>5, <1>0, AfterStep DEF HInv, Inv, TypeOK, RuleInv, NoteInv,
       LeftInv, MetOK, Notes, Before, Stopped, At, Sessions, Consume, To,
       host, peers
  <2>6. CASE LearnFails
    BY <2>6, <1>0, AfterStep DEF HInv, Inv, TypeOK, RuleInv, NoteInv,
       LeftInv, MetOK, Notes, Before, Stopped, At, Sessions, LearnFails, To,
       Raise, peers
  <2>7. CASE Forget
    BY <2>7, <1>0, AfterStep DEF HInv, Inv, TypeOK, RuleInv, NoteInv,
       LeftInv, MetOK, Notes, Before, Stopped, At, Sessions, Forget, To,
       host, peers
  <2>8. CASE DropRule("dropLearn", "learning")
    <3>1. /\ sess \in Sessions /\ rules[sess] <= 1 /\ rules \in [Sessions -> Nat]
          /\ pc \notin Notes /\ pc \notin {"accept", "exit"}
      BY <2>8 DEF HInv, Inv, RuleInv, TypeOK, DropRule, Notes
    <3>2. "learning" \in noted => rules'[sess] = 0
      BY <2>8, <3>1 DEF DropRule, Unhook
    <3>3. "learning" \notin noted => rules' = rules
      BY <2>8 DEF DropRule
    <3>4. \A s \in Sessions : s # sess => rules'[s] = rules[s]
      BY <2>8, <3>1 DEF DropRule, Unhook
    <3>5. /\ noted' = noted \ {"learning"} /\ nat' = nat /\ sess' = sess /\ met' = met
          /\ flags' = flags
      BY <2>8, <1>0 DEF DropRule, To
    <3>6. ~missed' => ~missed
      BY <1>0, <3>5
    <3>7. pc' \notin {"accept", "exit", "noteNat"}
      BY <2>8, AfterStep DEF DropRule, To
    <3> QED
      BY <3>1, <3>2, <3>3, <3>4, <3>5, <3>6, <3>7 DEF HInv, LeftInv, Notes
  <2> QED BY <1>2, <2>1, <2>2, <2>3, <2>4, <2>5, <2>6, <2>7, <2>8 DEF Learn
<1>3. CASE Plane
  <2>1. CASE NfqReady
    BY <2>1, <1>0, AfterStep DEF HInv, Inv, TypeOK, RuleInv, NoteInv,
       LeftInv, MetOK, Notes, Before, Stopped, At, Sessions, NfqReady, To,
       host, peers
  <2>2. CASE NfqNotReady
    BY <2>2, <1>0, AfterStep DEF HInv, Inv, TypeOK, RuleInv, NoteInv,
       LeftInv, MetOK, Notes, Before, Stopped, At, Sessions, NfqNotReady, To,
       Raise, host, peers
  <2>3. CASE OpenTun
    BY <2>3, <1>0, AfterStep DEF HInv, Inv, TypeOK, RuleInv, NoteInv,
       LeftInv, MetOK, Notes, Before, Stopped, At, Sessions, OpenTun, To,
       peers
  <2>4. CASE TunFails
    BY <2>4, <1>0, AfterStep DEF HInv, Inv, TypeOK, RuleInv, NoteInv,
       LeftInv, MetOK, Notes, Before, Stopped, At, Sessions, TunFails, To,
       Raise, peers
  <2>5. CASE SetUpNat
    BY <2>5, <1>0, AfterStep DEF HInv, Inv, TypeOK, RuleInv, NoteInv,
       LeftInv, MetOK, Notes, Before, Stopped, At, Sessions, SetUpNat, Plus,
       To, peers
  <2>6. CASE SetUpNatFails
    BY <2>6, <1>0, AfterStep DEF HInv, Inv, TypeOK, RuleInv, NoteInv,
       LeftInv, MetOK, Notes, Before, Stopped, At, Sessions, SetUpNatFails,
       Plus, CleanupNat, Appended, To, Raise, peers
  <2>7. CASE OpenRaw
    BY <2>7, <1>0, AfterStep DEF HInv, Inv, TypeOK, RuleInv, NoteInv,
       LeftInv, MetOK, Notes, Before, Stopped, At, Sessions, OpenRaw, To,
       peers
  <2>8. CASE Publish
    BY <2>8, <1>0, AfterStep DEF HInv, Inv, TypeOK, RuleInv, NoteInv,
       LeftInv, MetOK, Notes, Before, Stopped, At, Sessions, Publish, To,
       host, peers
  <2> QED BY <1>3, <2>1, <2>2, <2>3, <2>4, <2>5, <2>6, <2>7, <2>8 DEF Plane
<1>4. CASE Cleanup
  <2>1. CASE Leave
    BY <2>1, <1>0, AfterStep DEF HInv, Inv, TypeOK, RuleInv, NoteInv,
       LeftInv, MetOK, Notes, Before, Stopped, At, Sessions, Leave, To, host,
       peers
  <2>2. CASE ClosePlane
    BY <2>2, <1>0, AfterStep DEF HInv, Inv, TypeOK, RuleInv, NoteInv,
       LeftInv, MetOK, Notes, Before, Stopped, At, Sessions, ClosePlane, To,
       host, peers
  <2>3. CASE DropRule("dropTunnel", "tunnel")
    <3>1. /\ sess \in Sessions /\ rules[sess] <= 1 /\ rules \in [Sessions -> Nat]
          /\ pc \notin Notes /\ pc \notin {"accept", "exit"}
      BY <2>3 DEF HInv, Inv, RuleInv, TypeOK, DropRule, Notes
    <3>2. "tunnel" \in noted => rules'[sess] = 0
      BY <2>3, <3>1 DEF DropRule, Unhook
    <3>3. "tunnel" \notin noted => rules' = rules
      BY <2>3 DEF DropRule
    <3>4. \A s \in Sessions : s # sess => rules'[s] = rules[s]
      BY <2>3, <3>1 DEF DropRule, Unhook
    <3>5. /\ noted' = noted \ {"tunnel"} /\ nat' = nat /\ sess' = sess /\ met' = met
          /\ flags' = flags
      BY <2>3, <1>0 DEF DropRule, To
    <3>6. ~missed' => ~missed
      BY <1>0, <3>5
    <3>7. pc' \notin {"accept", "exit", "noteNat"}
      BY <2>3, AfterStep DEF DropRule, To
    <3> QED
      BY <3>1, <3>2, <3>3, <3>4, <3>5, <3>6, <3>7 DEF HInv, LeftInv, Notes
  <2>4. CASE DropRule("dropRest", "learning")
    <3>1. /\ sess \in Sessions /\ rules[sess] <= 1 /\ rules \in [Sessions -> Nat]
          /\ pc \notin Notes /\ pc \notin {"accept", "exit"}
      BY <2>4 DEF HInv, Inv, RuleInv, TypeOK, DropRule, Notes
    <3>2. "learning" \in noted => rules'[sess] = 0
      BY <2>4, <3>1 DEF DropRule, Unhook
    <3>3. "learning" \notin noted => rules' = rules
      BY <2>4 DEF DropRule
    <3>4. \A s \in Sessions : s # sess => rules'[s] = rules[s]
      BY <2>4, <3>1 DEF DropRule, Unhook
    <3>5. /\ noted' = noted \ {"learning"} /\ nat' = nat /\ sess' = sess /\ met' = met
          /\ flags' = flags
      BY <2>4, <1>0 DEF DropRule, To
    <3>6. ~missed' => ~missed
      BY <1>0, <3>5
    <3>7. pc' \notin {"accept", "exit", "noteNat"}
      BY <2>4, AfterStep DEF DropRule, To
    <3> QED
      BY <3>1, <3>2, <3>3, <3>4, <3>5, <3>6, <3>7 DEF HInv, LeftInv, Notes
  <2>5. CASE Join
    BY <2>5, <1>0, AfterStep DEF HInv, Inv, TypeOK, RuleInv, NoteInv,
       LeftInv, MetOK, Notes, Before, Stopped, At, Sessions, Join, To, host,
       peers
  <2>6. CASE DropNat
    <3>1. \A r \in NatRules : /\ nat'[r] <= nat[r]
                              /\ "nat" \in noted /\ nat[r] <= met.nat[r] + 1
                                   => nat'[r] <= met.nat[r]
      BY <2>6 DEF DropNat, CleanupNat, HInv, Inv, TypeOK, MetOK
    <3>2. /\ pc = "dropNat" /\ pc' = "close" /\ rules' = rules /\ flags' = flags
          /\ noted' = noted \ {"nat"} /\ sess' = sess /\ met' = met
      BY <2>6, <1>0, AfterStep DEF DropNat, To
    <3>3. ~missed' => ~missed
      BY <1>0, <3>2
    <3>4. \A r \in NatRules : nat[r] \in Nat /\ nat'[r] \in Nat /\ met.nat[r] \in Nat
      BY <2>6 DEF DropNat, CleanupNat, HInv, Inv, TypeOK, MetOK
    <3> QED
      BY <3>1, <3>2, <3>3, <3>4 DEF HInv, LeftInv
  <2>7. CASE Close
    BY <2>7, <1>0, AfterStep DEF HInv, Inv, TypeOK, RuleInv, NoteInv,
       LeftInv, MetOK, Notes, Before, Stopped, At, Sessions, Close, To, peers
  <2>8. CASE Exit
    BY <2>8, <1>0, AfterStep DEF HInv, Inv, TypeOK, RuleInv, NoteInv,
       LeftInv, MetOK, Notes, Before, Stopped, At, Sessions, Exit, To, host,
       peers
  <2> QED BY <1>4, <2>1, <2>2, <2>3, <2>4, <2>5, <2>6, <2>7, <2>8 DEF Cleanup
<1>5. CASE Threads
  <2>1. /\ UNCHANGED <<pc, sess, rules, nat, noted, met>>
        /\ Stopped => Stopped'
    BY <1>5, <1>0, ThreadsKeep DEF HInv, Inv, Stopped
  <2> QED
    BY <1>0, <2>1 DEF HInv, LeftInv, Notes
<1>6. CASE Signal
  BY <1>6, <1>0, AfterStep DEF HInv, Inv, TypeOK, RuleInv, NoteInv, LeftInv,
     MetOK, Notes, Before, Stopped, At, Sessions, Signal, host, peers
<1>7. CASE UNCHANGED vars
  BY <1>7, <1>0, AfterStep DEF HInv, Inv, TypeOK, RuleInv, NoteInv, LeftInv,
     MetOK, Notes, Before, Stopped, At, Sessions, vars
<1> QED
  BY <1>0, <1>1, <1>2, <1>3, <1>4, <1>5, <1>6, <1>7 DEF Next

\* The invariant of the rules holds in every state of every run.
LEMMA HInvAlways == HSpec => []HInv
<1>1. HInit => NoteInv /\ LeftInv /\ MetOK
  <2> SUFFICES ASSUME HInit
               PROVE  NoteInv /\ LeftInv /\ MetOK
    OBVIOUS
  <2>1. NoteInv /\ LeftInv
    BY DEF HInit, Init, NoteInv, LeftInv, Before
  <2>2. rules \in [Sessions -> Nat] /\ nat \in [NatRules -> Nat]
    BY DEF HInit, Init
  <2> QED BY <2>1, <2>2 DEF HInit, MetOK, Installed
<1>2. HInv /\ Inv' /\ [HNext]_hvars => HInv'
  <2> SUFFICES ASSUME HInv, Inv', [HNext]_hvars
               PROVE  HInv'
    OBVIOUS
  <2>1. [Next]_vars
    BY NextAndNote DEF HInv
  <2>2. NoteInv' /\ LeftInv'
    BY <2>1, NoteStep, LeftStep DEF HInv
  <2>3. MetOK'
    <3>1. Installed \in [rules : [Sessions -> Nat], nat : [NatRules -> Nat]]
      BY DEF Installed, HInv, Inv, TypeOK
    <3> QED BY <3>1, NextAndNote DEF HInv, MetOK
  <2> QED BY <2>2, <2>3 DEF HInv
<1>3. HSpec => Spec
  <2>1. [HNext]_hvars => [Next]_vars
    BY DEF HNext, hvars, vars
  <2> QED BY <2>1, PTL DEF HSpec, HInit, Spec
<1> QED BY <1>1, <1>2, <1>3, InvAlways, PTL DEF HSpec, HInv

\* What it is to be a mark.
LEMMA IsMark ==
  ASSUME NEW i, NEW m
  PROVE  m \in MarksOf(i) <=>
           \/ \E s \in Sessions : \E n \in 1 .. i.rules[s] : m = <<"rule", s, n>>
           \/ \E r \in NatRules : \E n \in 1 .. i.nat[r] : m = <<"nat", r, n>>
<1> DEFINE R == UNION { {<<"rule", s, n>> : n \in 1 .. i.rules[s]} : s \in Sessions }
           N == UNION { {<<"nat", r, n>> : n \in 1 .. i.nat[r]} : r \in NatRules }
<1>1. m \in R <=> \E s \in Sessions : m \in {<<"rule", s, n>> : n \in 1 .. i.rules[s]}
  BY Zenon
<1>2. m \in N <=> \E r \in NatRules : m \in {<<"nat", r, n>> : n \in 1 .. i.nat[r]}
  BY Zenon
<1>3. \A s : m \in {<<"rule", s, n>> : n \in 1 .. i.rules[s]}
               <=> \E n \in 1 .. i.rules[s] : m = <<"rule", s, n>>
  BY Zenon
<1>4. \A r : m \in {<<"nat", r, n>> : n \in 1 .. i.nat[r]}
               <=> \E n \in 1 .. i.nat[r] : m = <<"nat", r, n>>
  BY Zenon
<1>5. MarksOf(i) = R \cup N
  BY Zenon DEF MarksOf
<1> HIDE DEF R, N
<1> QED BY <1>1, <1>2, <1>3, <1>4, <1>5, Zenon

\* The last step of a session that missed no note gives the host back.
LEMMA CloseGivesBack ==
  ASSUME HInv, Close, ~missed
  PROVE  MarksOf(Installed') \subseteq MarksOf(met)
<1>1. pc = "close" /\ rules' = rules /\ nat' = nat
  BY DEF Close
<1>2. /\ sess \in Sessions
      /\ rules[sess] = 0
      /\ \A s \in Sessions : s # sess => rules[s] = met.rules[s]
      /\ \A r \in NatRules : nat[r] <= met.nat[r]
  BY <1>1 DEF HInv, Inv, RuleInv, NoteInv, LeftInv
<1>3. /\ rules \in [Sessions -> Nat] /\ nat \in [NatRules -> Nat]
      /\ met.rules \in [Sessions -> Nat] /\ met.nat \in [NatRules -> Nat]
  BY DEF HInv, Inv, TypeOK, MetOK
<1>4. \A s \in Sessions : 1 .. rules[s] \subseteq 1 .. met.rules[s]
  BY <1>2, <1>3
<1>5. \A r \in NatRules : 1 .. nat[r] \subseteq 1 .. met.nat[r]
  BY <1>2, <1>3
<1>6. Installed'.rules = rules /\ Installed'.nat = nat
  BY <1>1 DEF Installed
<1> SUFFICES ASSUME NEW m \in MarksOf(Installed')
             PROVE  m \in MarksOf(met)
  OBVIOUS
<1>7. CASE \E s \in Sessions : \E n \in 1 .. rules[s] : m = <<"rule", s, n>>
  <2>1. \E s \in Sessions : \E n \in 1 .. met.rules[s] : m = <<"rule", s, n>>
    BY <1>4, <1>7
  <2> QED BY <2>1, IsMark
<1>8. CASE \E r \in NatRules : \E n \in 1 .. nat[r] : m = <<"nat", r, n>>
  <2>1. \E r \in NatRules : \E n \in 1 .. met.nat[r] : m = <<"nat", r, n>>
    BY <1>5, <1>8
  <2> QED BY <2>1, IsMark
<1>9. \/ \E s \in Sessions : \E n \in 1 .. Installed'.rules[s] : m = <<"rule", s, n>>
      \/ \E r \in NatRules : \E n \in 1 .. Installed'.nat[r] : m = <<"nat", r, n>>
  BY IsMark
<1> QED BY <1>6, <1>7, <1>8, <1>9

\* A session of the proxy borrows its host: its start, its work, its end and
\* a note that is missed are the steps of BorrowedHost.
THEOREM HostIsGivenBack == HSpec => HostGivenBack
<1>1. HInit => Borrowed!Init
  <2> SUFFICES ASSUME HInit
               PROVE  Borrowed!Init
    OBVIOUS
  <2>1. MarksOf(Installed) = {}
    BY DEF HInit, Init, MarksOf, Installed, Sessions
  <2> QED BY <2>1 DEF HInit, Init, Borrowed!Init, Over
<1>2. HInv /\ [HNext]_hvars => [Borrowed!Next]_Borrowed!vars
  <2> SUFFICES ASSUME HInv, [HNext]_hvars
               PROVE  [Borrowed!Next]_Borrowed!vars
    OBVIOUS
  <2>0. /\ [Next]_vars
        /\ sess' = sess => met' = met
        /\ sess' # sess => met' = Installed /\ ~missed'
        /\ sess' = sess /\ pc \in {"accept", "exit", "close"} => (missed' <=> missed)
        /\ missed \in BOOLEAN /\ missed' \in BOOLEAN
    BY NextAndNote DEF HInv, Notes, MetOK
  <2>1. CASE Accept
    <3>1. sess' # sess /\ Over /\ ~Over' /\ Installed' = Installed
      BY <2>1 DEF Accept, HInv, Inv, TypeOK, Over, Installed
    <3> QED BY <2>0, <3>1 DEF Borrowed!Next, Borrowed!Borrow
  <2>2. CASE Close
    <3>1. ~Over /\ Over' /\ met' = met
      BY <2>0, <2>2 DEF Close, To, Over
    <3>2. CASE missed'
      BY <3>1, <3>2 DEF Borrowed!Next, Borrowed!Lose
    <3>3. CASE ~missed'
      <4>1. ~missed
        BY <2>0, <2>2, <3>3 DEF Close, To
      <4> QED
        BY <2>2, <3>1, <3>3, <4>1, CloseGivesBack DEF Borrowed!Next, Borrowed!GiveBack
    <3> QED BY <3>2, <3>3
  <2>3. CASE Exit
    <3>1. Over /\ Over' /\ sess' = sess /\ rules' = rules /\ nat' = nat
      BY <2>3 DEF Exit, To, host, Over
    <3>2. missed' = missed
      BY <2>0, <2>3, <3>1 DEF Exit
    <3> QED
      BY <2>0, <3>1, <3>2 DEF Borrowed!vars, Installed
  <2>4. ASSUME [Next]_vars, ~Accept, ~Close, ~Exit
        PROVE  \/ ~Over /\ ~Over' /\ sess' = sess
               \/ Over /\ Over' /\ UNCHANGED <<sess, rules, nat, missed>>
    <3>1. CASE SetUp
      BY <2>4, <3>1, AfterStep DEF SetUp, At, Over, Skip, To, CallFails,
         Raise, Accept, Handshake, StartUdp, StartThread, StartTunnel,
         StartRaw, InstallRule, Hook, Note, Gated
    <3>2. CASE Learn
      BY <2>4, <3>2, AfterStep DEF Learn, At, Over, OpenLearnQueue, To,
         Capture, UnhookLearn, Unhook, DetachLearn, Consume, LearnFails,
         Raise, Forget, DropRule
    <3>3. CASE Plane
      BY <2>4, <3>3, AfterStep DEF Plane, At, Over, NfqReady, To,
         NfqNotReady, Raise, OpenTun, TunFails, SetUpNat, Plus,
         SetUpNatFails, CleanupNat, Appended, OpenRaw, Publish
    <3>4. CASE Cleanup
      BY <2>4, <3>4, AfterStep DEF Cleanup, At, Over, Leave, To, ClosePlane,
         DropRule, Unhook, Join, DropNat, CleanupNat, Close, Exit
    <3>5. CASE Threads
      <4>1. UNCHANGED <<pc, sess, rules, nat>>
        BY <3>5, ThreadsKeep DEF HInv, Inv
      <4>2. pc \in {"accept", "exit"} => missed' = missed
        BY <2>0, <4>1
      <4> QED BY <4>1, <4>2 DEF Over
    <3>6. CASE Signal \/ UNCHANGED vars
      <4>1. UNCHANGED <<pc, sess, rules, nat>>
        BY <3>6 DEF Signal, vars, host
      <4>2. pc \in {"accept", "exit"} => missed' = missed
        BY <2>0, <4>1
      <4> QED BY <4>1, <4>2 DEF Over
    <3> QED BY <2>4, <3>1, <3>2, <3>3, <3>4, <3>5, <3>6 DEF Next
  <2> QED
    <3>1. CASE ~Over /\ ~Over' /\ sess' = sess
      BY <2>0, <3>1 DEF Borrowed!Next, Borrowed!Use
    <3>2. CASE Over /\ Over' /\ UNCHANGED <<sess, rules, nat, missed>>
      BY <2>0, <3>2 DEF Borrowed!vars, Installed
    <3> QED BY <2>0, <2>1, <2>2, <2>3, <2>4, <3>1, <3>2
<1> QED BY <1>1, <1>2, HInvAlways, PTL DEF HSpec, HostGivenBack, Borrowed!Spec
=============================================================================
