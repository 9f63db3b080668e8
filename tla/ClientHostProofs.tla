--------------------------- MODULE ClientHostProofs ---------------------------
(***************************************************************************)
(* What a run of the client leaves on its host, for every number of runs   *)
(* and every combination of faults: proofs about ClientHost.               *)
(*                                                                         *)
(* The invariant follows the notes of main: what is noted is there until   *)
(* main has taken it back, what is not noted is as the run found it.       *)
(***************************************************************************)
EXTENDS ClientHost, TLAPS

\* The steps before each of the commands that touch the routes, and the ones
\* that may still follow before they are undone.
Early == {"connect", "register", "startUdp", "waitLearn", "hookLearn", "learn",
          "dropLearn", "hookTunnel", "startTunnel", "waitNfq", "ready", "settle",
          "tun", "load", "except"}

Routed == {"check", "raw", "publish", "startRaw", "up"}

Taking == {"closing", "joinRaw", "restore"}

Taken == {"unroute", "unhookTunnel", "unhookLearn", "join", "close"}

\* The default route: what main knows of it.
DefaultInv ==
  /\ default["second"] # "tun"
  /\ pc = "idle" => default["first"] # "tun"
  /\ "default" \notin noted /\ pc # "idle" =>
       /\ default["first"] # "tun"
       /\ Effective = "gateway" <=> <<"cut off", 0>> \notin found
  /\ "default" \in noted /\ pc # "idle" => <<"cut off", 0>> \notin found
  /\ "default" \in noted /\ pc \in Routed \cup Taking => default["first"] = "tun"
  /\ "default" \in noted /\ pc \in Taken /\ ~harm => default["first"] = "gateway"
  /\ pc \in {"except", "replace"} => Effective = "gateway"
  /\ pc \in Early \cup {"replace"} => "default" \notin noted
  /\ pc \in Routed => "default" \in noted

\* The exception: it stands until the default route has been restored.
ExceptionInv ==
  /\ "exception" \notin noted /\ pc # "idle" =>
       (exception = "gateway" <=> <<"exception", 0>> \in found)
  /\ "exception" \in noted /\ pc \in {"replace"} \cup Routed \cup Taking \cup {"unroute"}
       => exception = "gateway"
  /\ "exception" \in noted /\ pc # "idle" => <<"exception", 0>> \notin found
  /\ "exception" \in noted /\ pc \in Taken \ {"unroute"} /\ ~harm => exception = "none"
  /\ "default" \in noted => "exception" \in noted
  /\ pc \in Early => "exception" \notin noted
  /\ pc = "replace" => "exception" \in noted

\* The rules: those of this run that are left are noted.
RuleInv ==
  /\ pc # "idle" => run \in Runs
  /\ pc # "idle" /\ ~harm =>
       \A k \in {"learning", "tunnel"}, n \in Runs :
         <<k, n>> \in rules => <<k, n>> \in found \/ (k \in noted /\ n = run)
  /\ pc \in {"unhookLearn", "join", "close"} => "tunnel" \notin noted
  /\ pc \in {"join", "close"} => "learning" \notin noted

\* Which thread may be using what, and where main is then.
UseInv ==
  /\ pc \in {"load", "except", "replace"} \cup Routed => fd["tun"] = "open"
  /\ pc \in {"publish", "startRaw", "up"} => fd["raw"] = "open"
  /\ plane => fd["tun"] = "open" /\ pc \in {"startRaw", "up", "closing"}
  /\ hand => /\ thread["tunnel"] = "run"
             /\ fd["tun"] = "open"
             /\ pc \in {"startRaw", "up"} \cup Taking \cup (Taken \ {"close"})
  /\ thread["raw"] = "run" => /\ fd["tun"] = "open" /\ fd["raw"] = "open"
                              /\ "default" \in noted
                              /\ pc \in {"up", "closing", "joinRaw"}

Inv == TypeOK /\ DefaultInv /\ ExceptionInv /\ RuleInv /\ UseInv
-----------------------------------------------------------------------------
\* The order of the steps of main, step by step.
LEMMA AfterStep ==
  /\ After["connect"] = "register"
  /\ After["register"] = "startUdp"
  /\ After["startUdp"] = "waitLearn"
  /\ After["waitLearn"] = "hookLearn"
  /\ After["hookLearn"] = "learn"
  /\ After["learn"] = "dropLearn"
  /\ After["dropLearn"] = "hookTunnel"
  /\ After["hookTunnel"] = "startTunnel"
  /\ After["startTunnel"] = "waitNfq"
  /\ After["waitNfq"] = "ready"
  /\ After["ready"] = "settle"
  /\ After["settle"] = "tun"
  /\ After["tun"] = "load"
  /\ After["load"] = "except"
  /\ After["except"] = "replace"
  /\ After["replace"] = "check"
  /\ After["check"] = "raw"
  /\ After["raw"] = "publish"
  /\ After["publish"] = "startRaw"
  /\ After["startRaw"] = "up"
  /\ After["up"] = "closing"
  /\ After["closing"] = "joinRaw"
  /\ After["joinRaw"] = "restore"
  /\ After["restore"] = "unroute"
  /\ After["unroute"] = "unhookTunnel"
  /\ After["unhookTunnel"] = "unhookLearn"
  /\ After["unhookLearn"] = "join"
  /\ After["join"] = "close"
BY DEF After

\* Every step of main is a value of pc.
LEMMA PcsAre ==
  Pcs = {"connect", "register", "startUdp", "waitLearn", "hookLearn",
         "learn", "dropLearn", "hookTunnel", "startTunnel", "waitNfq",
         "ready", "settle", "tun", "load", "except", "replace", "check",
         "raw", "publish", "startRaw", "up", "closing", "joinRaw", "restore",
         "unroute", "unhookTunnel", "unhookLearn", "join", "close", "idle"}
BY DEF Pcs, After

\* A mark says of the host what it stands for.
LEMMA MarksAre ==
  ASSUME TypeOK
  PROVE  /\ <<"cut off", 0>> \in Marks <=> Effective # "gateway"
         /\ <<"exception", 0>> \in Marks <=> exception = "gateway"
         /\ rules \subseteq Marks
<1>1. 0 \notin Runs
  BY DEF Runs
<1>2. <<"cut off", 0>> \notin rules /\ <<"exception", 0>> \notin rules
  BY <1>1 DEF TypeOK
<1>3. <<"cut off", 0>> # <<"exception", 0>>
  OBVIOUS
<1> QED BY <1>2, <1>3 DEF Marks, TypeOK

\* The threads touch neither main's place nor the host.
LEMMA ThreadsKeep ==
  ASSUME Threads
  PROVE  UNCHANGED <<pc, run, default, exception, rules, noted, fd, plane, harm>>
BY DEF Threads, UdpStops, UdpEnds, TunnelOpens, TunnelFails, TakePacket,
   WriteTun, TunnelBreaks, TunnelEnds, RawFails, RawEnds, Elsewhere, routes

\* The types are kept.
LEMMA TypeStep == Inv /\ [HNext]_hvars => TypeOK'
<1> SUFFICES ASSUME Inv, [HNext]_hvars
             PROVE  TypeOK'
  OBVIOUS
<1>0. [Next]_vars /\ found' = IF run' # run THEN Marks ELSE found
  BY DEF HNext, hvars, vars
<1>1. CASE SetUp
  <2>1. CASE Start
    <3>1. pc' \in Pcs /\ run' \in 0 .. MaxRuns
      BY <2>1, PcsAre, RunsAssumption DEF Inv, TypeOK, Start
    <3> QED
      BY <2>1, <3>1 DEF Inv, TypeOK, Start, NoFds, NoThreads, routes
  <2>2. CASE Pass
    BY <2>2, <1>0, AfterStep, PcsAre, RunsAssumption DEF Inv, TypeOK,
       RuleInv, Runs, Pass, To, Waits, peers, routes
  <2>3. CASE GiveUp
    BY <2>3, <1>0, AfterStep, PcsAre, RunsAssumption DEF Inv, TypeOK,
       RuleInv, Runs, GiveUp, To, Waits, peers, routes
  <2>4. CASE CallFails
    BY <2>4, <1>0, AfterStep, PcsAre, RunsAssumption DEF Inv, TypeOK,
       RuleInv, Runs, CallFails, To, peers, routes
  <2>5. CASE StartUdp
    BY <2>5, <1>0, AfterStep, PcsAre, RunsAssumption DEF Inv, TypeOK,
       RuleInv, Runs, StartUdp, StartThread, To, routes
  <2>6. CASE StartTunnel
    BY <2>6, <1>0, AfterStep, PcsAre, RunsAssumption DEF Inv, TypeOK,
       RuleInv, Runs, StartTunnel, StartThread, To, routes
  <2>7. CASE StartRaw
    BY <2>7, <1>0, AfterStep, PcsAre, RunsAssumption DEF Inv, TypeOK,
       RuleInv, Runs, StartRaw, StartThread, To, routes
  <2>8. CASE InstallRule("hookLearn", "learning")
    BY <2>8, <1>0, AfterStep, PcsAre, RunsAssumption DEF Inv, TypeOK,
       RuleInv, Runs, InstallRule, To, peers, routes
  <2>9. CASE DropRule("dropLearn", "learning")
    <3>1. pc' \in Pcs /\ run' = run /\ signal' = signal
      BY <2>9, AfterStep, PcsAre DEF DropRule, To
    <3>2. /\ rules' \subseteq {"learning", "tunnel"} \X Runs
          /\ noted' \subseteq {"learning", "tunnel", "exception", "default"}
          /\ harm' \in BOOLEAN
      BY <2>9 DEF Inv, TypeOK, DropRule
    <3> QED
      BY <2>9, <3>1, <3>2 DEF Inv, TypeOK, DropRule, peers, routes
  <2>10. CASE InstallRule("hookTunnel", "tunnel")
    BY <2>10, <1>0, AfterStep, PcsAre, RunsAssumption DEF Inv, TypeOK,
       RuleInv, Runs, InstallRule, To, peers, routes
  <2> QED BY <1>1, <2>1, <2>2, <2>3, <2>4, <2>5, <2>6, <2>7, <2>8, <2>9,
  <2>10 DEF SetUp
<1>2. CASE Plane
  <2>1. CASE OpenTun
    BY <2>1, <1>0, AfterStep, PcsAre, RunsAssumption DEF Inv, TypeOK,
       RuleInv, Runs, OpenTun, To, peers, routes
  <2>2. CASE TunFails
    BY <2>2, <1>0, AfterStep, PcsAre, RunsAssumption DEF Inv, TypeOK,
       RuleInv, Runs, TunFails, To, peers, routes
  <2>3. CASE LoadRoute
    BY <2>3, <1>0, AfterStep, PcsAre, RunsAssumption DEF Inv, TypeOK,
       RuleInv, Runs, LoadRoute, To, peers, routes
  <2>4. CASE AddException
    <3>1. pc' \in Pcs /\ run' = run /\ signal' = signal
      BY <2>4, AfterStep, PcsAre DEF AddException, To
    <3>2. /\ exception' \in {"none", "gateway"}
          /\ noted' \subseteq {"learning", "tunnel", "exception", "default"}
      BY <2>4 DEF Inv, TypeOK, AddException
    <3> QED
      BY <2>4, <3>1, <3>2 DEF Inv, TypeOK, AddException, peers
  <2>5. CASE ReplaceDefault
    BY <2>5, <1>0, AfterStep, PcsAre, RunsAssumption DEF Inv, TypeOK,
       RuleInv, Runs, ReplaceDefault, Replace, To, peers
  <2>6. CASE OpenRaw
    BY <2>6, <1>0, AfterStep, PcsAre, RunsAssumption DEF Inv, TypeOK,
       RuleInv, Runs, OpenRaw, To, peers, routes
  <2>7. CASE Publish
    BY <2>7, <1>0, AfterStep, PcsAre, RunsAssumption DEF Inv, TypeOK,
       RuleInv, Runs, Publish, To, peers, routes
  <2> QED BY <1>2, <2>1, <2>2, <2>3, <2>4, <2>5, <2>6, <2>7 DEF Plane
<1>3. CASE Cleanup
  <2>1. CASE Leave
    BY <2>1, <1>0, AfterStep, PcsAre, RunsAssumption DEF Inv, TypeOK,
       RuleInv, Runs, Leave, To, peers, routes
  <2>2. CASE ClosePlane
    BY <2>2, <1>0, AfterStep, PcsAre, RunsAssumption DEF Inv, TypeOK,
       RuleInv, Runs, ClosePlane, To, peers, routes
  <2>3. CASE JoinRaw
    BY <2>3, <1>0, AfterStep, PcsAre, RunsAssumption DEF Inv, TypeOK,
       RuleInv, Runs, JoinRaw, To, peers, routes
  <2>4. CASE RestoreDefault
    <3>1. pc' \in Pcs /\ run' = run /\ signal' = signal
      BY <2>4, AfterStep, PcsAre DEF RestoreDefault, To
    <3>2. /\ default' \in [{"first", "second"} -> {"none", "gateway", "tun"}]
          /\ harm' \in BOOLEAN
      BY <2>4 DEF Inv, TypeOK, RestoreDefault, Replace
    <3> QED
      BY <2>4, <3>1, <3>2 DEF Inv, TypeOK, RestoreDefault, peers
  <2>5. CASE CleanupRoutes
    <3>1. pc' \in Pcs /\ run' = run /\ signal' = signal
      BY <2>5, AfterStep, PcsAre DEF CleanupRoutes, To
    <3>2. exception' \in {"none", "gateway"} /\ harm' \in BOOLEAN
      BY <2>5 DEF Inv, TypeOK, CleanupRoutes
    <3> QED
      BY <2>5, <3>1, <3>2 DEF Inv, TypeOK, CleanupRoutes, peers
  <2>6. CASE DropRule("unhookTunnel", "tunnel")
    <3>1. pc' \in Pcs /\ run' = run /\ signal' = signal
      BY <2>6, AfterStep, PcsAre DEF DropRule, To
    <3>2. /\ rules' \subseteq {"learning", "tunnel"} \X Runs
          /\ noted' \subseteq {"learning", "tunnel", "exception", "default"}
          /\ harm' \in BOOLEAN
      BY <2>6 DEF Inv, TypeOK, DropRule
    <3> QED
      BY <2>6, <3>1, <3>2 DEF Inv, TypeOK, DropRule, peers, routes
  <2>7. CASE DropRule("unhookLearn", "learning")
    <3>1. pc' \in Pcs /\ run' = run /\ signal' = signal
      BY <2>7, AfterStep, PcsAre DEF DropRule, To
    <3>2. /\ rules' \subseteq {"learning", "tunnel"} \X Runs
          /\ noted' \subseteq {"learning", "tunnel", "exception", "default"}
          /\ harm' \in BOOLEAN
      BY <2>7 DEF Inv, TypeOK, DropRule
    <3> QED
      BY <2>7, <3>1, <3>2 DEF Inv, TypeOK, DropRule, peers, routes
  <2>8. CASE Join
    BY <2>8, <1>0, AfterStep, PcsAre, RunsAssumption DEF Inv, TypeOK,
       RuleInv, Runs, Join, To, peers, routes
  <2>9. CASE Close
    BY <2>9, <1>0, AfterStep, PcsAre, RunsAssumption DEF Inv, TypeOK,
       RuleInv, Runs, Close, WithoutTun, To, peers
  <2> QED BY <1>3, <2>1, <2>2, <2>3, <2>4, <2>5, <2>6, <2>7, <2>8, <2>9 DEF
             Cleanup
<1>4. CASE Threads
  <2>1. CASE UdpStops
    BY <2>1, <1>0, AfterStep, PcsAre, RunsAssumption DEF Inv, TypeOK,
       RuleInv, Runs, UdpStops, Elsewhere, routes
  <2>2. CASE UdpEnds
    BY <2>2, <1>0, AfterStep, PcsAre, RunsAssumption DEF Inv, TypeOK,
       RuleInv, Runs, UdpEnds, Elsewhere, routes
  <2>3. CASE TunnelOpens
    BY <2>3, <1>0, AfterStep, PcsAre, RunsAssumption DEF Inv, TypeOK,
       RuleInv, Runs, TunnelOpens, Elsewhere, routes
  <2>4. CASE TunnelFails
    BY <2>4, <1>0, AfterStep, PcsAre, RunsAssumption DEF Inv, TypeOK,
       RuleInv, Runs, TunnelFails, Raise, Elsewhere, routes
  <2>5. CASE TakePacket
    BY <2>5, <1>0, AfterStep, PcsAre, RunsAssumption DEF Inv, TypeOK,
       RuleInv, Runs, TakePacket, Elsewhere, routes
  <2>6. CASE WriteTun
    BY <2>6, <1>0, AfterStep, PcsAre, RunsAssumption DEF Inv, TypeOK,
       RuleInv, Runs, WriteTun, Elsewhere, routes
  <2>7. CASE TunnelBreaks
    BY <2>7, <1>0, AfterStep, PcsAre, RunsAssumption DEF Inv, TypeOK,
       RuleInv, Runs, TunnelBreaks, Raise, Elsewhere, routes
  <2>8. CASE TunnelEnds
    BY <2>8, <1>0, AfterStep, PcsAre, RunsAssumption DEF Inv, TypeOK,
       RuleInv, Runs, TunnelEnds, Elsewhere, routes
  <2>9. CASE RawFails
    BY <2>9, <1>0, AfterStep, PcsAre, RunsAssumption DEF Inv, TypeOK,
       RuleInv, Runs, RawFails, Raise, Elsewhere, routes
  <2>10. CASE RawEnds
    BY <2>10, <1>0, AfterStep, PcsAre, RunsAssumption DEF Inv, TypeOK,
       RuleInv, Runs, RawEnds, Stopped, Elsewhere, routes
  <2> QED BY <1>4, <2>1, <2>2, <2>3, <2>4, <2>5, <2>6, <2>7, <2>8, <2>9,
  <2>10 DEF Threads
<1>5. CASE Signal
  BY <1>5, <1>0, AfterStep, PcsAre, RunsAssumption DEF Inv,
     TypeOK, RuleInv, Runs, Signal, peers, routes
<1>6. CASE Killed
  BY <1>6, <1>0, AfterStep, PcsAre, RunsAssumption DEF Inv,
     TypeOK, RuleInv, Runs, Killed, To, WithoutTun, NoFds, NoThreads
<1>7. CASE UNCHANGED vars
  BY <1>7, <1>0, AfterStep, PcsAre, RunsAssumption
     DEF Inv, TypeOK, RuleInv, Runs, vars
<1> QED BY <1>0, <1>1, <1>2, <1>3, <1>4, <1>5, <1>6, <1>7 DEF Next

\* What main knows of the default route is kept.
LEMMA DefaultStep == Inv /\ [HNext]_hvars => DefaultInv'
<1> SUFFICES ASSUME Inv, [HNext]_hvars
             PROVE  DefaultInv'
  OBVIOUS
<1>0. [Next]_vars /\ found' = IF run' # run THEN Marks ELSE found
  BY DEF HNext, hvars, vars
<1>1. CASE SetUp
  <2>1. CASE Start
    <3>1. run' # run /\ found' = Marks
      BY <2>1, <1>0 DEF Inv, TypeOK, Start
    <3> QED
      BY <2>1, <3>1, MarksAre DEF Inv, TypeOK, DefaultInv, Effective, Early,
         Routed, Taking, Taken, Start, NoFds, NoThreads, routes
  <2>2. CASE Pass
    BY <2>2, <1>0, AfterStep DEF Inv, TypeOK, DefaultInv, Effective, Early,
       Routed, Taking, Taken, Pass, To, Waits, peers, routes
  <2>3. CASE GiveUp
    BY <2>3, <1>0, AfterStep DEF Inv, TypeOK, DefaultInv, Effective, Early,
       Routed, Taking, Taken, GiveUp, To, Waits, peers, routes
  <2>4. CASE CallFails
    BY <2>4, <1>0, AfterStep DEF Inv, TypeOK, DefaultInv, Effective, Early,
       Routed, Taking, Taken, CallFails, To, peers, routes
  <2>5. CASE StartUdp
    BY <2>5, <1>0, AfterStep DEF Inv, TypeOK, DefaultInv, Effective, Early,
       Routed, Taking, Taken, StartUdp, StartThread, To, routes
  <2>6. CASE StartTunnel
    BY <2>6, <1>0, AfterStep DEF Inv, TypeOK, DefaultInv, Effective, Early,
       Routed, Taking, Taken, StartTunnel, StartThread, To, routes
  <2>7. CASE StartRaw
    BY <2>7, <1>0, AfterStep DEF Inv, TypeOK, DefaultInv, Effective, Early,
       Routed, Taking, Taken, StartRaw, StartThread, To, routes
  <2>8. CASE InstallRule("hookLearn", "learning")
    BY <2>8, <1>0, AfterStep DEF Inv, TypeOK, DefaultInv, Effective, Early,
       Routed, Taking, Taken, InstallRule, To, peers, routes
  <2>9. CASE DropRule("dropLearn", "learning")
    BY <2>9, <1>0, AfterStep DEF Inv, TypeOK, DefaultInv, Effective, Early,
       Routed, Taking, Taken, DropRule, To, peers, routes
  <2>10. CASE InstallRule("hookTunnel", "tunnel")
    BY <2>10, <1>0, AfterStep DEF Inv, TypeOK, DefaultInv, Effective, Early,
       Routed, Taking, Taken, InstallRule, To, peers, routes
  <2> QED BY <1>1, <2>1, <2>2, <2>3, <2>4, <2>5, <2>6, <2>7, <2>8, <2>9,
  <2>10 DEF SetUp
<1>2. CASE Plane
  <2>1. CASE OpenTun
    BY <2>1, <1>0, AfterStep DEF Inv, TypeOK, DefaultInv, Effective, Early,
       Routed, Taking, Taken, OpenTun, To, peers, routes
  <2>2. CASE TunFails
    BY <2>2, <1>0, AfterStep DEF Inv, TypeOK, DefaultInv, Effective, Early,
       Routed, Taking, Taken, TunFails, To, peers, routes
  <2>3. CASE LoadRoute
    BY <2>3, <1>0, AfterStep DEF Inv, TypeOK, DefaultInv, Effective, Early,
       Routed, Taking, Taken, LoadRoute, To, peers, routes
  <2>4. CASE AddException
    <3>1. pc = "except" /\ pc' \in {"closing", "replace"} /\ default' = default /\ found' = found
      BY <2>4, <1>0, AfterStep DEF AddException, To
    <3>2. "default" \notin noted /\ "default" \notin noted'
      BY <2>4 DEF AddException, Inv, DefaultInv, Early
    <3> QED
      BY <3>1, <3>2 DEF Inv, DefaultInv, Effective, Early, Routed, Taking, Taken
  <2>5. CASE ReplaceDefault
    BY <2>5, <1>0, AfterStep DEF Inv, TypeOK, DefaultInv, Effective, Early,
       Routed, Taking, Taken, ReplaceDefault, Replace, To, peers
  <2>6. CASE OpenRaw
    BY <2>6, <1>0, AfterStep DEF Inv, TypeOK, DefaultInv, Effective, Early,
       Routed, Taking, Taken, OpenRaw, To, peers, routes
  <2>7. CASE Publish
    BY <2>7, <1>0, AfterStep DEF Inv, TypeOK, DefaultInv, Effective, Early,
       Routed, Taking, Taken, Publish, To, peers, routes
  <2> QED BY <1>2, <2>1, <2>2, <2>3, <2>4, <2>5, <2>6, <2>7 DEF Plane
<1>3. CASE Cleanup
  <2>1. CASE Leave
    BY <2>1, <1>0, AfterStep DEF Inv, TypeOK, DefaultInv, Effective, Early,
       Routed, Taking, Taken, Leave, To, peers, routes
  <2>2. CASE ClosePlane
    BY <2>2, <1>0, AfterStep DEF Inv, TypeOK, DefaultInv, Effective, Early,
       Routed, Taking, Taken, ClosePlane, To, peers, routes
  <2>3. CASE JoinRaw
    BY <2>3, <1>0, AfterStep DEF Inv, TypeOK, DefaultInv, Effective, Early,
       Routed, Taking, Taken, JoinRaw, To, peers, routes
  <2>4. CASE RestoreDefault
    <3>1. pc = "restore" /\ pc' = "unroute" /\ noted' = noted /\ found' = found
      BY <2>4, <1>0, AfterStep DEF RestoreDefault, To
    <3>2. default' = default \/ Replace("gateway")
      BY <2>4 DEF RestoreDefault
    <3>3. "default" \in noted => harm' \/ default'["first"] = "gateway"
      BY <2>4 DEF RestoreDefault, Replace, Inv, TypeOK
    <3>4. "default" \notin noted => default' = default
      BY <2>4 DEF RestoreDefault
    <3>5. default'["second"] = default["second"]
      BY <3>2 DEF Replace, Inv, TypeOK
    <3> QED
      BY <3>1, <3>3, <3>4, <3>5 DEF Inv, DefaultInv, Effective, Early, Routed, Taking, Taken
  <2>5. CASE CleanupRoutes
    BY <2>5, <1>0, AfterStep DEF Inv, TypeOK, DefaultInv, Effective, Early,
       Routed, Taking, Taken, CleanupRoutes, To, peers
  <2>6. CASE DropRule("unhookTunnel", "tunnel")
    BY <2>6, <1>0, AfterStep DEF Inv, TypeOK, DefaultInv, Effective, Early,
       Routed, Taking, Taken, DropRule, To, peers, routes
  <2>7. CASE DropRule("unhookLearn", "learning")
    BY <2>7, <1>0, AfterStep DEF Inv, TypeOK, DefaultInv, Effective, Early,
       Routed, Taking, Taken, DropRule, To, peers, routes
  <2>8. CASE Join
    BY <2>8, <1>0, AfterStep DEF Inv, TypeOK, DefaultInv, Effective, Early,
       Routed, Taking, Taken, Join, To, peers, routes
  <2>9. CASE Close
    BY <2>9, <1>0, AfterStep DEF Inv, TypeOK, DefaultInv, Effective, Early,
       Routed, Taking, Taken, Close, WithoutTun, To, peers
  <2> QED BY <1>3, <2>1, <2>2, <2>3, <2>4, <2>5, <2>6, <2>7, <2>8, <2>9 DEF
             Cleanup
<1>4. CASE Threads
  BY <1>4, <1>0, ThreadsKeep DEF Inv, TypeOK, DefaultInv, Effective, Early,
     Routed, Taking, Taken
<1>5. CASE Signal
  BY <1>5, <1>0, AfterStep DEF Inv, TypeOK, DefaultInv,
     Effective, Early, Routed, Taking, Taken, Signal, peers, routes
<1>6. CASE Killed
  BY <1>6, <1>0, AfterStep DEF Inv, TypeOK, DefaultInv,
     Effective, Early, Routed, Taking, Taken, Killed, To, WithoutTun, NoFds,
     NoThreads
<1>7. CASE UNCHANGED vars
  BY <1>7, <1>0, AfterStep DEF Inv, TypeOK,
     DefaultInv, Effective, Early, Routed, Taking, Taken, vars
<1> QED BY <1>0, <1>1, <1>2, <1>3, <1>4, <1>5, <1>6, <1>7 DEF Next

\* What main knows of the exception is kept.
LEMMA ExceptionStep == Inv /\ [HNext]_hvars => ExceptionInv'
<1> SUFFICES ASSUME Inv, [HNext]_hvars
             PROVE  ExceptionInv'
  OBVIOUS
<1>0. [Next]_vars /\ found' = IF run' # run THEN Marks ELSE found
  BY DEF HNext, hvars, vars
<1>1. CASE SetUp
  <2>1. CASE Start
    <3>1. run' # run /\ found' = Marks
      BY <2>1, <1>0 DEF Inv, TypeOK, Start
    <3> QED
      BY <2>1, <3>1, MarksAre DEF Inv, TypeOK, ExceptionInv, DefaultInv, Early,
         Routed, Taking, Taken, Start, NoFds, NoThreads, routes
  <2>2. CASE Pass
    BY <2>2, <1>0, AfterStep DEF Inv, ExceptionInv, DefaultInv, Early,
       Routed, Taking, Taken, Pass, To, Waits, peers, routes
  <2>3. CASE GiveUp
    BY <2>3, <1>0, AfterStep DEF Inv, ExceptionInv, DefaultInv, Early,
       Routed, Taking, Taken, GiveUp, To, Waits, peers, routes
  <2>4. CASE CallFails
    BY <2>4, <1>0, AfterStep DEF Inv, ExceptionInv, DefaultInv, Early,
       Routed, Taking, Taken, CallFails, To, peers, routes
  <2>5. CASE StartUdp
    BY <2>5, <1>0, AfterStep DEF Inv, ExceptionInv, DefaultInv, Early,
       Routed, Taking, Taken, StartUdp, StartThread, To, routes
  <2>6. CASE StartTunnel
    BY <2>6, <1>0, AfterStep DEF Inv, ExceptionInv, DefaultInv, Early,
       Routed, Taking, Taken, StartTunnel, StartThread, To, routes
  <2>7. CASE StartRaw
    BY <2>7, <1>0, AfterStep DEF Inv, ExceptionInv, DefaultInv, Early,
       Routed, Taking, Taken, StartRaw, StartThread, To, routes
  <2>8. CASE InstallRule("hookLearn", "learning")
    BY <2>8, <1>0, AfterStep DEF Inv, ExceptionInv, DefaultInv, Early,
       Routed, Taking, Taken, InstallRule, To, peers, routes
  <2>9. CASE DropRule("dropLearn", "learning")
    BY <2>9, <1>0, AfterStep DEF Inv, ExceptionInv, DefaultInv, Early,
       Routed, Taking, Taken, DropRule, To, peers, routes
  <2>10. CASE InstallRule("hookTunnel", "tunnel")
    BY <2>10, <1>0, AfterStep DEF Inv, ExceptionInv, DefaultInv, Early,
       Routed, Taking, Taken, InstallRule, To, peers, routes
  <2> QED BY <1>1, <2>1, <2>2, <2>3, <2>4, <2>5, <2>6, <2>7, <2>8, <2>9,
  <2>10 DEF SetUp
<1>2. CASE Plane
  <2>1. CASE OpenTun
    BY <2>1, <1>0, AfterStep DEF Inv, ExceptionInv, DefaultInv, Early,
       Routed, Taking, Taken, OpenTun, To, peers, routes
  <2>2. CASE TunFails
    BY <2>2, <1>0, AfterStep DEF Inv, ExceptionInv, DefaultInv, Early,
       Routed, Taking, Taken, TunFails, To, peers, routes
  <2>3. CASE LoadRoute
    BY <2>3, <1>0, AfterStep DEF Inv, ExceptionInv, DefaultInv, Early,
       Routed, Taking, Taken, LoadRoute, To, peers, routes
  <2>4. CASE AddException
    <3>1. pc = "except" /\ found' = found /\ "default" \notin noted /\ "exception" \notin noted
      BY <2>4, <1>0 DEF AddException, To, Inv, DefaultInv, ExceptionInv, Early
    <3>2. CASE exception = "gateway"
      <4>1. exception' = exception /\ noted' = noted /\ pc' = "closing"
        BY <2>4, <3>2 DEF AddException, To
      <4> QED
        BY <3>1, <4>1 DEF Inv, ExceptionInv, Early, Routed, Taking, Taken
    <3>3. CASE exception # "gateway"
      <4>1. /\ exception' = "gateway" /\ noted' = noted \cup {"exception"}
            /\ pc' = "replace"
        BY <2>4, <3>3, AfterStep DEF AddException, To
      <4> QED
        BY <3>1, <3>3, <4>1 DEF Inv, ExceptionInv, Early, Routed, Taking, Taken
    <3> QED BY <3>2, <3>3
  <2>5. CASE ReplaceDefault
    BY <2>5, <1>0, AfterStep DEF Inv, ExceptionInv, DefaultInv, Early,
       Routed, Taking, Taken, ReplaceDefault, Replace, To, peers
  <2>6. CASE OpenRaw
    BY <2>6, <1>0, AfterStep DEF Inv, ExceptionInv, DefaultInv, Early,
       Routed, Taking, Taken, OpenRaw, To, peers, routes
  <2>7. CASE Publish
    BY <2>7, <1>0, AfterStep DEF Inv, ExceptionInv, DefaultInv, Early,
       Routed, Taking, Taken, Publish, To, peers, routes
  <2> QED BY <1>2, <2>1, <2>2, <2>3, <2>4, <2>5, <2>6, <2>7 DEF Plane
<1>3. CASE Cleanup
  <2>1. CASE Leave
    BY <2>1, <1>0, AfterStep DEF Inv, ExceptionInv, DefaultInv, Early,
       Routed, Taking, Taken, Leave, To, peers, routes
  <2>2. CASE ClosePlane
    BY <2>2, <1>0, AfterStep DEF Inv, ExceptionInv, DefaultInv, Early,
       Routed, Taking, Taken, ClosePlane, To, peers, routes
  <2>3. CASE JoinRaw
    BY <2>3, <1>0, AfterStep DEF Inv, ExceptionInv, DefaultInv, Early,
       Routed, Taking, Taken, JoinRaw, To, peers, routes
  <2>4. CASE RestoreDefault
    BY <2>4, <1>0, AfterStep DEF Inv, ExceptionInv, DefaultInv, Early,
       Routed, Taking, Taken, RestoreDefault, Replace, To, peers
  <2>5. CASE CleanupRoutes
    <3>1. /\ pc = "unroute" /\ pc' = "unhookTunnel" /\ found' = found
          /\ noted' = noted
      BY <2>5, <1>0, AfterStep DEF CleanupRoutes, To
    <3>2. "exception" \in noted => harm' \/ exception' = "none"
      BY <2>5 DEF CleanupRoutes
    <3>3. "exception" \notin noted => exception' = exception
      BY <2>5 DEF CleanupRoutes
    <3> QED
      BY <3>1, <3>2, <3>3 DEF Inv, ExceptionInv, Early, Routed, Taking, Taken
  <2>6. CASE DropRule("unhookTunnel", "tunnel")
    BY <2>6, <1>0, AfterStep DEF Inv, ExceptionInv, DefaultInv, Early,
       Routed, Taking, Taken, DropRule, To, peers, routes
  <2>7. CASE DropRule("unhookLearn", "learning")
    BY <2>7, <1>0, AfterStep DEF Inv, ExceptionInv, DefaultInv, Early,
       Routed, Taking, Taken, DropRule, To, peers, routes
  <2>8. CASE Join
    BY <2>8, <1>0, AfterStep DEF Inv, ExceptionInv, DefaultInv, Early,
       Routed, Taking, Taken, Join, To, peers, routes
  <2>9. CASE Close
    BY <2>9, <1>0, AfterStep DEF Inv, ExceptionInv, DefaultInv, Early,
       Routed, Taking, Taken, Close, WithoutTun, To, peers
  <2> QED BY <1>3, <2>1, <2>2, <2>3, <2>4, <2>5, <2>6, <2>7, <2>8, <2>9 DEF
             Cleanup
<1>4. CASE Threads
  BY <1>4, <1>0, ThreadsKeep DEF Inv, ExceptionInv, DefaultInv, Early,
     Routed, Taking, Taken
<1>5. CASE Signal
  BY <1>5, <1>0, AfterStep DEF Inv, ExceptionInv, DefaultInv,
     Early, Routed, Taking, Taken, Signal, peers, routes
<1>6. CASE Killed
  BY <1>6, <1>0, AfterStep DEF Inv, ExceptionInv, DefaultInv,
     Early, Routed, Taking, Taken, Killed, To, WithoutTun, NoFds, NoThreads
<1>7. CASE UNCHANGED vars
  BY <1>7, <1>0, AfterStep DEF Inv, ExceptionInv,
     DefaultInv, Early, Routed, Taking, Taken, vars
<1> QED BY <1>0, <1>1, <1>2, <1>3, <1>4, <1>5, <1>6, <1>7 DEF Next

\* What main knows of the rules is kept.
LEMMA RuleStep == Inv /\ [HNext]_hvars => RuleInv'
<1> SUFFICES ASSUME Inv, [HNext]_hvars
             PROVE  RuleInv'
  OBVIOUS
<1>0. [Next]_vars /\ found' = IF run' # run THEN Marks ELSE found
  BY DEF HNext, hvars, vars
<1>1. CASE SetUp
  <2>1. CASE Start
    <3>1. run' # run /\ run' \in Runs
      BY <2>1, RunsAssumption DEF Inv, TypeOK, Start, Runs
    <3>2. /\ found' = Marks /\ rules' = rules /\ rules \subseteq Marks
          /\ pc' = "connect"
      BY <2>1, <1>0, <3>1, MarksAre DEF Inv, Start
    <3> QED
      BY <3>1, <3>2 DEF RuleInv
  <2>2. CASE Pass
    BY <2>2, <1>0, AfterStep DEF Inv, RuleInv, Pass, To, Waits, peers, routes
  <2>3. CASE GiveUp
    BY <2>3, <1>0, AfterStep DEF Inv, RuleInv, GiveUp, To, Waits, peers,
       routes
  <2>4. CASE CallFails
    BY <2>4, <1>0, AfterStep DEF Inv, RuleInv, CallFails, To, peers, routes
  <2>5. CASE StartUdp
    BY <2>5, <1>0, AfterStep DEF Inv, RuleInv, StartUdp, StartThread, To,
       routes
  <2>6. CASE StartTunnel
    BY <2>6, <1>0, AfterStep DEF Inv, RuleInv, StartTunnel, StartThread, To,
       routes
  <2>7. CASE StartRaw
    BY <2>7, <1>0, AfterStep DEF Inv, RuleInv, StartRaw, StartThread, To,
       routes
  <2>8. CASE InstallRule("hookLearn", "learning")
    BY <2>8, <1>0, AfterStep DEF Inv, RuleInv, InstallRule, To, peers, routes
  <2>9. CASE DropRule("dropLearn", "learning")
    BY <2>9, <1>0, AfterStep DEF Inv, RuleInv, DropRule, To, peers, routes
  <2>10. CASE InstallRule("hookTunnel", "tunnel")
    BY <2>10, <1>0, AfterStep DEF Inv, RuleInv, InstallRule, To, peers,
       routes
  <2> QED BY <1>1, <2>1, <2>2, <2>3, <2>4, <2>5, <2>6, <2>7, <2>8, <2>9,
  <2>10 DEF SetUp
<1>2. CASE Plane
  <2>1. CASE OpenTun
    BY <2>1, <1>0, AfterStep DEF Inv, RuleInv, OpenTun, To, peers, routes
  <2>2. CASE TunFails
    BY <2>2, <1>0, AfterStep DEF Inv, RuleInv, TunFails, To, peers, routes
  <2>3. CASE LoadRoute
    BY <2>3, <1>0, AfterStep DEF Inv, RuleInv, LoadRoute, To, peers, routes
  <2>4. CASE AddException
    <3>1. /\ pc = "except" /\ pc' \in {"closing", "replace"} /\ found' = found
          /\ run' = run /\ rules' = rules /\ harm' = harm /\ noted \subseteq noted'
      BY <2>4, <1>0, AfterStep DEF AddException, To
    <3> QED
      BY <3>1 DEF Inv, RuleInv
  <2>5. CASE ReplaceDefault
    BY <2>5, <1>0, AfterStep DEF Inv, RuleInv, ReplaceDefault, Replace, To,
       peers
  <2>6. CASE OpenRaw
    BY <2>6, <1>0, AfterStep DEF Inv, RuleInv, OpenRaw, To, peers, routes
  <2>7. CASE Publish
    BY <2>7, <1>0, AfterStep DEF Inv, RuleInv, Publish, To, peers, routes
  <2> QED BY <1>2, <2>1, <2>2, <2>3, <2>4, <2>5, <2>6, <2>7 DEF Plane
<1>3. CASE Cleanup
  <2>1. CASE Leave
    BY <2>1, <1>0, AfterStep DEF Inv, RuleInv, Leave, To, peers, routes
  <2>2. CASE ClosePlane
    BY <2>2, <1>0, AfterStep DEF Inv, RuleInv, ClosePlane, To, peers, routes
  <2>3. CASE JoinRaw
    BY <2>3, <1>0, AfterStep DEF Inv, RuleInv, JoinRaw, To, peers, routes
  <2>4. CASE RestoreDefault
    BY <2>4, <1>0, AfterStep DEF Inv, RuleInv, RestoreDefault, Replace, To,
       peers
  <2>5. CASE CleanupRoutes
    BY <2>5, <1>0, AfterStep DEF Inv, RuleInv, CleanupRoutes, To, peers
  <2>6. CASE DropRule("unhookTunnel", "tunnel")
    BY <2>6, <1>0, AfterStep DEF Inv, RuleInv, DropRule, To, peers, routes
  <2>7. CASE DropRule("unhookLearn", "learning")
    BY <2>7, <1>0, AfterStep DEF Inv, RuleInv, DropRule, To, peers, routes
  <2>8. CASE Join
    BY <2>8, <1>0, AfterStep DEF Inv, RuleInv, Join, To, peers, routes
  <2>9. CASE Close
    BY <2>9, <1>0, AfterStep DEF Inv, RuleInv, Close, WithoutTun, To, peers
  <2> QED BY <1>3, <2>1, <2>2, <2>3, <2>4, <2>5, <2>6, <2>7, <2>8, <2>9 DEF
             Cleanup
<1>4. CASE Threads
  BY <1>4, <1>0, ThreadsKeep DEF Inv, RuleInv
<1>5. CASE Signal
  BY <1>5, <1>0, AfterStep DEF Inv, RuleInv, Signal, peers,
     routes
<1>6. CASE Killed
  BY <1>6, <1>0, AfterStep DEF Inv, RuleInv, Killed, To,
     WithoutTun, NoFds, NoThreads
<1>7. CASE UNCHANGED vars
  BY <1>7, <1>0, AfterStep DEF Inv, RuleInv, vars
<1> QED BY <1>0, <1>1, <1>2, <1>3, <1>4, <1>5, <1>6, <1>7 DEF Next

\* Who may be using what is kept.
LEMMA UseStep == Inv /\ [HNext]_hvars => UseInv'
<1> SUFFICES ASSUME Inv, [HNext]_hvars
             PROVE  UseInv'
  OBVIOUS
<1>0. [Next]_vars /\ found' = IF run' # run THEN Marks ELSE found
  BY DEF HNext, hvars, vars
<1>1. CASE SetUp
  <2>1. CASE Start
    BY <2>1, <1>0, AfterStep DEF Inv, TypeOK, DefaultInv, UseInv, Early,
       Routed, Taking, Taken, Start, NoFds, NoThreads
  <2>2. CASE Pass
    BY <2>2, <1>0, AfterStep DEF Inv, TypeOK, DefaultInv, UseInv, Early,
       Routed, Taking, Taken, Pass, To, Waits, peers, routes
  <2>3. CASE GiveUp
    BY <2>3, <1>0, AfterStep DEF Inv, TypeOK, DefaultInv, UseInv, Early,
       Routed, Taking, Taken, GiveUp, To, Waits, peers, routes
  <2>4. CASE CallFails
    BY <2>4, <1>0, AfterStep DEF Inv, TypeOK, DefaultInv, UseInv, Early,
       Routed, Taking, Taken, CallFails, To, peers, routes
  <2>5. CASE StartUdp
    BY <2>5, <1>0, AfterStep DEF Inv, TypeOK, DefaultInv, UseInv, Early,
       Routed, Taking, Taken, StartUdp, StartThread, To, routes
  <2>6. CASE StartTunnel
    BY <2>6, <1>0, AfterStep DEF Inv, TypeOK, DefaultInv, UseInv, Early,
       Routed, Taking, Taken, StartTunnel, StartThread, To, routes
  <2>7. CASE StartRaw
    BY <2>7, <1>0, AfterStep DEF Inv, TypeOK, DefaultInv, UseInv, Early,
       Routed, Taking, Taken, StartRaw, StartThread, To, routes
  <2>8. CASE InstallRule("hookLearn", "learning")
    BY <2>8, <1>0, AfterStep DEF Inv, TypeOK, DefaultInv, UseInv, Early,
       Routed, Taking, Taken, InstallRule, To, peers, routes
  <2>9. CASE DropRule("dropLearn", "learning")
    BY <2>9, <1>0, AfterStep DEF Inv, TypeOK, DefaultInv, UseInv, Early,
       Routed, Taking, Taken, DropRule, To, peers, routes
  <2>10. CASE InstallRule("hookTunnel", "tunnel")
    BY <2>10, <1>0, AfterStep DEF Inv, TypeOK, DefaultInv, UseInv, Early,
       Routed, Taking, Taken, InstallRule, To, peers, routes
  <2> QED BY <1>1, <2>1, <2>2, <2>3, <2>4, <2>5, <2>6, <2>7, <2>8, <2>9,
  <2>10 DEF SetUp
<1>2. CASE Plane
  <2>1. CASE OpenTun
    BY <2>1, <1>0, AfterStep DEF Inv, TypeOK, DefaultInv, UseInv, Early,
       Routed, Taking, Taken, OpenTun, To, peers, routes
  <2>2. CASE TunFails
    BY <2>2, <1>0, AfterStep DEF Inv, TypeOK, DefaultInv, UseInv, Early,
       Routed, Taking, Taken, TunFails, To, peers, routes
  <2>3. CASE LoadRoute
    BY <2>3, <1>0, AfterStep DEF Inv, TypeOK, DefaultInv, UseInv, Early,
       Routed, Taking, Taken, LoadRoute, To, peers, routes
  <2>4. CASE AddException
    BY <2>4, <1>0, AfterStep DEF Inv, TypeOK, DefaultInv, UseInv, Early,
       Routed, Taking, Taken, AddException, To, peers
  <2>5. CASE ReplaceDefault
    BY <2>5, <1>0, AfterStep DEF Inv, TypeOK, DefaultInv, UseInv, Early,
       Routed, Taking, Taken, ReplaceDefault, Replace, To, peers
  <2>6. CASE OpenRaw
    BY <2>6, <1>0, AfterStep DEF Inv, TypeOK, DefaultInv, UseInv, Early,
       Routed, Taking, Taken, OpenRaw, To, peers, routes
  <2>7. CASE Publish
    BY <2>7, <1>0, AfterStep DEF Inv, TypeOK, DefaultInv, UseInv, Early,
       Routed, Taking, Taken, Publish, To, peers, routes
  <2> QED BY <1>2, <2>1, <2>2, <2>3, <2>4, <2>5, <2>6, <2>7 DEF Plane
<1>3. CASE Cleanup
  <2>1. CASE Leave
    BY <2>1, <1>0, AfterStep DEF Inv, TypeOK, DefaultInv, UseInv, Early,
       Routed, Taking, Taken, Leave, To, peers, routes
  <2>2. CASE ClosePlane
    BY <2>2, <1>0, AfterStep DEF Inv, TypeOK, DefaultInv, UseInv, Early,
       Routed, Taking, Taken, ClosePlane, To, peers, routes
  <2>3. CASE JoinRaw
    BY <2>3, <1>0, AfterStep DEF Inv, TypeOK, DefaultInv, UseInv, Early,
       Routed, Taking, Taken, JoinRaw, To, peers, routes
  <2>4. CASE RestoreDefault
    BY <2>4, <1>0, AfterStep DEF Inv, TypeOK, DefaultInv, UseInv, Early,
       Routed, Taking, Taken, RestoreDefault, Replace, To, peers
  <2>5. CASE CleanupRoutes
    BY <2>5, <1>0, AfterStep DEF Inv, TypeOK, DefaultInv, UseInv, Early,
       Routed, Taking, Taken, CleanupRoutes, To, peers
  <2>6. CASE DropRule("unhookTunnel", "tunnel")
    BY <2>6, <1>0, AfterStep DEF Inv, TypeOK, DefaultInv, UseInv, Early,
       Routed, Taking, Taken, DropRule, To, peers, routes
  <2>7. CASE DropRule("unhookLearn", "learning")
    BY <2>7, <1>0, AfterStep DEF Inv, TypeOK, DefaultInv, UseInv, Early,
       Routed, Taking, Taken, DropRule, To, peers, routes
  <2>8. CASE Join
    BY <2>8, <1>0, AfterStep DEF Inv, TypeOK, DefaultInv, UseInv, Early,
       Routed, Taking, Taken, Join, To, peers, routes
  <2>9. CASE Close
    BY <2>9, <1>0, AfterStep DEF Inv, TypeOK, DefaultInv, UseInv, Early,
       Routed, Taking, Taken, Close, WithoutTun, To, peers
  <2> QED BY <1>3, <2>1, <2>2, <2>3, <2>4, <2>5, <2>6, <2>7, <2>8, <2>9 DEF
             Cleanup
<1>4. CASE Threads
  <2>1. CASE UdpStops
    BY <2>1, <1>0 DEF Inv, TypeOK, UseInv, UdpStops, Elsewhere, routes
  <2>2. CASE UdpEnds
    BY <2>2, <1>0 DEF Inv, TypeOK, UseInv, UdpEnds, Elsewhere, routes
  <2>3. CASE TunnelOpens
    BY <2>3, <1>0 DEF Inv, TypeOK, UseInv, TunnelOpens, Elsewhere, routes
  <2>4. CASE TunnelFails
    BY <2>4, <1>0 DEF Inv, TypeOK, UseInv, TunnelFails, Raise, Elsewhere, routes
  <2>5. CASE TakePacket
    BY <2>5, <1>0 DEF Inv, TypeOK, UseInv, Taking, TakePacket, Elsewhere, routes
  <2>6. CASE WriteTun
    BY <2>6, <1>0 DEF Inv, TypeOK, UseInv, WriteTun, Elsewhere, routes
  <2>7. CASE TunnelBreaks
    BY <2>7, <1>0 DEF Inv, TypeOK, UseInv, TunnelBreaks, Raise, Elsewhere,
       routes
  <2>8. CASE TunnelEnds
    BY <2>8, <1>0 DEF Inv, TypeOK, UseInv, TunnelEnds, Elsewhere, routes
  <2>9. CASE RawFails
    BY <2>9, <1>0 DEF Inv, TypeOK, UseInv, RawFails, Raise, Elsewhere, routes
  <2>10. CASE RawEnds
    BY <2>10, <1>0 DEF Inv, TypeOK, UseInv, RawEnds, Stopped, Elsewhere, routes
  <2> QED BY <1>4, <2>1, <2>2, <2>3, <2>4, <2>5, <2>6, <2>7, <2>8, <2>9,
  <2>10 DEF Threads
<1>5. CASE Signal
  BY <1>5, <1>0, AfterStep DEF Inv, TypeOK, DefaultInv,
     UseInv, Early, Routed, Taking, Taken, Signal, peers, routes
<1>6. CASE Killed
  BY <1>6, <1>0, AfterStep DEF Inv, TypeOK, DefaultInv,
     UseInv, Early, Routed, Taking, Taken, Killed, To, WithoutTun, NoFds,
     NoThreads
<1>7. CASE UNCHANGED vars
  BY <1>7, <1>0, AfterStep DEF Inv, TypeOK,
     DefaultInv, UseInv, Early, Routed, Taking, Taken, vars
<1> QED BY <1>0, <1>1, <1>2, <1>3, <1>4, <1>5, <1>6, <1>7 DEF Next

\* The first state of the host satisfies all of it.
LEMMA InvInit == HInit => Inv
<1> SUFFICES ASSUME HInit
             PROVE  Inv
  OBVIOUS
<1>1. TypeOK
  <2>1. pc \in Pcs /\ run \in 0 .. MaxRuns
    BY PcsAre, RunsAssumption DEF HInit, Init
  <2>2. default \in [{"first", "second"} -> {"none", "gateway", "tun"}]
    BY DEF HInit, Init
  <2> QED BY <2>1, <2>2 DEF HInit, Init, TypeOK, NoFds, NoThreads
<1>2. DefaultInv /\ ExceptionInv /\ RuleInv
  BY <1>1 DEF HInit, Init, TypeOK, DefaultInv, ExceptionInv, RuleInv, Early,
     Routed, Taking, Taken
<1>3. UseInv
  BY DEF HInit, Init, UseInv, Early, Routed, Taking, Taken, NoFds, NoThreads
<1> QED BY <1>1, <1>2, <1>3 DEF Inv

\* The invariant holds in every state of every run.
THEOREM InvAlways == HSpec => []Inv
<1>1. Inv /\ [HNext]_hvars => Inv'
  BY TypeStep, DefaultStep, ExceptionStep, RuleStep, UseStep DEF Inv
<1> QED BY <1>1, InvInit, PTL DEF HSpec
-----------------------------------------------------------------------------
\* Every variable keeps its type, whatever fails.
THEOREM TypeCorrect == HSpec => []TypeOK
<1>1. Inv => TypeOK
  BY DEF Inv
<1> QED BY <1>1, InvAlways, PTL

\* While routes lead into the tunnel the proxy is reached around it; the raw
\* thread, which must not read its own segments, runs only then.
THEOREM ProxyIsReachable == HSpec => []ProxyReachable
<1>1. Inv => ProxyReachable
  <2> SUFFICES ASSUME Inv
               PROVE  ProxyReachable
    OBVIOUS
  <2>1. ASSUME Effective = "tun", ~harm
        PROVE  exception = "gateway"
    <3>1. default["first"] = "tun"
      BY <2>1 DEF Inv, DefaultInv, Effective
    <3>2. "default" \in noted /\ pc # "idle" /\ pc \notin Early \cup {"replace"} \cup Taken
      BY <2>1, <3>1 DEF Inv, DefaultInv
    <3>3. pc \in Routed \cup Taking
      BY <3>2, PcsAre DEF Inv, TypeOK, Early, Routed, Taking, Taken
    <3> QED BY <3>2, <3>3 DEF Inv, ExceptionInv
  <2>2. ASSUME thread["raw"] = "run"
        PROVE  Effective = "tun" /\ exception = "gateway"
    <3>1. "default" \in noted /\ pc \in Routed \cup Taking
      BY <2>2 DEF Inv, UseInv, Routed, Taking
    <3> QED BY <3>1 DEF Inv, DefaultInv, ExceptionInv, Effective
  <2> QED BY <2>1, <2>2 DEF ProxyReachable
<1> QED BY <1>1, InvAlways, PTL

\* No thread uses a descriptor that main has closed.
THEOREM DescriptorsStayOpen == HSpec => []DescriptorsOpen
<1>1. Inv => DescriptorsOpen
  BY DEF Inv, TypeOK, UseInv, DescriptorsOpen
<1> QED BY <1>1, InvAlways, PTL

\* The last step of a cleanup in which nothing failed gives the host back.
LEMMA CloseGivesBack ==
  ASSUME Inv, Inv', Close, ~harm
  PROVE  Marks' \subseteq found
<1>1. pc = "close" /\ rules' = rules /\ exception' = exception /\ noted' = noted
  BY DEF Close, To
<1>2. rules \subseteq found
  BY <1>1 DEF Inv, RuleInv, TypeOK
<1>3. exception = "gateway" => <<"exception", 0>> \in found
  BY <1>1 DEF Inv, ExceptionInv, Taken
<1>4. Effective' = Effective
  BY <1>1 DEF Close, WithoutTun, Inv, TypeOK, DefaultInv, Effective, Taken
<1>5. Effective # "gateway" => <<"cut off", 0>> \in found
  BY <1>1 DEF Inv, DefaultInv, Effective, Taken
<1> QED BY <1>1, <1>2, <1>3, <1>4, <1>5 DEF Marks

\* A run of the client borrows its host: its start, its work, its end and its
\* loss are the steps of BorrowedHost.
THEOREM HostIsGivenBack == HSpec => HostGivenBack
<1>1. HInit => Borrowed!Init
  BY DEF HInit, Init, Borrowed!Init, Marks, Effective
<1>2. Inv /\ Inv' /\ [HNext]_hvars => [Borrowed!Next]_Borrowed!vars
  <2> SUFFICES ASSUME Inv, Inv', [HNext]_hvars
               PROVE  [Borrowed!Next]_Borrowed!vars
    OBVIOUS
  <2>0. [Next]_vars /\ found' = IF run' # run THEN Marks ELSE found
    BY DEF HNext, hvars, vars
  <2>1. CASE Start
    <3>1. run' # run /\ Marks' = Marks /\ pc = "idle" /\ pc' # "idle"
      BY <2>1 DEF Start, Inv, TypeOK, Marks, Effective, routes
    <3> QED BY <2>0, <3>1 DEF Borrowed!Next, Borrowed!Borrow
  <2>2. CASE Close
    <3>1. pc # "idle" /\ pc' = "idle" /\ harm' = harm /\ found' = found
      BY <2>0, <2>2 DEF Close, To
    <3>2. CASE harm
      BY <3>1, <3>2 DEF Borrowed!Next, Borrowed!Lose
    <3>3. CASE ~harm
      BY <2>2, <3>1, <3>3, CloseGivesBack DEF Borrowed!Next, Borrowed!GiveBack
    <3> QED BY <3>2, <3>3
  <2>3. CASE Killed
    BY <2>0, <2>3 DEF Killed, To, Borrowed!Next, Borrowed!Lose
  <2>4. ASSUME SetUp \/ Plane \/ Cleanup \/ Threads \/ Signal, ~Start, ~Close
        PROVE  \/ pc # "idle" /\ pc' # "idle" /\ run' = run
               \/ UNCHANGED <<pc, run, rules, exception, default, harm>>
    <3>1. CASE SetUp
      BY <3>1, <2>4, AfterStep, PcsAre DEF SetUp, Start, NoFds, NoThreads,
         Pass, To, Waits, peers, routes, GiveUp, CallFails, StartUdp,
         StartThread, StartTunnel, StartRaw, InstallRule, DropRule
    <3>2. CASE Plane
      BY <3>2, <2>4, AfterStep, PcsAre DEF Plane, OpenTun, To, peers, routes,
         TunFails, LoadRoute, AddException, ReplaceDefault, Replace, OpenRaw,
         Publish
    <3>3. CASE Cleanup
      BY <3>3, <2>4, AfterStep, PcsAre DEF Cleanup, Leave, To, peers, routes,
         ClosePlane, JoinRaw, RestoreDefault, Replace, CleanupRoutes, DropRule,
         Join, Close, WithoutTun
    <3>4. CASE Threads
      BY <3>4 DEF Threads, UdpStops, Elsewhere, routes, UdpEnds, TunnelOpens,
         TunnelFails, Raise, TakePacket, WriteTun, TunnelBreaks, TunnelEnds,
         RawFails, RawEnds, Stopped
    <3>5. CASE Signal
      BY <3>5 DEF Signal, routes
    <3> QED BY <2>4, <3>1, <3>2, <3>3, <3>4, <3>5
  <2>5. CASE UNCHANGED vars
    BY <2>0, <2>5 DEF vars, Borrowed!vars, Marks, Effective
  <2>6. CASE (SetUp \/ Plane \/ Cleanup \/ Threads \/ Signal) /\ ~Start /\ ~Close
    <3>1. CASE pc # "idle" /\ pc' # "idle" /\ run' = run
      BY <2>0, <3>1 DEF Borrowed!Next, Borrowed!Use
    <3>2. CASE UNCHANGED <<pc, run, rules, exception, default, harm>>
      BY <2>0, <3>2 DEF Borrowed!vars, Marks, Effective
    <3> QED BY <2>4, <2>6, <3>1, <3>2
  <2> QED BY <2>0, <2>1, <2>2, <2>3, <2>5, <2>6 DEF Next
<1> QED BY <1>1, <1>2, InvAlways, PTL DEF HSpec, HostGivenBack, Borrowed!Spec
-----------------------------------------------------------------------------
\* What other runs have left: no rule of this run was there when it started,
\* and the rest is still there.
LeftInv == /\ \A k \in {"learning", "tunnel"}, n \in Runs :
                <<k, n>> \in rules => n <= run
           /\ pc # "idle" => \A k \in {"learning", "tunnel"} : <<k, run>> \notin found
           /\ LeftoversKept

\* A step that takes no mark away but those of this run.
LEMMA KeepsLeftovers ==
  ASSUME Inv, LeftInv, TypeOK', found' = found, run' = run,
         \A r \in rules : \/ r \in rules'
                          \/ pc # "idle" /\ \E k \in {"learning", "tunnel"} : r = <<k, run>>,
         exception = "gateway" =>
           exception' = "gateway" \/ <<"exception", 0>> \notin found
  PROVE  LeftoversKept'
<1> SUFFICES ASSUME NEW e \in found, e # <<"cut off", 0>>
             PROVE  e \in Marks'
  BY DEF LeftoversKept
<1>1. e \in Marks
  BY DEF LeftInv, LeftoversKept
<1>2. CASE e \in rules
  <2>1. pc # "idle" => ~ \E k \in {"learning", "tunnel"} : e = <<k, run>>
    BY DEF LeftInv
  <2>2. e \in rules'
    BY <1>2, <2>1
  <2> QED BY <2>2 DEF Marks
<1>3. CASE e = <<"exception", 0>> /\ exception = "gateway"
  BY <1>3 DEF Marks
<1> QED BY <1>1, <1>2, <1>3 DEF Marks

\* Only a drop of a rule and the cleanup of the routes take a mark away, and
\* they take what this run has noted.
LEMMA LeftStep == Inv /\ Inv' /\ LeftInv /\ [HNext]_hvars => LeftInv'
<1> SUFFICES ASSUME Inv, Inv', LeftInv, [HNext]_hvars
             PROVE  LeftInv'
  OBVIOUS
<1>0. [Next]_vars /\ found' = IF run' # run THEN Marks ELSE found
  BY DEF HNext, hvars, vars
<1>1. CASE Start
  <2>1. run \in Nat /\ run' = run + 1 /\ rules' = rules /\ Marks' = Marks
    BY <1>1 DEF Start, Inv, TypeOK, routes, Marks, Effective
  <2>2. found' = Marks
    BY <1>0, <2>1
  <2>3. \A k \in {"learning", "tunnel"}, n \in Runs : <<k, n>> \in rules => n <= run /\ n # run'
    BY <2>1 DEF LeftInv, Runs
  <2>4. \A k \in {"learning", "tunnel"} : <<k, run'>> \notin rules
    BY <2>1, <2>3 DEF Inv, TypeOK
  <2>5. \A k \in {"learning", "tunnel"} : <<k, run'>> \notin Marks
    BY <2>1, <2>4 DEF Marks
  <2>6. \A k \in {"learning", "tunnel"}, n \in Runs : <<k, n>> \in rules' => n <= run'
    BY <2>1, <2>3 DEF Runs
  <2> QED BY <2>1, <2>2, <2>5, <2>6 DEF LeftInv, LeftoversKept
<1>2. CASE [Next]_vars /\ ~Start
  <2>1. run' = run /\ found' = found /\ (pc' # "idle" => pc # "idle")
    <3>1. run' = run /\ (pc' # "idle" => pc # "idle")
      BY <1>2 DEF Next, SetUp, Plane, Cleanup, Threads, Pass, GiveUp, CallFails,
         StartUdp, StartTunnel, StartRaw, StartThread, InstallRule, DropRule,
         OpenTun, TunFails, LoadRoute, AddException, ReplaceDefault, OpenRaw,
         Publish, Leave, ClosePlane, JoinRaw, RestoreDefault, CleanupRoutes,
         Join, Close, UdpStops, UdpEnds, TunnelOpens, TunnelFails, TakePacket,
         WriteTun, TunnelBreaks, TunnelEnds, RawFails, RawEnds, Elsewhere,
         Signal, Killed, To, Waits, vars
    <3> QED BY <1>0, <3>1
  <2>2. CASE \E p \in Pcs, kind \in {"learning", "tunnel"} : InstallRule(p, kind)
    <3> PICK p \in Pcs, kind \in {"learning", "tunnel"} : InstallRule(p, kind)
      BY <2>2
    <3>1. rules' = rules \cup {<<kind, run>>} /\ exception' = exception
      BY DEF InstallRule, routes
    <3>2. LeftoversKept'
      BY <2>1, <3>1, KeepsLeftovers DEF Inv
    <3>3. run \in Nat
      BY DEF Inv, TypeOK
    <3> QED BY <2>1, <3>1, <3>2, <3>3 DEF LeftInv
  <2>3. CASE \E p \in Pcs \ {"idle"}, kind \in {"learning", "tunnel"} : DropRule(p, kind)
    <3> PICK p \in Pcs \ {"idle"}, kind \in {"learning", "tunnel"} : DropRule(p, kind)
      BY <2>3
    <3>1. /\ pc # "idle" /\ exception' = exception
          /\ rules' \subseteq rules /\ rules \ {<<kind, run>>} \subseteq rules'
      BY DEF DropRule, routes
    <3>2. LeftoversKept'
      BY <2>1, <3>1, KeepsLeftovers DEF Inv
    <3> QED BY <2>1, <3>1, <3>2 DEF LeftInv
  <2>4. CASE CleanupRoutes
    <3>1. rules' = rules /\ pc = "unroute"
      BY <2>4 DEF CleanupRoutes
    <3>2. exception = "gateway" => exception' = "gateway" \/ <<"exception", 0>> \notin found
      BY <2>4, <3>1 DEF CleanupRoutes, Inv, ExceptionInv
    <3>3. LeftoversKept'
      BY <2>1, <3>1, <3>2, KeepsLeftovers DEF Inv
    <3> QED BY <2>1, <3>1, <3>3 DEF LeftInv
  <2>5. CASE rules' = rules /\ (exception = "gateway" => exception' = "gateway")
    <3>1. LeftoversKept'
      BY <2>1, <2>5, KeepsLeftovers DEF Inv
    <3> QED BY <2>1, <2>5, <3>1 DEF LeftInv
  <2>6. \/ \E p \in Pcs, kind \in {"learning", "tunnel"} : InstallRule(p, kind)
        \/ \E p \in Pcs \ {"idle"}, kind \in {"learning", "tunnel"} : DropRule(p, kind)
        \/ CleanupRoutes
        \/ rules' = rules /\ (exception = "gateway" => exception' = "gateway")
    <3>1. CASE SetUp
      <4>1. {"hookLearn", "dropLearn", "hookTunnel"} \subseteq Pcs \ {"idle"}
        BY PcsAre
      <4> QED
        BY <1>2, <3>1, <4>1 DEF SetUp, Pass, GiveUp, CallFails, StartUdp,
           StartTunnel, StartRaw, StartThread, routes
    <3>2. CASE Plane
      BY <3>2 DEF Plane, OpenTun, TunFails, LoadRoute, AddException,
         ReplaceDefault, OpenRaw, Publish, routes
    <3>3. CASE Cleanup
      BY <3>3, PcsAre DEF Cleanup, Leave, ClosePlane, JoinRaw, RestoreDefault,
         Join, Close, routes
    <3>4. CASE Threads
      BY <3>4, ThreadsKeep
    <3>5. CASE Signal \/ Killed \/ UNCHANGED vars
      BY <3>5 DEF Signal, Killed, vars, routes
    <3> QED BY <1>2, <3>1, <3>2, <3>3, <3>4, <3>5 DEF Next
  <2> QED BY <2>2, <2>3, <2>4, <2>5, <2>6
<1> QED BY <1>0, <1>1, <1>2

\* No run takes away what another has left: a route that it did not add, a
\* rule of another connection.
THEOREM LeftoversStay == HSpec => []LeftoversKept
<1>1. HInit => LeftInv
  BY DEF HInit, Init, LeftInv, LeftoversKept
<1>2. Inv /\ Inv' /\ LeftInv /\ [HNext]_hvars => LeftInv'
  BY LeftStep
<1>3. LeftInv => LeftoversKept
  BY DEF LeftInv
<1> QED BY <1>1, <1>2, <1>3, InvAlways, PTL DEF HSpec
=============================================================================
