------------------------------ MODULE ProxyHost ------------------------------
(***************************************************************************)
(* ProxySession with a note of what each session met on its host, and what *)
(* the proxy owes the host: its properties, and the refinement of          *)
(* BorrowedHost.                                                           *)
(***************************************************************************)
EXTENDS ProxySession

VARIABLES met,     \* history: the rules that were there when the session started
          missed   \* history: stop came up between a command and its note

hvars == <<vars, met, missed>>

Notes == {"noteLearn", "noteTunnel", "noteNat"}

Installed == [rules |-> rules, nat |-> nat]

HInit == Init /\ met = Installed /\ missed = FALSE

HNext == /\ Next
         /\ met' = IF sess' # sess THEN Installed ELSE met
         /\ missed' = IF sess' # sess THEN FALSE
                      ELSE missed \/ (pc \in Notes /\ ~Stopped /\ Stopped')

HSpec == HInit /\ [][HNext]_hvars

\* The cleanup goes on, and so does every thread: their polls have timeouts
\* of at most a second.  Nothing is assumed of the set-up and of what may fail.
HFairSpec == /\ HSpec
             /\ WF_vars(Cleanup)
             /\ WF_vars(UdpEnds)
             /\ WF_vars(TunnelOpens \/ WriteTun \/ TunnelEnds)
             /\ WF_vars(RawEnds)
-----------------------------------------------------------------------------
Over == pc \in {"accept", "exit"}

\* A connection never has two rules at once.  The learning rule and the
\* tunnel rule have the same text and are deleted by three pieces of code
\* (proxy_nfqueue.cpp:605, main.cpp:276, 450): a second rule that outlived
\* the session would send its packets to a queue nobody reads.
OneRule == \A s \in Sessions : rules[s] <= 1

\* While data_plane_ready is up everything a packet needs is there, whatever
\* the other threads did while main was building it (main.cpp:407-417):
\* the rule, the NAT rules, both descriptors, the raw thread, once started.
PlaneComplete == plane => /\ rules[sess] = 1
                          /\ \A r \in NatRules : nat[r] >= 1
                          /\ \A d \in DOMAIN fd : fd[d] = "open"
                          /\ thread["raw"] # "off"

\* A thread never uses a descriptor that main has closed: the callback has
\* read data_plane_ready before the cleanup cleared it, the raw thread may
\* be anywhere in its loop (main.cpp:444-482).
DescriptorsOpen == /\ hand => fd["tun"] = "open"
                   /\ thread["raw"] = "run" => \A d \in DOMAIN fd : fd[d] = "open"

\* When main waits for the next client nothing of the last session runs or
\* is open, wherever in the set-up it was stopped.
NothingRuns == Over => /\ \A t \in DOMAIN thread : thread[t] \in {"off", "over"}
                       /\ \A d \in DOMAIN fd : fd[d] # "open"
                       /\ queue = "none"
                       /\ ~plane /\ ~hand

\* The cleanup comes to its end: no join waits for ever for a thread that
\* does not look at the flags main has raised (main.cpp:444-482).
CleanupEnds == pc = "closing" ~> Over

\* One mark for each copy of each rule.
MarksOf(i) ==
  (UNION { {<<"rule", s, n>> : n \in 1 .. i.rules[s]} : s \in Sessions })
  \cup (UNION { {<<"nat", r, n>> : n \in 1 .. i.nat[r]} : r \in NatRules })

\* A session leaves no rule on the host that it did not find there, from
\* wherever it came to its cleanup, whatever failed and whatever the sessions
\* before it left.  The one exception is a stop that comes up between the
\* command that installs a rule and the test of stop before the flag that
\* notes it (main.cpp:206, 289, 375).
Borrowed == INSTANCE BorrowedHost
              WITH phase <- IF ~Over THEN "held"
                            ELSE IF missed THEN "lost" ELSE "free",
                   marks <- MarksOf(Installed),
                   found <- MarksOf(met)

HostGivenBack == Borrowed!Spec

\* proxy_nfqueue.cpp:599-604, "Otherwise, packets can hit an NFQUEUE rule
\* with no userspace queue attached during the learning -> tunnel
\* transition": between the capture of the marker and the READY handshake
\* a rule has a consumer.
TransitionCovered ==
  pc \in {"unhook", "detach", "consume", "forget", "dropLearn", "hookTunnel",
          "noteTunnel", "startTunnel", "waitNfq"} /\ flags = {} /\ ~signal
    => rules[sess] = 0 \/ queue # "none"

\* main.cpp:271: a learning rule that a failed learning left behind is
\* cleaned up before the tunnel rule would be installed.
LearningRuleGone == pc = "hookTunnel" => rules[sess] = 0
=============================================================================
