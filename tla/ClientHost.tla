----------------------------- MODULE ClientHost -----------------------------
(***************************************************************************)
(* ClientSession with a note of what each run met on its host, and what    *)
(* the client owes the host: its properties, and the refinement of         *)
(* BorrowedHost.                                                           *)
(***************************************************************************)
EXTENDS ClientSession

VARIABLE found   \* history: the marks on the host when the run started

hvars == <<vars, found>>

\* What a run may leave behind on its host.
Marks == rules \cup (IF exception = "gateway" THEN {<<"exception", 0>>} ELSE {})
               \cup (IF Effective = "gateway" THEN {} ELSE {<<"cut off", 0>>})

HInit == Init /\ found = Marks

HNext == Next /\ found' = IF run' # run THEN Marks ELSE found

HSpec == HInit /\ [][HNext]_hvars

\* The cleanup goes on, and so does every thread: their polls have timeouts
\* of at most a second.  Nothing is assumed of the set-up, the user, or of
\* what may fail.
HFairSpec == /\ HSpec
             /\ WF_vars(Cleanup)
             /\ WF_vars(UdpEnds)
             /\ WF_vars(TunnelOpens \/ WriteTun \/ TunnelEnds)
             /\ WF_vars(RawEnds)
-----------------------------------------------------------------------------
\* What leaves the host while a route through the tunnel exists still gets
\* to the proxy: the default route changes after the exception is there and
\* before it goes (main.cpp:231-237, 281-282), and the raw thread, whose
\* forged segments would come back to it through the tunnel, runs only in
\* between, whatever fails.
ProxyReachable ==
  /\ Effective = "tun" /\ ~harm => exception = "gateway"
  /\ thread["raw"] = "run" => Effective = "tun" /\ exception = "gateway"

\* A thread never uses a descriptor that main has closed: the callback has
\* read data_plane_ready before the cleanup cleared it, the raw thread may
\* be anywhere in its loop (main.cpp:278-312).
DescriptorsOpen == /\ hand => fd["tun"] = "open"
                   /\ thread["raw"] = "run" => \A d \in DOMAIN fd : fd[d] = "open"

\* A run leaves no mark on the host that it did not find there, from
\* wherever in the set-up or the wait it came to its cleanup, and whatever
\* the runs before it left; only one that is killed, or whose own undoing
\* fails, does (main.cpp:270-324).
Borrowed == INSTANCE BorrowedHost
              WITH phase <- IF pc # "idle" THEN "held"
                            ELSE IF harm THEN "lost" ELSE "free",
                   marks <- Marks,
                   found <- found

HostGivenBack == Borrowed!Spec

\* A run takes nothing from the host that it did not put there: the exception
\* and the rules that a killed run or a failed undoing has left stand through
\* the set-up, the refusal of `ip route add` and the cleanup of the next run
\* (client_control.cpp:66-88, main.cpp:282-290).
LeftoversKept == found \ {<<"cut off", 0>>} \subseteq Marks

\* The cleanup comes to its end: no join waits for ever for a thread that
\* does not look at the flags main has raised (main.cpp:274-300).
CleanupEnds == pc = "closing" ~> pc = "idle"
=============================================================================
