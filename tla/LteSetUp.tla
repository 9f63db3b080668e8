------------------------------ MODULE LteSetUp ------------------------------
(***************************************************************************)
(* LteControl with a note of what each pairing of a client with a session  *)
(* has opened, and the refinement of SetUpOrder.                           *)
(***************************************************************************)
EXTENDS LteControl

VARIABLE opened  \* history: what the two sides of each pairing have opened

hvars == <<vars, opened>>

Pairings == Clients \X Sessions

\* What is open of the client, or of the session, whose state is t.
OpenIn(t) == {w \in {"learn", "tunnel", "plane"} :
                \/ w = "learn"  /\ t.pc = "learn"
                \/ w = "tunnel" /\ t.tunnel = "ready"
                \/ w = "plane"  /\ t.plane}

\* What is open of the pairing p: of its client while that holds the nonce of
\* its session, and of its session while that holds the nonce of its client.
OpenOf(p) ==
  (IF cl[p[1]].pn = p[2] THEN {"client"} \X OpenIn(cl[p[1]]) ELSE {})
    \cup (IF px[p[2]].cn = p[1] THEN {"proxy"} \X OpenIn(px[p[2]]) ELSE {})

HInit == Init /\ opened = [p \in Pairings |-> {}]

HNext == Next /\ opened' = [p \in Pairings |-> opened[p] \cup OpenOf(p)']

HSpec == HInit /\ [][HNext]_hvars
-----------------------------------------------------------------------------
Order == INSTANCE SetUpOrder

\* A client and a session that hold each other's nonces open their queues and
\* data planes in the order of SetUpOrder, whatever other clients and sessions
\* do and whatever the network repeats or delivers to the wrong one: the gates
\* are PROXY_LEARN_READY, the marker, nfqueue_ready and the READY handshake
\* (client main.cpp:115-254, proxy main.cpp:200-416).
SetUpInOrder == Order!Spec
=============================================================================
