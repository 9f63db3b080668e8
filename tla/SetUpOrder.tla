----------------------------- MODULE SetUpOrder -----------------------------
(***************************************************************************)
(* What the control protocol promises of every pairing of a client with a  *)
(* session: the order in which their queues and data planes are opened.    *)
(* The client learns when the proxy's learning queue is there to see the   *)
(* marker, a side has its tunnel queue after it has learned, and forges    *)
(* segments when both tunnel queues are there to take them.  A set-up may  *)
(* end anywhere, and the pairings have nothing to do with one another.     *)
(***************************************************************************)
CONSTANT Pairings

VARIABLE opened  \* what the two sides of each pairing have opened, ever

Sides  == {"client", "proxy"}
Stages == {"learn", "tunnel", "plane"}

Init == opened = [p \in Pairings |-> {}]

\* What must be open before side x opens its w.
Needs(x, w) == {m \in Sides \X Stages :
                  \/ w = "learn"  /\ x = "client" /\ m = <<"proxy", "learn">>
                  \/ w = "tunnel" /\ m = <<x, "learn">>
                  \/ w = "plane"  /\ m[2] = "tunnel"}

Open(p, x, w) == /\ Needs(x, w) \subseteq opened[p]
                 /\ opened' = [opened EXCEPT ![p] = @ \cup {<<x, w>>}]

Next == \E p \in Pairings, x \in Sides, w \in Stages : Open(p, x, w)

Spec == Init /\ [][Next]_opened
=============================================================================
