---------------------------- MODULE BorrowedHost ----------------------------
(***************************************************************************)
(* What every program of this repository promises to the host it changes:  *)
(* a run that comes to its end leaves no mark of its own (a firewall rule, *)
(* a route, the loss of the default gateway).  A run may also be lost: the *)
(* process is killed, or a command that would undo something fails.        *)
(***************************************************************************)
VARIABLES phase,  \* "free", "held" by a run, or "lost" by one
          marks,  \* the marks on the host
          found   \* the marks that the present or last run met at its start

vars == <<phase, marks, found>>

Init == /\ phase = "free"
        /\ marks = {}
        /\ found = {}

Borrow == /\ phase \in {"free", "lost"}
          /\ phase' = "held"
          /\ found' = marks
          /\ UNCHANGED marks

\* Between its start and its end a run may do anything to the host.
Use == /\ phase = "held"
       /\ UNCHANGED <<phase, found>>

GiveBack == /\ phase = "held"
            /\ marks' \subseteq found
            /\ phase' = "free"
            /\ UNCHANGED found

Lose == /\ phase = "held"
        /\ phase' = "lost"
        /\ UNCHANGED found

Next == Borrow \/ Use \/ GiveBack \/ Lose

Spec == Init /\ [][Next]_vars
=============================================================================
