----------------------------- MODULE StartGate -----------------------------
(***************************************************************************)
(* What the split between `create` and `start` promises (container/fifo.rs *)
(* and the two paths that call it, start and run in container/mod.rs): the *)
(* init is let through at most once, only after somebody has asked for it, *)
(* and exactly one of those who asked can be told that it started the      *)
(* container.  ExecFifo implements it.                                     *)
(***************************************************************************)
CONSTANT Starters

VARIABLES
    asked,      \* the starters that have come to the gate
    open,       \* the init has been let through
    winner      \* the starters that know they opened it: none or one

gateVars == <<asked, open, winner>>

GateInit == asked = {} /\ open = FALSE /\ winner = {}

Ask(s) == asked' = asked \cup {s} /\ UNCHANGED <<open, winner>>

Pass ==
    /\ asked # {}
    /\ open' = TRUE
    /\ UNCHANGED <<asked, winner>>

Win(s) ==
    /\ open
    /\ s \in asked
    /\ winner = {}
    /\ winner' = {s}
    /\ UNCHANGED <<asked, open>>

GateNext == Pass \/ \E s \in Starters : Ask(s) \/ Win(s)

GateSpec == GateInit /\ [][GateNext]_gateVars

=============================================================================
