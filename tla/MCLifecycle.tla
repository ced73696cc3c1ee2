----------------------------- MODULE MCLifecycle -----------------------------
(***************************************************************************)
(* Lifecycle for two commands: each pair of operations in one order only,  *)
(* since the commands do not differ in anything else.                      *)
(***************************************************************************)
EXTENDS Lifecycle, Integers, Sequences

Order == <<"run", "runKeep", "kill", "killAll", "pause", "resume", "delete", "deleteForce">>
Rank(operation) == CHOOSE i \in DOMAIN Order : Order[i] = operation

MCInit ==
    /\ Init
    /\ LET first == CHOOSE c \in Clients : TRUE
       IN  \A c \in Clients : Rank(op[first]) <= Rank(op[c])

MCSpec == MCInit /\ [][Next]_vars /\ Fairness

=============================================================================
