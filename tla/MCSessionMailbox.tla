-------------------------- MODULE MCSessionMailbox -------------------------
(***************************************************************************)
(* SessionMailbox for TLC.                                                 *)
(***************************************************************************)
EXTENDS SessionMailbox, TLC

CONSTANTS n1, n2  \* nodes

\* Every browser has the dashboard of every node open.
AtEveryNode == [n \in Node |-> Client]

\* Every address leads to the node it was recorded for.
DirectRoutes == [n \in Node |-> {n}]

\* Bounds: one failure, a connection that breaks or a restart, and three dials
\* between the two nodes, enough for a crossing and another attempt.
Bounds ==
    /\ errors + restarts <= 1
    /\ opened[n1] + opened[n2] <= 3

Symmetry == Permutations(Node)
=============================================================================
