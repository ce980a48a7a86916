----------------------------- MODULE MCSession -----------------------------
(***************************************************************************)
(* Session for TLC: the values of its constants and the symmetry sets.     *)
(***************************************************************************)
EXTENDS Session, TLC

CONSTANTS n1, n2, n3  \* nodes

\* Every browser has the dashboard of every node open, or that of n1.
AtEveryNode == [n \in Node |-> Client]
AtOneNode == [n \in Node |-> IF n = n1 THEN Client ELSE {}]

\* Every address leads to the node it was recorded for.
DirectRoutes == [n \in Node |-> {n}]

\* n3 was given the address n1 had, which some tables still hold for n1.
StaleRoutes == [n \in Node |-> IF n = n1 THEN {n1, n3} ELSE {n}]

NodeSymmetry == Permutations(Node)
=============================================================================
