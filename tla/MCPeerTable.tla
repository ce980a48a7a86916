---------------------------- MODULE MCPeerTable ----------------------------
(***************************************************************************)
(* PeerTable for TLC: the nodes and their first addresses.                 *)
(***************************************************************************)
EXTENDS PeerTable

CONSTANTS n1, n2, n3,     \* nodes
          a1, a2, a3, a4  \* addresses

\* Each node on a machine of its own; a4 is free at first.
FirstAddresses ==
  [n \in Node |-> CASE n = n1 -> a1 [] n = n2 -> a2 [] OTHER -> a3]
=============================================================================
