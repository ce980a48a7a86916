----------------------------- MODULE MCStartup -----------------------------
(***************************************************************************)
(* Startup for TLC: who runs where, and what other programs hold.          *)
(***************************************************************************)
EXTENDS Startup

CONSTANTS i1, i2, i3, i4,  \* processes
          h1, h2           \* machines

\* i4 has a machine of its own.
Places == [i \in Instance |-> IF i = i4 THEN h2 ELSE h1]

Ports == [s \in Server |-> IF s = "tcp" THEN 7 ELSE 3]

\* On the second machine all ports are taken.
Others == [h \in Host |-> IF h = h1 THEN {} ELSE {3, 7, 8, 9}]

\* The dashboards of a machine have one port.
Offsets == [s \in Server |-> IF s = "tcp" THEN 2 ELSE 0]
=============================================================================
