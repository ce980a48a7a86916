---------------------------- MODULE MCDashboard ----------------------------
(***************************************************************************)
(* Dashboard for TLC.                                                      *)
(***************************************************************************)
EXTENDS Dashboard

CONSTANTS p1, p2, a1  \* peers, an address
=============================================================================
