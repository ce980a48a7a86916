------------------------------ MODULE Mailbox ------------------------------
(***************************************************************************)
(* What the message service of a node promises its user about each text:   *)
(* it is accepted once; it travels at once or waits in a queue that leaves *)
(* as a whole; once it travels it is read or lost, and nothing sends it    *)
(* again.  Session implements this (module SessionMailbox).                *)
(***************************************************************************)
CONSTANT Msg

VARIABLE fate  \* how far each text got

Fates == {"new", "queued", "travelling", "read", "lost"}

TypeOK == fate \in [Msg -> Fates]

Init == fate = [b \in Msg |-> "new"]

\* The user sends b.
Accept(b) ==
  /\ fate[b] = "new"
  /\ \E f \in {"queued", "travelling"} : fate' = [fate EXCEPT ![b] = f]

\* A queue leaves as a whole, or is dropped as a whole.
Leave(queue) ==
  /\ \A b \in queue : fate[b] = "queued"
  /\ \E f \in {"travelling", "lost"} :
       fate' = [b \in Msg |-> IF b \in queue THEN f ELSE fate[b]]

\* A travelling text reaches its end.
Arrive(b) ==
  /\ fate[b] = "travelling"
  /\ \E f \in {"read", "lost"} : fate' = [fate EXCEPT ![b] = f]

Next ==
  \/ \E b \in Msg : Accept(b)
  \/ \E queue \in SUBSET Msg : Leave(queue)
  \/ \E b \in Msg : Arrive(b)

Spec == Init /\ [][Next]_fate
=============================================================================
