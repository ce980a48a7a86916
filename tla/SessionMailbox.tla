-------------------------- MODULE SessionMailbox ---------------------------
(***************************************************************************)
(* Session implements Mailbox: where a text is in the tables of the nodes  *)
(* and on the network says how far it got.                                 *)
(***************************************************************************)
EXTENDS Session

Travels(b) == \E w \in wire : w.body = b
Queued(b) == \E n, m \in Node : b \in pendingMessages[n][m]

Fate == [b \in Msg |->
           IF b \notin sent THEN "new"
           ELSE IF Travels(b) THEN "travelling"
           ELSE IF b \in read THEN "read"
           ELSE IF Queued(b) THEN "queued" ELSE "lost"]

Box == INSTANCE Mailbox WITH fate <- Fate

\* Each step of the nodes does to the texts what one step of the mailbox may
\* do: storeSession sends the whole queue or none of it, a text given up is
\* not resumed, and no retry of a handshake sends a text a second time.
ImplementsMailbox == Box!Spec
=============================================================================
