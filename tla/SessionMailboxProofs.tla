------------------------ MODULE SessionMailboxProofs ------------------------
(***************************************************************************)
(* Session implements Mailbox, for every set of nodes, browsers and texts, *)
(* any addresses, failures and restarts.                                   *)
(***************************************************************************)
EXTENDS SessionMailbox, SessionProofs

-----------------------------------------------------------------------------
(***************************************************************************)
(* How far a text got, one text at a time.                                 *)
(***************************************************************************)

LEMMA FateOf ==
  ASSUME NEW b \in Msg
  PROVE  /\ Fate[b] = IF b \notin sent THEN "new"
                      ELSE IF Travels(b) THEN "travelling"
                      ELSE IF b \in read THEN "read"
                      ELSE IF Queued(b) THEN "queued" ELSE "lost"
         /\ Fate'[b] = IF b \notin sent' THEN "new"
                       ELSE IF Travels(b)' THEN "travelling"
                       ELSE IF b \in read' THEN "read"
                       ELSE IF Queued(b)' THEN "queued" ELSE "lost"
BY DEF Fate

\* A step that changes the fate of the texts of one queue, and of no other.
LEMMA QueueStep ==
  ASSUME NEW queue \in SUBSET Msg, NEW f \in {"travelling", "lost"},
         \A b \in queue : Fate[b] = "queued" /\ Fate'[b] = f,
         \A b \in Msg \ queue : Fate'[b] = Fate[b]
  PROVE  Box!Next
<1>1. Fate' = [b \in Msg |-> IF b \in queue THEN f ELSE Fate[b]]
  <2>1. Fate' = [b \in Msg |-> Fate'[b]]
    BY DEF Fate
  <2>2. QED
    BY <2>1
<1>2. QED
  BY <1>1 DEF Box!Next, Box!Leave

\* A step that changes the fate of one text.
LEMMA TextStep ==
  ASSUME NEW b \in Msg,
         \/ /\ Fate[b] = "new"
            /\ Fate'[b] \in {"queued", "travelling"}
         \/ /\ Fate[b] = "travelling"
            /\ Fate'[b] \in {"read", "lost"},
         \A x \in Msg \ {b} : Fate'[x] = Fate[x]
  PROVE  Box!Next
<1>1. Fate' = [Fate EXCEPT ![b] = Fate'[b]]
  <2>1. /\ Fate' = [x \in Msg |-> Fate'[x]]
        /\ Fate = [x \in Msg |-> Fate[x]]
    BY DEF Fate
  <2>2. QED
    BY <2>1
<1>2. QED
  BY <1>1 DEF Box!Next, Box!Accept, Box!Arrive

-----------------------------------------------------------------------------
(***************************************************************************)
(* The steps of the nodes that move texts.                                 *)
(***************************************************************************)

\* storeSession: the queue travels when the peer has an address, and is lost
\* when it has none.
LEMMA StoreSessionLeaves ==
  ASSUME TypeOK, FateInv, NEW n \in Node, NEW m \in Node, NEW c,
         StoreSession(n, m, c), UNCHANGED <<sent, read>>
  PROVE  Box!Next
<1> USE SessionAssumption
<1> DEFINE queue == pendingMessages[n][m]
           new == Encrypted(n, m, c, queue \cup Greetings)
<1>1. queue \in SUBSET Msg
  BY DEF TypeOK
<1>2. \A i, j \in Node :
        pendingMessages'[i][j] =
          IF i = n /\ j = m THEN {} ELSE pendingMessages[i][j]
  BY DEF StoreSession, TypeOK
<1>3. wire' = wire \cup new
  BY DEF StoreSession
<1>4. \A w \in new : w.body \in queue \cup Greetings
  BY DEF Encrypted
<1>5. \A b \in queue : b \in sent /\ ~Travels(b) /\ b \notin read /\ Queued(b)
  BY DEF FateInv, OneFate, OnlySentTexts, Travels, Queued
<1>6. \A b \in queue : ~Queued(b)'
  <2> SUFFICES ASSUME NEW b \in queue, NEW i \in Node, NEW j \in Node,
                      b \in pendingMessages'[i][j]
               PROVE  FALSE
    BY DEF Queued
  <2>1. ~(i = n /\ j = m) /\ b \in pendingMessages[i][j]
    BY <1>2
  <2>2. pendingMessages[n][m] \cap pendingMessages[i][j] # {}
    BY <2>1
  <2>3. QED
    BY <2>1, <2>2 DEF FateInv, OneFate
<1>7. ASSUME NEW b \in Msg, b \notin queue PROVE Fate'[b] = Fate[b]
  <2>1. b \notin Greetings
    BY DEF SessionAssumption
  <2>2. Travels(b)' <=> Travels(b)
    BY <1>3, <1>4, <1>7, <2>1 DEF Travels
  <2>3. Queued(b)' <=> Queued(b)
    BY <1>2, <1>7 DEF Queued
  <2>4. QED
    BY <2>2, <2>3, FateOf
<1>8. CASE peers[n][m] \in Node
  <2>1. \A b \in queue : Travels(b)'
    <3> SUFFICES ASSUME NEW b \in queue PROVE \E w \in wire' : w.body = b
      BY DEF Travels
    <3> DEFINE w == [from |-> n, to |-> m, host |-> peers[n][m], key |-> c,
                     body |-> b]
    <3>1. w \in new
      BY <1>8 DEF Encrypted
    <3>2. w.body = b
      OBVIOUS
    <3>3. QED
      BY <1>3, <3>1, <3>2
  <2>2. \A b \in queue : Fate[b] = "queued" /\ Fate'[b] = "travelling"
    BY <1>1, <1>5, <2>1, FateOf
  <2>3. QED
    BY <1>1, <1>7, <2>2, QueueStep
<1>9. CASE peers[n][m] \notin Node
  <2>1. new = {}
    BY <1>9 DEF Encrypted
  <2>2. \A b \in queue : ~Travels(b)'
    BY <1>3, <1>5, <2>1 DEF Travels
  <2>3. \A b \in queue : Fate[b] = "queued" /\ Fate'[b] = "lost"
    BY <1>1, <1>5, <1>6, <2>2, FateOf
  <2>4. QED
    BY <1>1, <1>7, <2>3, QueueStep
<1>10. QED
  BY <1>8, <1>9

\* A text its user sends travels or waits.
LEMMA SendAccepts ==
  ASSUME TypeOK, FateInv, NEW n \in Node, NEW m \in Node, NEW b \in Msg,
         SendEncryptedMessage(n, m, b)
  PROVE  Box!Next
<1>1. /\ b \notin sent /\ sent' = sent \cup {b} /\ read' = read
      /\ peers[n][m] \in Node
  BY DEF SendEncryptedMessage
<1>2. ~Travels(b) /\ b \notin read
  BY <1>1 DEF FateInv, OnlySentTexts, Travels
<1>3. CASE sessions[n][m] # None
  <2> DEFINE new == Encrypted(n, m, sessions[n][m], {b})
  <2>1. wire' = wire \cup new /\ pendingMessages' = pendingMessages
    BY <1>3 DEF SendEncryptedMessage
  <2>2. \A w \in new : w.body = b
    BY DEF Encrypted
  <2>3. Travels(b)'
    <3> DEFINE w == [from |-> n, to |-> m, host |-> peers[n][m],
                     key |-> sessions[n][m], body |-> b]
    <3>1. w \in new /\ w.body = b
      BY <1>1 DEF Encrypted
    <3>2. QED
      BY <2>1, <3>1 DEF Travels
  <2>4. \A x \in Msg \ {b} : (Travels(x)' <=> Travels(x))
                             /\ (Queued(x)' <=> Queued(x))
    BY <2>1, <2>2 DEF Travels, Queued
  <2>5. Fate[b] = "new" /\ Fate'[b] = "travelling"
    BY <1>1, <2>3, FateOf
  <2>6. \A x \in Msg \ {b} : Fate'[x] = Fate[x]
    BY <1>1, <2>4, FateOf
  <2>7. QED
    BY <2>5, <2>6, TextStep
<1>4. CASE sessions[n][m] = None
  <2>1. /\ wire' = wire
        /\ pendingMessages' =
             [pendingMessages EXCEPT ![n][m] = pendingMessages[n][m] \cup {b}]
    BY <1>4 DEF SendEncryptedMessage
  <2>2. \A i, j \in Node :
          pendingMessages'[i][j] =
            IF i = n /\ j = m THEN pendingMessages[i][j] \cup {b}
                              ELSE pendingMessages[i][j]
    <3>1. pendingMessages[n] \in [Node -> SUBSET Msg]
      BY DEF TypeOK
    <3>2. QED
      BY <2>1, <3>1 DEF TypeOK
  <2>3. ~Travels(b)' /\ Queued(b)'
    BY <1>2, <2>1, <2>2 DEF Travels, Queued
  <2>4. \A x \in Msg \ {b} : (Travels(x)' <=> Travels(x))
                             /\ (Queued(x)' <=> Queued(x))
    BY <2>1, <2>2 DEF Travels, Queued
  <2>5. Fate[b] = "new" /\ Fate'[b] = "queued"
    BY <1>1, <1>2, <2>3, FateOf
  <2>6. \A x \in Msg \ {b} : Fate'[x] = Fate[x]
    BY <1>1, <2>4, FateOf
  <2>7. QED
    BY <2>5, <2>6, TextStep
<1>5. QED
  BY <1>3, <1>4

\* A message on the network is read or lost; a greeting is no text.
LEMMA MessageArrives ==
  ASSUME TypeOK, FateInv, NEW w \in wire,
         HandleServerEncryptedMessage(w) \/ LoseMessage(w)
  PROVE  Box!Next \/ UNCHANGED Fate
<1> DEFINE b == w.body
<1>1. /\ wire' = wire \ {w}
      /\ UNCHANGED <<pendingMessages, sent>>
      /\ read' = read \/ read' = read \cup ({b} \cap Msg)
  BY DEF HandleServerEncryptedMessage, LoseMessage, mapVars
<1>2. \A x \in Msg : Queued(x)' <=> Queued(x)
  BY <1>1 DEF Queued
<1>3. \A x \in Msg \ {b} : Travels(x)' <=> Travels(x)
  BY <1>1 DEF Travels
<1>4. \A x \in Msg \ {b} : Fate'[x] = Fate[x]
  BY <1>1, <1>2, <1>3, FateOf
<1>5. CASE b \in Msg
  <2>1. /\ b \in sent /\ Travels(b) /\ ~Queued(b)
        /\ ~Travels(b)'
    BY <1>1, <1>5 DEF FateInv, OneFate, OnlySentTexts, Travels, Queued
  <2>2. Fate[b] = "travelling" /\ Fate'[b] \in {"read", "lost"}
    BY <1>1, <1>2, <1>5, <2>1, FateOf
  <2>3. QED
    BY <1>4, <1>5, <2>2, TextStep
<1>6. CASE b \notin Msg
  <2>1. \A x \in Msg : Fate'[x] = Fate[x]
    BY <1>4, <1>6
  <2>2. QED
    BY <2>1 DEF Fate
<1>7. QED
  BY <1>5, <1>6

\* The process ends: its queues are lost.
LEMMA RestartLoses ==
  ASSUME TypeOK, FateInv, NEW n \in Node, Restart(n)
  PROVE  Box!Next
<1> DEFINE queue == UNION {pendingMessages[n][m] : m \in Node}
<1>1. queue \in SUBSET Msg
  BY DEF TypeOK
<1>2. /\ UNCHANGED <<wire, sent, read>>
      /\ \A i, j \in Node : pendingMessages'[i][j] =
                              IF i = n THEN {} ELSE pendingMessages[i][j]
  BY DEF Restart, TypeOK
<1>3. ASSUME NEW b \in queue
      PROVE  /\ b \in sent /\ ~Travels(b) /\ b \notin read
             /\ Queued(b) /\ ~Queued(b)' /\ ~Travels(b)'
  <2>1. PICK m \in Node : b \in pendingMessages[n][m]
    OBVIOUS
  <2>2. b \in sent /\ ~Travels(b) /\ b \notin read /\ Queued(b)
    BY <2>1 DEF FateInv, OneFate, OnlySentTexts, Travels, Queued
  <2>3. ~Queued(b)'
    <3> SUFFICES ASSUME NEW i \in Node, NEW j \in Node,
                        b \in pendingMessages'[i][j]
                 PROVE  FALSE
      BY DEF Queued
    <3>1. i # n /\ b \in pendingMessages[i][j]
      BY <1>2
    <3>2. pendingMessages[n][m] \cap pendingMessages[i][j] # {}
      BY <2>1, <3>1
    <3>3. QED
      BY <3>1, <3>2 DEF FateInv, OneFate
  <2>4. ~Travels(b)'
    BY <1>2, <2>2 DEF Travels
  <2>5. QED
    BY <2>2, <2>3, <2>4
<1>4. \A b \in Msg \ queue : (Travels(b)' <=> Travels(b))
                             /\ (Queued(b)' <=> Queued(b))
  BY <1>2 DEF Travels, Queued
<1>5. \A b \in queue : Fate[b] = "queued" /\ Fate'[b] = "lost"
  BY <1>1, <1>2, <1>3, FateOf
<1>6. \A b \in Msg \ queue : Fate'[b] = Fate[b]
  BY <1>2, <1>4, FateOf
<1>7. QED
  BY <1>1, <1>5, <1>6, QueueStep

-----------------------------------------------------------------------------
(***************************************************************************)
(* The refinement.                                                         *)
(***************************************************************************)

LEMMA BoxStep ==
  ASSUME TypeOK, FateInv, [Next]_vars
  PROVE  Box!Next \/ UNCHANGED Fate
<1>1. ASSUME UNCHANGED <<pendingMessages, wire, sent, read>>
      PROVE  UNCHANGED Fate
  BY <1>1 DEF Fate, Travels, Queued
<1>2. ASSUME NEW c \in Conn, RespondToAuth(c)
      PROVE  Box!Next \/ UNCHANGED Fate
  <2>1. hostOf[c] \in Node /\ Initiator(c) \in Node
    BY DEF TypeOK, Conn, Initiator
  <2>2. /\ UNCHANGED <<sent, read>>
        /\ \/ UNCHANGED <<pendingMessages, wire>>
           \/ StoreSession(hostOf[c], Initiator(c), c)
    BY <1>2 DEF RespondToAuth
  <2>3. QED
    BY <1>1, <2>1, <2>2, StoreSessionLeaves
<1>3. ASSUME NEW c \in Conn, HandleAuthOk(c) PROVE Box!Next
  <2>1. hostOf[c] \in Node /\ Initiator(c) \in Node
    BY DEF TypeOK, Conn, Initiator
  <2>2. QED
    BY <1>3, <2>1, StoreSessionLeaves DEF HandleAuthOk
<1>4. QED
  BY <1>1, <1>2, <1>3, SendAccepts, MessageArrives, RestartLoses
     DEF Next, UpsertPeer, CleanStalePeers, SendHelloHandshake,
         RespondToHello, HandleHelloReply, SocketError, PeerClosed,
         SocketClose, ConnectPeer, ConnectTimeout, vars, mapVars, userVars

\* Whatever the nodes do, a text is accepted once, its queue leaves as a
\* whole, and what travelled is read or lost and never sent again.
THEOREM SessionImplementsMailbox == Spec => ImplementsMailbox
<1>1. Init => TypeOK /\ FateInv
  BY InitType DEF Init, FateInv, OneFate, OnlySentTexts
<1>2. TypeOK /\ FateInv /\ [Next]_vars => TypeOK' /\ FateInv'
  BY NextType, NextFate
<1>3. Init => Box!Init
  BY DEF Init, Box!Init, Fate
<1>4. TypeOK /\ FateInv /\ [Next]_vars => [Box!Next]_Fate
  BY BoxStep
<1>5. QED
  BY <1>1, <1>2, <1>3, <1>4, PTL DEF Spec, ImplementsMailbox, Box!Spec
=============================================================================
