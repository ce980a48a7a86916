--------------------------- MODULE SessionProofs ---------------------------
(***************************************************************************)
(* Theorems about Session, for every set of nodes, clients and texts, any  *)
(* addresses, and any bounds.                                              *)
(***************************************************************************)
EXTENDS Session, TLAPS

-----------------------------------------------------------------------------
(***************************************************************************)
(* Type correctness.                                                       *)
(***************************************************************************)

LEMMA NewConnection ==
  ASSUME TypeOK, NEW n \in Node, opened[n] < MaxConn
  PROVE  <<n, opened[n] + 1>> \in Conn /\ opened[n] + 1 \in 0 .. MaxConn
BY SessionAssumption DEF TypeOK, Conn

LEMMA InitiateHandshakeType ==
  ASSUME TypeOK, NEW n \in Node, NEW m \in Node, NEW h \in Node,
         NEW force \in BOOLEAN, InitiateHandshake(n, m, h, force)
  PROVE  /\ pendingHandshakes' \in [Node -> [Node -> Conn \cup {None}]]
         /\ opened' \in [Node -> 0 .. MaxConn]
         /\ sock' \in [Conn -> Socks]
         /\ peerOf' \in [Conn -> Node]
         /\ hostOf' \in [Conn -> Node]
<1> DEFINE c == <<n, opened[n] + 1>>
<1>1. CASE UNCHANGED <<pendingHandshakes, opened, sock, peerOf, hostOf>>
  BY <1>1 DEF TypeOK
<1>2. CASE /\ opened[n] < MaxConn
           /\ opened' = [opened EXCEPT ![n] = @ + 1]
           /\ sock' = [sock EXCEPT ![c] = "connecting"]
           /\ peerOf' = [peerOf EXCEPT ![c] = m]
           /\ hostOf' = [hostOf EXCEPT ![c] = h]
           /\ pendingHandshakes' = [pendingHandshakes EXCEPT ![n][m] = c]
  <2>1. c \in Conn /\ opened[n] + 1 \in 0 .. MaxConn
    BY <1>2, NewConnection
  <2>2. pendingHandshakes' \in [Node -> [Node -> Conn \cup {None}]]
    BY <1>2, <2>1 DEF TypeOK
  <2>3. /\ opened' \in [Node -> 0 .. MaxConn]
        /\ sock' \in [Conn -> Socks]
        /\ peerOf' \in [Conn -> Node]
        /\ hostOf' \in [Conn -> Node]
    BY <1>2, <2>1 DEF TypeOK, Socks
  <2>4. QED
    BY <2>2, <2>3
<1>3. QED
  BY <1>1, <1>2 DEF InitiateHandshake

LEMMA DestroyType ==
  ASSUME NEW s \in [Conn -> Socks], NEW c
  PROVE  Destroy(s, c) \in [Conn -> Socks]
BY DEF Destroy, Socks

LEMMA CleanupType ==
  ASSUME TypeOK, NEW n \in Node, NEW m \in Node, NEW s \in [Conn -> Socks],
         CleanupPendingHandshake(n, m, s)
  PROVE  /\ pendingHandshakes' \in [Node -> [Node -> Conn \cup {None}]]
         /\ sock' \in [Conn -> Socks]
<1>1. sock' \in [Conn -> Socks]
  BY DestroyType DEF CleanupPendingHandshake
<1>2. QED
  BY <1>1 DEF CleanupPendingHandshake, TypeOK

LEMMA RegisterPeerKeyType ==
  ASSUME TypeOK, NEW n \in Node, NEW m \in Node, RegisterPeerKey(n, m)
  PROVE  peers' \in [Node -> [Node -> Node \cup {NoAddr, None}]]
BY DEF TypeOK, RegisterPeerKey

LEMMA EncryptedType ==
  ASSUME NEW n \in Node, NEW m \in Node, NEW c \in Conn,
         NEW bodies \in SUBSET (Msg \cup Greetings)
  PROVE  Encrypted(n, m, c, bodies) \in SUBSET Mail
BY DEF Encrypted, Mail

LEMMA StoreSessionType ==
  ASSUME TypeOK, NEW n \in Node, NEW m \in Node, NEW c \in Conn,
         StoreSession(n, m, c)
  PROVE  /\ sessions' \in [Node -> [Node -> Conn \cup {None}]]
         /\ handshakeWaiters' \in [Node -> [Node -> Client \cup {None}]]
         /\ asked' \in [Node -> [Node -> SUBSET Client]]
         /\ pendingMessages' \in [Node -> [Node -> SUBSET Msg]]
         /\ wire' \in SUBSET Mail
<1>1. Encrypted(n, m, c, pendingMessages[n][m] \cup Greetings) \in SUBSET Mail
  <2>1. pendingMessages[n][m] \cup Greetings \in SUBSET (Msg \cup Greetings)
    BY DEF TypeOK
  <2>2. QED
    BY <2>1, EncryptedType
<1>2. wire' \in SUBSET Mail
  BY <1>1 DEF TypeOK, StoreSession
<1>3. sessions' \in [Node -> [Node -> Conn \cup {None}]]
  BY DEF TypeOK, StoreSession
<1>4. handshakeWaiters' \in [Node -> [Node -> Client \cup {None}]]
  BY DEF TypeOK, StoreSession
<1>5. asked' \in [Node -> [Node -> SUBSET Client]]
  BY DEF TypeOK, StoreSession
<1>6. pendingMessages' \in [Node -> [Node -> SUBSET Msg]]
  BY DEF TypeOK, StoreSession
<1>7. QED
  BY <1>2, <1>3, <1>4, <1>5, <1>6

LEMMA InitType == Init => TypeOK
BY SessionAssumption DEF Init, TypeOK, Conn, Initiator, Socks

LEMMA NextType == TypeOK /\ [Next]_vars => TypeOK'
<1> SUFFICES ASSUME TypeOK, [Next]_vars PROVE TypeOK'
  OBVIOUS
<1> USE SessionAssumption
<1>1. ASSUME NEW n \in Node, NEW m \in Node, UpsertPeer(n, m) PROVE TypeOK'
  <2>1. PICK h \in Routes[m] : /\ peers' = [peers EXCEPT ![n][m] = h]
                               /\ InitiateHandshake(n, m, h, FALSE)
    BY <1>1 DEF UpsertPeer
  <2>2. h \in Node
    OBVIOUS
  <2>3. peers' \in [Node -> [Node -> Node \cup {NoAddr, None}]]
    BY <2>1, <2>2 DEF TypeOK
  <2>4. QED
    BY <1>1, <2>1, <2>2, <2>3, InitiateHandshakeType
       DEF TypeOK, UpsertPeer, userVars
<1>2. ASSUME NEW n \in Node, CleanStalePeers(n) PROVE TypeOK'
  <2>1. peers' \in [Node -> [Node -> Node \cup {NoAddr, None}]]
    BY <1>2 DEF TypeOK, CleanStalePeers
  <2>2. QED
    BY <1>2, <2>1 DEF TypeOK, CleanStalePeers, connVars, userVars
<1>3. ASSUME NEW c \in Conn, SendHelloHandshake(c) PROVE TypeOK'
  BY <1>3 DEF TypeOK, SendHelloHandshake, mapVars, userVars, Socks, Frames
<1>4. ASSUME NEW c \in Conn, RespondToHello(c) PROVE TypeOK'
  <2>1. peers' \in [Node -> [Node -> Node \cup {NoAddr, None}]]
    BY <1>4, RegisterPeerKeyType DEF TypeOK, RespondToHello, Conn, Initiator
  <2>2. QED
    BY <1>4, <2>1 DEF TypeOK, RespondToHello, userVars, Frames
<1>5. ASSUME NEW c \in Conn, HandleHelloReply(c) PROVE TypeOK'
  <2>1. Initiator(c) \in Node /\ hostOf[c] \in Node /\ peerOf[c] \in Node
    BY DEF TypeOK, Conn, Initiator
  <2>2. peers' \in [Node -> [Node -> Node \cup {NoAddr, None}]]
    BY <1>5, <2>1, RegisterPeerKeyType DEF HandleHelloReply
  <2>3. CASE CleanupPendingHandshake(Initiator(c), peerOf[c], sock)
    <3>1. /\ pendingHandshakes' \in [Node -> [Node -> Conn \cup {None}]]
          /\ sock' \in [Conn -> Socks]
      BY <2>1, <2>3, CleanupType DEF TypeOK
    <3>2. QED
      BY <1>5, <2>2, <3>1 DEF TypeOK, HandleHelloReply, userVars, Frames
  <2>4. CASE UNCHANGED <<pendingHandshakes, sock>>
    BY <1>5, <2>2, <2>4 DEF TypeOK, HandleHelloReply, userVars, Frames
  <2>5. QED
    BY <1>5, <2>3, <2>4 DEF HandleHelloReply
<1>6. ASSUME NEW c \in Conn, RespondToAuth(c) PROVE TypeOK'
  <2>1. Initiator(c) \in Node /\ hostOf[c] \in Node
    BY DEF TypeOK, Conn, Initiator
  <2>2. CASE ~GoodSignature(Initiator(c))
    BY <1>6, <2>2 DEF TypeOK, RespondToAuth, Frames
  <2>3. CASE GoodSignature(Initiator(c))
    <3>1. peers' \in [Node -> [Node -> Node \cup {NoAddr, None}]]
      BY <1>6, <2>1, <2>3, RegisterPeerKeyType DEF RespondToAuth
    <3>2. StoreSession(hostOf[c], Initiator(c), c)
      BY <1>6, <2>3 DEF RespondToAuth
    <3>3. QED
      BY <1>6, <2>1, <2>3, <3>1, <3>2, StoreSessionType
         DEF TypeOK, RespondToAuth, Frames
  <2>4. QED
    BY <2>2, <2>3
<1>7. ASSUME NEW c \in Conn, HandleAuthOk(c) PROVE TypeOK'
  <2>1. /\ Initiator(c) \in Node /\ hostOf[c] \in Node /\ peerOf[c] \in Node
        /\ sock \in [Conn -> Socks]
    BY DEF TypeOK, Conn, Initiator
  <2>2. /\ StoreSession(Initiator(c), hostOf[c], c)
        /\ CleanupPendingHandshake(Initiator(c), peerOf[c], sock)
    BY <1>7 DEF HandleAuthOk
  <2>3. /\ pendingHandshakes' \in [Node -> [Node -> Conn \cup {None}]]
        /\ sock' \in [Conn -> Socks]
    BY <2>1, <2>2, CleanupType
  <2>4. QED
    BY <1>7, <2>1, <2>2, <2>3, StoreSessionType
       DEF TypeOK, HandleAuthOk, Frames
<1>8. ASSUME NEW c \in Conn, SocketError(c) PROVE TypeOK'
  <2>1. /\ Initiator(c) \in Node /\ peerOf[c] \in Node
        /\ [sock EXCEPT ![c] = "closed"] \in [Conn -> Socks]
    BY DEF TypeOK, Conn, Initiator, Socks
  <2>2. /\ pendingHandshakes' \in [Node -> [Node -> Conn \cup {None}]]
        /\ sock' \in [Conn -> Socks]
    BY <1>8, <2>1, CleanupType DEF SocketError
  <2>3. asked' \in [Node -> [Node -> SUBSET Client]]
    BY <1>8, <2>1 DEF TypeOK, SocketError
  <2>4. QED
    BY <1>8, <2>2, <2>3 DEF TypeOK, SocketError
<1>9. ASSUME NEW c \in Conn, PeerClosed(c) PROVE TypeOK'
  BY <1>9 DEF TypeOK, PeerClosed, mapVars, userVars, Socks
<1>10. ASSUME NEW c \in Conn, SocketClose(c) PROVE TypeOK'
  <2>1. /\ Initiator(c) \in Node /\ peerOf[c] \in Node
        /\ [sock EXCEPT ![c] = "gone"] \in [Conn -> Socks]
    BY DEF TypeOK, Conn, Initiator, Socks
  <2>2. /\ pendingHandshakes' \in [Node -> [Node -> Conn \cup {None}]]
        /\ sock' \in [Conn -> Socks]
    BY <1>10, <2>1, CleanupType DEF SocketClose
  <2>3. QED
    BY <1>10, <2>2 DEF TypeOK, SocketClose, userVars
<1>11. ASSUME NEW n \in Node, NEW m \in Node, NEW b \in Msg,
              SendEncryptedMessage(n, m, b)
       PROVE  TypeOK'
  <2>1. CASE sessions[n][m] # None
    <3>1. Encrypted(n, m, sessions[n][m], {b}) \in SUBSET Mail
      <4>1. sessions[n][m] \in Conn /\ {b} \in SUBSET (Msg \cup Greetings)
        BY <2>1 DEF TypeOK
      <4>2. QED
        BY <4>1, EncryptedType
    <3>2. QED
      BY <1>11, <2>1, <3>1 DEF TypeOK, SendEncryptedMessage
  <2>2. CASE sessions[n][m] = None
    <3>1. InitiateHandshake(n, m, peers[n][m], TRUE) /\ peers[n][m] \in Node
      BY <1>11, <2>2 DEF SendEncryptedMessage
    <3>2. pendingMessages' \in [Node -> [Node -> SUBSET Msg]]
      <4>1. pendingMessages[n][m] \cup {b} \in SUBSET Msg
        BY DEF TypeOK
      <4>2. pendingMessages' =
              [pendingMessages EXCEPT ![n][m] = pendingMessages[n][m] \cup {b}]
        BY <1>11, <2>2 DEF SendEncryptedMessage, TypeOK
      <4>3. QED
        BY <4>1, <4>2 DEF TypeOK
    <3>3. QED
      BY <1>11, <2>2, <3>1, <3>2, InitiateHandshakeType
         DEF TypeOK, SendEncryptedMessage
  <2>3. QED
    BY <2>1, <2>2
<1>12. ASSUME NEW w \in wire,
              HandleServerEncryptedMessage(w) \/ LoseMessage(w)
       PROVE  TypeOK'
  BY <1>12 DEF TypeOK, HandleServerEncryptedMessage, LoseMessage, mapVars,
               connVars
<1>13. ASSUME NEW n \in Node, NEW m \in Node, NEW u \in Client,
              ConnectPeer(n, u, m)
       PROVE  TypeOK'
  <2>1. InitiateHandshake(n, m, peers[n][m], TRUE) /\ peers[n][m] \in Node
    BY <1>13 DEF ConnectPeer
  <2>2. /\ handshakeWaiters' \in [Node -> [Node -> Client \cup {None}]]
        /\ asked' \in [Node -> [Node -> SUBSET Client]]
    BY <1>13 DEF TypeOK, ConnectPeer
  <2>3. QED
    BY <1>13, <2>1, <2>2, InitiateHandshakeType DEF TypeOK, ConnectPeer
<1>14. ASSUME NEW n \in Node, NEW m \in Node, ConnectTimeout(n, m)
       PROVE  TypeOK'
  <2>1. /\ handshakeWaiters' \in [Node -> [Node -> Client \cup {None}]]
        /\ asked' \in [Node -> [Node -> SUBSET Client]]
    BY <1>14 DEF TypeOK, ConnectTimeout
  <2>2. QED
    BY <1>14, <2>1 DEF TypeOK, ConnectTimeout, connVars
<1>15. ASSUME NEW n \in Node, Restart(n) PROVE TypeOK'
  <2>1. /\ peers' \in [Node -> [Node -> Node \cup {NoAddr, None}]]
        /\ sessions' \in [Node -> [Node -> Conn \cup {None}]]
        /\ pendingHandshakes' \in [Node -> [Node -> Conn \cup {None}]]
        /\ pendingMessages' \in [Node -> [Node -> SUBSET Msg]]
        /\ handshakeWaiters' \in [Node -> [Node -> Client \cup {None}]]
        /\ asked' \in [Node -> [Node -> SUBSET Client]]
    BY <1>15 DEF TypeOK, Restart
  <2>2. /\ sock' \in [Conn -> Socks]
        /\ frame' \in [Conn -> Frames \cup {None}]
        /\ served' \in SUBSET Conn
        /\ severed' \in SUBSET Conn
    BY <1>15 DEF TypeOK, Restart, Socks
  <2>3. QED
    BY <1>15, <2>1, <2>2 DEF TypeOK, Restart
<1>16. CASE UNCHANGED vars
  BY <1>16 DEF TypeOK, vars, mapVars, connVars, userVars
<1>17. QED
  BY <1>1, <1>2, <1>3, <1>4, <1>5, <1>6, <1>7, <1>8, <1>9, <1>10, <1>11,
     <1>12, <1>13, <1>14, <1>15, <1>16
     DEF Next

\* In every behaviour of the nodes every table holds what it is meant to
\* hold; in particular every message in flight has an address (the test of
\* peer.ip in sendEncryptedMessage) and a node opens at most MaxConn sockets.
THEOREM TypeCorrect == Spec => []TypeOK
<1>1. Init => TypeOK
  BY InitType
<1>2. TypeOK /\ [Next]_vars => TypeOK'
  BY NextType
<1>3. QED
  BY <1>1, <1>2, PTL DEF Spec

-----------------------------------------------------------------------------
(***************************************************************************)
(* The connections: what the tables of a node know about its sockets.      *)
(***************************************************************************)

\* Opening a connection keeps the bookkeeping right: it was unused, and the
\* node had no other attempt for that peer.
LEMMA InitiateHandshakeInv ==
  ASSUME TypeOK, ConnInv, NEW n \in Node, NEW m \in Node, NEW h \in Node,
         NEW force \in BOOLEAN, InitiateHandshake(n, m, h, force),
         UNCHANGED <<frame, keyed, accepted>>
  PROVE  ConnInv'
<1> DEFINE d == <<n, opened[n] + 1>>
<1>1. CASE UNCHANGED <<pendingHandshakes, opened, sock, peerOf, hostOf>>
  BY <1>1 DEF ConnInv, UnusedConnections, HandshakeOrder, VerifiedKeys,
              PendingIsOwn, LiveSocketRegistered
<1>2. CASE /\ opened[n] < MaxConn
           /\ pendingHandshakes[n][m] = None
           /\ opened' = [opened EXCEPT ![n] = @ + 1]
           /\ sock' = [sock EXCEPT ![d] = "connecting"]
           /\ peerOf' = [peerOf EXCEPT ![d] = m]
           /\ hostOf' = [hostOf EXCEPT ![d] = h]
           /\ pendingHandshakes' = [pendingHandshakes EXCEPT ![n][m] = d]
  <2>1. /\ d \in Conn /\ Initiator(d) = n /\ d[2] = opened[n] + 1
        /\ opened[n] \in Nat
    BY <1>2, NewConnection, SessionAssumption DEF TypeOK, Initiator
  <2>2. d \notin keyed
    BY <2>1 DEF ConnInv, UnusedConnections
  <2>3. UnusedConnections'
    BY <1>2, <2>1
       DEF ConnInv, UnusedConnections, TypeOK, Conn, Initiator
  <2>4. HandshakeOrder'
    BY DEF ConnInv, HandshakeOrder
  <2>5. VerifiedKeys'
    BY <1>2, <2>2 DEF ConnInv, VerifiedKeys, TypeOK
  <2>6. PendingIsOwn'
    <3> SUFFICES ASSUME NEW i \in Node, NEW j \in Node,
                        pendingHandshakes'[i][j] # None
                 PROVE  /\ Initiator(pendingHandshakes'[i][j]) = i
                        /\ peerOf'[pendingHandshakes'[i][j]] = j
                        /\ pendingHandshakes'[i][j][2] <= opened'[i]
      BY DEF PendingIsOwn
    <3>1. CASE i = n /\ j = m
      BY <1>2, <2>1, <3>1 DEF TypeOK
    <3>2. CASE ~(i = n /\ j = m)
      <4> DEFINE c == pendingHandshakes[i][j]
      <4>1. pendingHandshakes'[i][j] = c
        BY <1>2, <3>2 DEF TypeOK
      <4>2. c \in Conn /\ Initiator(c) = i /\ peerOf[c] = j /\ c[2] <= opened[i]
        BY <4>1 DEF ConnInv, PendingIsOwn, TypeOK
      <4>3. c # d /\ opened[i] <= opened'[i] /\ c[2] \in Nat
            /\ opened[i] \in Nat /\ opened'[i] \in Nat
        BY <1>2, <2>1, <4>2, SessionAssumption DEF TypeOK, Initiator, Conn
      <4>4. QED
        BY <1>2, <4>1, <4>2, <4>3 DEF TypeOK
    <3>3. QED
      BY <3>1, <3>2
  <2>7. LiveSocketRegistered'
    <3> SUFFICES ASSUME NEW c \in Conn, sock'[c] \in Live
                 PROVE  pendingHandshakes'[Initiator(c)][peerOf'[c]] = c
      BY DEF LiveSocketRegistered
    <3>1. CASE c = d
      BY <1>2, <2>1, <3>1, ZenonT(30) DEF TypeOK
    <3>2. CASE c # d
      <4>1. sock[c] \in Live /\ peerOf'[c] = peerOf[c]
        BY <1>2, <3>2 DEF TypeOK
      <4>2. pendingHandshakes[Initiator(c)][peerOf[c]] = c
        BY <4>1 DEF ConnInv, LiveSocketRegistered
      <4>3. Initiator(c) \in Node /\ peerOf[c] \in Node /\ c # None
        BY SessionAssumption DEF TypeOK, Conn, Initiator
      <4>4. QED
        BY <1>2, <4>1, <4>2, <4>3 DEF TypeOK
    <3>3. QED
      BY <3>1, <3>2
  <2>8. QED
    BY <2>3, <2>4, <2>5, <2>6, <2>7 DEF ConnInv
<1>3. QED
  BY <1>1, <1>2 DEF InitiateHandshake

\* Dropping the registered attempt of a peer destroys its socket, so that no
\* live socket is left behind.  s is what the handler did to the sockets before.
LEMMA CleanupInv ==
  ASSUME TypeOK, ConnInv, NEW n \in Node, NEW m \in Node,
         NEW s \in [Conn -> Socks],
         \A d \in Conn : s[d] \in Live => sock[d] \in Live,
         \A d \in Conn : sock[d] = "unused" => s[d] = "unused",
         CleanupPendingHandshake(n, m, s), UNCHANGED <<opened, peerOf>>
  PROVE  /\ PendingIsOwn' /\ LiveSocketRegistered'
         /\ \A d \in Conn : sock[d] = "unused" => sock'[d] = "unused"
<1> DEFINE c == pendingHandshakes[n][m]
<1>1. /\ pendingHandshakes' = [pendingHandshakes EXCEPT ![n][m] = None]
      /\ sock' = Destroy(s, c)
  BY DEF CleanupPendingHandshake
<1>2. PendingIsOwn'
  BY <1>1 DEF ConnInv, PendingIsOwn, TypeOK
<1>3. LiveSocketRegistered'
  <2> SUFFICES ASSUME NEW d \in Conn, sock'[d] \in Live
               PROVE  pendingHandshakes'[Initiator(d)][peerOf[d]] = d
    BY DEF LiveSocketRegistered
  <2>1. s[d] \in Live /\ (c # None => d # c)
    BY <1>1 DEF Destroy, Live
  <2>2. pendingHandshakes[Initiator(d)][peerOf[d]] = d
    BY <2>1 DEF ConnInv, LiveSocketRegistered
  <2>3. Initiator(d) \in Node /\ peerOf[d] \in Node /\ d # None
    BY SessionAssumption DEF TypeOK, Conn, Initiator
  <2>4. QED
    BY <1>1, <2>1, <2>2, <2>3 DEF TypeOK
<1>4. \A d \in Conn : sock[d] = "unused" => sock'[d] = "unused"
  BY <1>1 DEF Destroy, Live
<1>5. QED
  BY <1>2, <1>3, <1>4

LEMMA InitConnInv == Init => ConnInv
BY SessionAssumption
   DEF Init, ConnInv, UnusedConnections, HandshakeOrder, VerifiedKeys,
       PendingIsOwn, LiveSocketRegistered, Live, Conn, Initiator, Frames

\* A connection with a frame in flight or a live or closing socket is used.
LEMMA UsedConnection ==
  ASSUME TypeOK, ConnInv, NEW c \in Conn, sock[c] # "unused" \/ frame[c] # None
  PROVE  c[2] <= opened[Initiator(c)]
<1>1. c[2] \in Nat /\ opened[Initiator(c)] \in Nat
  BY SessionAssumption DEF TypeOK, Conn, Initiator
<1>2. QED
  BY <1>1 DEF ConnInv, UnusedConnections

LEMMA NextConnInv ==
  ASSUME TypeOK, ConnInv, [Next]_vars
  PROVE  ConnInv'
<1> USE SessionAssumption DEF Frames
<1>1. ASSUME NEW n \in Node, NEW m \in Node, UpsertPeer(n, m) PROVE ConnInv'
  <2>1. PICK h \in Routes[m] : InitiateHandshake(n, m, h, FALSE)
    BY <1>1 DEF UpsertPeer
  <2>2. h \in Node
    OBVIOUS
  <2>3. QED
    BY <1>1, <2>1, <2>2, InitiateHandshakeInv DEF UpsertPeer
<1>2. ASSUME UNCHANGED <<opened, sock, peerOf, hostOf, frame, keyed, accepted,
                         pendingHandshakes>>
      PROVE  ConnInv'
  BY <1>2 DEF ConnInv, UnusedConnections, HandshakeOrder, VerifiedKeys,
              PendingIsOwn, LiveSocketRegistered
<1>3. ASSUME NEW c \in Conn, SendHelloHandshake(c) PROVE ConnInv'
  <2>1. c[2] <= opened[Initiator(c)]
    BY <1>3, UsedConnection DEF SendHelloHandshake
  <2>2. UnusedConnections'
    BY <1>3, <2>1 DEF SendHelloHandshake, ConnInv, UnusedConnections, TypeOK,
                      Conn, Initiator
  <2>3. HandshakeOrder' /\ VerifiedKeys' /\ PendingIsOwn'
    BY <1>3 DEF SendHelloHandshake, ConnInv, HandshakeOrder, VerifiedKeys,
                PendingIsOwn, TypeOK, mapVars
  <2>4. LiveSocketRegistered'
    BY <1>3 DEF SendHelloHandshake, ConnInv, LiveSocketRegistered, TypeOK,
                mapVars, Live
  <2>5. QED
    BY <2>2, <2>3, <2>4 DEF ConnInv
<1>4. ASSUME NEW c \in Conn, RespondToHello(c) PROVE ConnInv'
  <2>1. c[2] <= opened[Initiator(c)]
    BY <1>4, UsedConnection DEF RespondToHello
  <2>2. UnusedConnections'
    BY <1>4, <2>1 DEF RespondToHello, ConnInv, UnusedConnections, TypeOK,
                      Conn, Initiator
  <2>3. HandshakeOrder'
    BY <1>4 DEF RespondToHello, ConnInv, HandshakeOrder, TypeOK
  <2>4. VerifiedKeys' /\ PendingIsOwn' /\ LiveSocketRegistered'
    BY <1>4 DEF RespondToHello, ConnInv, VerifiedKeys, PendingIsOwn,
                LiveSocketRegistered
  <2>5. QED
    BY <2>2, <2>3, <2>4 DEF ConnInv
<1>5. ASSUME NEW c \in Conn, HandleHelloReply(c) PROVE ConnInv'
  <2>1. /\ Initiator(c) \in Node /\ peerOf[c] \in Node
        /\ sock \in [Conn -> Socks]
    BY DEF TypeOK, Conn, Initiator
  <2>2. c[2] <= opened[Initiator(c)]
    BY <1>5, UsedConnection DEF HandleHelloReply
  <2>3. CASE ~GoodSignature(hostOf[c])
    <3>1. /\ CleanupPendingHandshake(Initiator(c), peerOf[c], sock)
          /\ frame' = [frame EXCEPT ![c] = None]
          /\ UNCHANGED <<opened, peerOf, hostOf, keyed, accepted>>
      BY <1>5, <2>3 DEF HandleHelloReply
    <3>2. /\ PendingIsOwn' /\ LiveSocketRegistered'
          /\ \A d \in Conn : sock[d] = "unused" => sock'[d] = "unused"
      BY <2>1, <3>1, CleanupInv
    <3>3. UnusedConnections' /\ HandshakeOrder' /\ VerifiedKeys'
      BY <3>1, <3>2 DEF ConnInv, UnusedConnections, HandshakeOrder,
                        VerifiedKeys, TypeOK
    <3>4. QED
      BY <3>2, <3>3 DEF ConnInv
  <2>4. CASE GoodSignature(hostOf[c])
    <3>1. /\ keyed' = keyed \cup {c}
          /\ frame' = [frame EXCEPT ![c] = "AUTH"]
          /\ UNCHANGED <<pendingHandshakes, sock, opened, peerOf, hostOf,
                         accepted>>
      BY <1>5, <2>4 DEF HandleHelloReply
    <3>2. UnusedConnections'
      BY <2>2, <3>1 DEF ConnInv, UnusedConnections, TypeOK, Conn, Initiator
    <3>3. HandshakeOrder'
      BY <3>1 DEF ConnInv, HandshakeOrder, TypeOK
    <3>4. VerifiedKeys'
      BY <2>4, <3>1 DEF ConnInv, VerifiedKeys, GoodSignature
    <3>5. PendingIsOwn' /\ LiveSocketRegistered'
      BY <3>1 DEF ConnInv, PendingIsOwn, LiveSocketRegistered
    <3>6. QED
      BY <3>2, <3>3, <3>4, <3>5 DEF ConnInv
  <2>5. QED
    BY <2>3, <2>4
<1>6. ASSUME NEW c \in Conn, RespondToAuth(c) PROVE ConnInv'
  <2>1. /\ frame[c] = "AUTH" /\ c \in keyed
        /\ UNCHANGED <<pendingHandshakes, opened, sock, peerOf, hostOf, keyed>>
    BY <1>6 DEF RespondToAuth, ConnInv, HandshakeOrder
  <2>2. c[2] <= opened[Initiator(c)]
    BY <2>1, UsedConnection
  <2>3. \/ frame' = [frame EXCEPT ![c] = None] /\ accepted' = accepted
        \/ /\ frame' = [frame EXCEPT ![c] = "AUTH_OK"]
           /\ accepted' = accepted \cup {c}
           /\ Initiator(c) \notin BadKey
    BY <1>6 DEF RespondToAuth, GoodSignature
  <2>4. UnusedConnections'
    BY <2>1, <2>2, <2>3 DEF ConnInv, UnusedConnections, TypeOK, Conn, Initiator
  <2>5. HandshakeOrder'
    BY <2>1, <2>3 DEF ConnInv, HandshakeOrder, TypeOK
  <2>6. VerifiedKeys' /\ PendingIsOwn' /\ LiveSocketRegistered'
    BY <2>1, <2>3 DEF ConnInv, VerifiedKeys, PendingIsOwn,
                      LiveSocketRegistered
  <2>7. QED
    BY <2>4, <2>5, <2>6 DEF ConnInv
<1>7. ASSUME NEW c \in Conn,
             HandleAuthOk(c) \/ SocketError(c) \/ SocketClose(c)
      PROVE  ConnInv'
  <2>1. /\ Initiator(c) \in Node /\ peerOf[c] \in Node
        /\ sock \in [Conn -> Socks]
        /\ [sock EXCEPT ![c] = "closed"] \in [Conn -> Socks]
        /\ [sock EXCEPT ![c] = "gone"] \in [Conn -> Socks]
    BY DEF TypeOK, Conn, Initiator, Socks
  <2>2. PICK s \in {sock, [sock EXCEPT ![c] = "closed"],
                    [sock EXCEPT ![c] = "gone"]} :
          CleanupPendingHandshake(Initiator(c), peerOf[c], s)
    BY <1>7 DEF HandleAuthOk, SocketError, SocketClose
  <2>3. UNCHANGED <<opened, peerOf, hostOf, keyed, accepted>>
    BY <1>7 DEF HandleAuthOk, SocketError, SocketClose
  <2>4. sock[c] # "unused"
    BY <1>7 DEF HandleAuthOk, SocketError, SocketClose, Live
  <2>5. /\ \A d \in Conn : s[d] \in Live => sock[d] \in Live
        /\ \A d \in Conn : sock[d] = "unused" => s[d] = "unused"
    BY <2>1, <2>2, <2>4 DEF Live
  <2>6. /\ PendingIsOwn' /\ LiveSocketRegistered'
        /\ \A d \in Conn : sock[d] = "unused" => sock'[d] = "unused"
    BY <2>1, <2>2, <2>3, <2>5, CleanupInv
  <2>7. frame' = frame \/ frame' = [frame EXCEPT ![c] = None]
    BY <1>7 DEF HandleAuthOk, SocketError, SocketClose
  <2>8. UnusedConnections' /\ HandshakeOrder' /\ VerifiedKeys'
    BY <2>3, <2>6, <2>7 DEF ConnInv, UnusedConnections, HandshakeOrder,
                            VerifiedKeys, TypeOK
  <2>9. QED
    BY <2>6, <2>8 DEF ConnInv
<1>8. ASSUME NEW c \in Conn, PeerClosed(c) PROVE ConnInv'
  <2>1. c[2] <= opened[Initiator(c)]
    BY <1>8, UsedConnection DEF PeerClosed
  <2>2. UnusedConnections'
    BY <1>8, <2>1 DEF PeerClosed, ConnInv, UnusedConnections, TypeOK, Conn,
                      Initiator
  <2>3. HandshakeOrder' /\ VerifiedKeys' /\ PendingIsOwn'
    BY <1>8 DEF PeerClosed, ConnInv, HandshakeOrder, VerifiedKeys,
                PendingIsOwn, mapVars
  <2>4. LiveSocketRegistered'
    BY <1>8 DEF PeerClosed, ConnInv, LiveSocketRegistered, TypeOK, mapVars,
                Live
  <2>5. QED
    BY <2>2, <2>3, <2>4 DEF ConnInv
<1>9. ASSUME NEW n \in Node, NEW m \in Node, NEW b \in Msg,
             SendEncryptedMessage(n, m, b)
      PROVE  ConnInv'
  <2>1. CASE sessions[n][m] # None
    BY <1>2, <1>9, <2>1 DEF SendEncryptedMessage
  <2>2. CASE sessions[n][m] = None
    <3>1. InitiateHandshake(n, m, peers[n][m], TRUE) /\ peers[n][m] \in Node
      BY <1>9, <2>2 DEF SendEncryptedMessage
    <3>2. QED
      BY <1>9, <3>1, InitiateHandshakeInv DEF SendEncryptedMessage
  <2>3. QED
    BY <2>1, <2>2
<1>10. ASSUME NEW n \in Node, NEW m \in Node, NEW u \in Client,
              ConnectPeer(n, u, m)
       PROVE  ConnInv'
  <2>1. InitiateHandshake(n, m, peers[n][m], TRUE) /\ peers[n][m] \in Node
    BY <1>10 DEF ConnectPeer
  <2>2. QED
    BY <1>10, <2>1, InitiateHandshakeInv DEF ConnectPeer
<1>11. ASSUME NEW n \in Node, Restart(n) PROVE ConnInv'
  <2>1. UnusedConnections'
    BY <1>11 DEF Restart, ConnInv, UnusedConnections
  <2>2. HandshakeOrder' /\ VerifiedKeys'
    BY <1>11 DEF Restart, ConnInv, HandshakeOrder, VerifiedKeys
  <2>3. PendingIsOwn'
    BY <1>11 DEF Restart, ConnInv, PendingIsOwn, TypeOK
  <2>4. LiveSocketRegistered'
    <3> SUFFICES ASSUME NEW c \in Conn, sock'[c] \in Live
                 PROVE  pendingHandshakes'[Initiator(c)][peerOf'[c]] = c
      BY DEF LiveSocketRegistered
    <3>1. Initiator(c) # n /\ sock[c] \in Live
      BY <1>11 DEF Restart, Live
    <3>2. Initiator(c) \in Node /\ peerOf[c] \in Node
      BY DEF TypeOK, Conn, Initiator
    <3>3. QED
      BY <1>11, <3>1, <3>2
         DEF Restart, ConnInv, LiveSocketRegistered, TypeOK
  <2>5. QED
    BY <2>1, <2>2, <2>3, <2>4 DEF ConnInv
<1>12. ASSUME NEW n \in Node, CleanStalePeers(n) PROVE ConnInv'
  BY <1>2, <1>12 DEF CleanStalePeers, connVars
<1>13. ASSUME NEW n \in Node, NEW m \in Node, ConnectTimeout(n, m)
       PROVE  ConnInv'
  BY <1>2, <1>13 DEF ConnectTimeout, connVars
<1>14. ASSUME NEW w \in wire,
              HandleServerEncryptedMessage(w) \/ LoseMessage(w)
       PROVE  ConnInv'
  BY <1>2, <1>14 DEF HandleServerEncryptedMessage, LoseMessage, mapVars,
                     connVars
<1>15. CASE UNCHANGED vars
  BY <1>2, <1>15 DEF vars, mapVars, connVars
<1>16. QED
  BY <1>1, <1>3, <1>4, <1>5, <1>6, <1>7, <1>8, <1>9, <1>10, <1>11, <1>12,
     <1>13, <1>14, <1>15
     DEF Next

\* The bookkeeping of connections is right in every reachable state.
LEMMA ConnectionsCorrect == Spec => [](TypeOK /\ ConnInv)
<1>1. Init => TypeOK /\ ConnInv
  BY InitType, InitConnInv
<1>2. TypeOK /\ ConnInv /\ [Next]_vars => TypeOK' /\ ConnInv'
  BY NextType, NextConnInv
<1>3. QED
  BY <1>1, <1>2, PTL DEF Spec

\* No handshake socket is ever left running behind the back of the table of
\* attempts, whatever fails, times out or restarts: cleanupPendingHandshake,
\* given the peer alone, always finds the socket that is live.
THEOREM NoLeakedHandshake == Spec => []LiveSocketRegistered
<1>1. ConnInv => LiveSocketRegistered
  BY DEF ConnInv
<1>2. QED
  BY <1>1, ConnectionsCorrect, PTL

-----------------------------------------------------------------------------
(***************************************************************************)
(* Attempts that block others.                                             *)
(***************************************************************************)

\* What AttemptsAdvance says of one attempt d of n.
AttemptAdvances(n, d) ==
  Advances(d) \/ (sock[d] = "open" /\ (d \in severed \/ n \in BadKey))

LEMMA InitiateHandshakeAttempts ==
  ASSUME TypeOK, ConnInv, AttemptsAdvance,
         NEW i \in Node, NEW j \in Node, NEW h \in Node, NEW force \in BOOLEAN,
         InitiateHandshake(i, j, h, force),
         UNCHANGED <<frame, served, severed, keyed>>
  PROVE  AttemptsAdvance'
<1> SUFFICES ASSUME NEW n \in Node, NEW m \in Node,
                    pendingHandshakes'[n][m] # None
             PROVE  AttemptAdvances(n, pendingHandshakes[n][m])'
  BY DEF AttemptsAdvance, AttemptAdvances
<1> DEFINE c == <<i, opened[i] + 1>>
<1>1. CASE UNCHANGED <<pendingHandshakes, sock>>
  BY <1>1 DEF AttemptsAdvance, AttemptAdvances, Advances
<1>2. CASE /\ opened[i] < MaxConn
           /\ sock' = [sock EXCEPT ![c] = "connecting"]
           /\ pendingHandshakes' = [pendingHandshakes EXCEPT ![i][j] = c]
  <2>1. c \in Conn
    BY <1>2, NewConnection
  <2>2. CASE n = i /\ m = j
    BY <1>2, <2>1, <2>2 DEF AttemptAdvances, Advances, TypeOK
  <2>3. CASE ~(n = i /\ m = j)
    <3>1. pendingHandshakes'[n][m] = pendingHandshakes[n][m]
      BY <1>2, <2>3 DEF TypeOK
    <3>2. pendingHandshakes[n][m] # c
      <4>1. /\ Initiator(pendingHandshakes[n][m]) = n
            /\ pendingHandshakes[n][m][2] <= opened[n]
        BY <3>1 DEF ConnInv, PendingIsOwn
      <4>2. opened[i] \in Nat
        BY SessionAssumption DEF TypeOK
      <4>3. QED
        BY <4>1, <4>2 DEF Initiator
    <3>3. pendingHandshakes[n][m] \in Conn
      BY <3>1 DEF TypeOK
    <3>4. sock'[pendingHandshakes[n][m]] = sock[pendingHandshakes[n][m]]
      BY <1>2, <3>2, <3>3 DEF TypeOK
    <3>5. QED
      BY <3>1, <3>4 DEF AttemptsAdvance, AttemptAdvances, Advances
  <2>4. QED
    BY <2>2, <2>3
<1>3. QED
  BY <1>1, <1>2 DEF InitiateHandshake

\* A cleanup after which an attempt is still registered has not touched its
\* socket.
LEMMA CleanupSpares ==
  ASSUME TypeOK, ConnInv, NEW i \in Node, NEW j \in Node, NEW s,
         CleanupPendingHandshake(i, j, s), s \in [Conn -> Socks],
         NEW n \in Node, NEW m \in Node, pendingHandshakes'[n][m] # None
  PROVE  /\ ~(n = i /\ m = j)
         /\ pendingHandshakes'[n][m] = pendingHandshakes[n][m]
         /\ pendingHandshakes[n][m] \in Conn
         /\ Initiator(pendingHandshakes[n][m]) = n
         /\ peerOf[pendingHandshakes[n][m]] = m
         /\ sock'[pendingHandshakes[n][m]] = s[pendingHandshakes[n][m]]
<1> DEFINE d == pendingHandshakes[n][m]
<1>1. ~(n = i /\ m = j) /\ pendingHandshakes'[n][m] = d
  BY DEF CleanupPendingHandshake, TypeOK
<1>2. d \in Conn /\ d # None
  BY <1>1 DEF TypeOK
<1>3. Initiator(d) = n /\ peerOf[d] = m
  BY <1>2 DEF ConnInv, PendingIsOwn
<1>4. pendingHandshakes[i][j] # d
  <2> SUFFICES ASSUME pendingHandshakes[i][j] = d PROVE FALSE
    OBVIOUS
  <2>1. Initiator(d) = i /\ peerOf[d] = j
    BY <1>2 DEF ConnInv, PendingIsOwn
  <2>2. QED
    BY <2>1, <1>1, <1>3
<1>5. sock'[d] = s[d]
  BY <1>2, <1>4 DEF CleanupPendingHandshake, Destroy
<1>6. QED
  BY <1>1, <1>2, <1>3, <1>5

\* The context of an answered connection lives as long as the responder.
LEMMA NextAnswered ==
  ASSUME TypeOK, ConnInv, AnsweredIsServed, [Next]_vars
  PROVE  AnsweredIsServed'
<1> USE SessionAssumption
<1> SUFFICES ASSUME NEW d \in Conn, sock'[d] = "open",
                    frame'[d] \in {"HELLO_REPLY", "AUTH"}
             PROVE  d \in served' \/ d \in severed'
  BY DEF AnsweredIsServed
<1>1. CASE UNCHANGED <<sock, frame, served, severed>>
  BY <1>1 DEF AnsweredIsServed
<1>2. ASSUME NEW i \in Node, NEW j \in Node, NEW h, NEW force \in BOOLEAN,
             InitiateHandshake(i, j, h, force),
             UNCHANGED <<frame, served, severed>>
      PROVE  d \in served' \/ d \in severed'
  <2>1. sock[d] = "open"
    <3>1. CASE sock' = sock
      BY <3>1
    <3>2. CASE sock' = [sock EXCEPT ![<<i, opened[i] + 1>>] = "connecting"]
      BY <3>2 DEF TypeOK
    <3>3. QED
      BY <1>2, <3>1, <3>2 DEF InitiateHandshake
  <2>2. QED
    BY <1>2, <2>1 DEF AnsweredIsServed
<1>3. ASSUME NEW i \in Node, NEW j \in Node, NEW s \in [Conn -> Socks],
             CleanupPendingHandshake(i, j, s)
      PROVE  s[d] = "open"
  BY <1>3 DEF CleanupPendingHandshake, Destroy
<1>4. ASSUME NEW n \in Node, NEW m \in Node, UpsertPeer(n, m)
      PROVE  d \in served' \/ d \in severed'
  BY <1>4, <1>2 DEF UpsertPeer
<1>5. ASSUME NEW c \in Conn, SendHelloHandshake(c)
      PROVE  d \in served' \/ d \in severed'
  BY <1>5 DEF SendHelloHandshake, AnsweredIsServed, TypeOK
<1>6. ASSUME NEW c \in Conn, RespondToHello(c)
      PROVE  d \in served' \/ d \in severed'
  BY <1>6 DEF RespondToHello, AnsweredIsServed, TypeOK
<1>7. ASSUME NEW c \in Conn, HandleHelloReply(c)
      PROVE  d \in served' \/ d \in severed'
  <2>1. sock[d] = "open"
    <3>1. Initiator(c) \in Node /\ peerOf[c] \in Node /\ sock \in [Conn -> Socks]
      BY DEF TypeOK, Conn, Initiator
    <3>2. QED
      BY <1>7, <1>3, <3>1 DEF HandleHelloReply
  <2>2. frame[d] \in {"HELLO_REPLY", "AUTH"}
    BY <1>7 DEF HandleHelloReply, TypeOK
  <2>3. QED
    BY <1>7, <2>1, <2>2 DEF HandleHelloReply, AnsweredIsServed
<1>8. ASSUME NEW c \in Conn, RespondToAuth(c)
      PROVE  d \in served' \/ d \in severed'
  <2>1. sock[d] = "open" /\ frame[d] \in {"HELLO_REPLY", "AUTH"}
    BY <1>8 DEF RespondToAuth, TypeOK
  <2>2. QED
    BY <1>8, <2>1 DEF RespondToAuth, AnsweredIsServed
<1>9. ASSUME NEW c \in Conn,
             HandleAuthOk(c) \/ SocketError(c) \/ SocketClose(c)
      PROVE  d \in served' \/ d \in severed'
  <2>1. Initiator(c) \in Node /\ peerOf[c] \in Node
    BY DEF TypeOK, Conn, Initiator
  <2>2. sock[d] = "open"
    <3>1. /\ sock \in [Conn -> Socks]
          /\ [sock EXCEPT ![c] = "closed"] \in [Conn -> Socks]
          /\ [sock EXCEPT ![c] = "gone"] \in [Conn -> Socks]
      BY DEF TypeOK, Socks
    <3>2. \/ CleanupPendingHandshake(Initiator(c), peerOf[c], sock)
          \/ CleanupPendingHandshake(Initiator(c), peerOf[c],
                                     [sock EXCEPT ![c] = "closed"])
          \/ CleanupPendingHandshake(Initiator(c), peerOf[c],
                                     [sock EXCEPT ![c] = "gone"])
      BY <1>9 DEF HandleAuthOk, SocketError, SocketClose
    <3>3. \/ sock[d] = "open"
          \/ [sock EXCEPT ![c] = "closed"][d] = "open"
          \/ [sock EXCEPT ![c] = "gone"][d] = "open"
      BY <1>3, <2>1, <3>1, <3>2
    <3>4. QED
      BY <3>1, <3>3
  <2>3. frame[d] \in {"HELLO_REPLY", "AUTH"}
    <3>1. None \notin {"HELLO_REPLY", "AUTH"}
      BY DEF Frames
    <3>2. frame'[d] \in {None, frame[d]}
      BY <1>9 DEF HandleAuthOk, SocketError, SocketClose, TypeOK
    <3>3. QED
      BY <3>1, <3>2
  <2>4. QED
    BY <1>9, <2>2, <2>3
       DEF HandleAuthOk, SocketError, SocketClose, AnsweredIsServed
<1>10. ASSUME NEW c \in Conn, PeerClosed(c)
       PROVE  d \in served' \/ d \in severed'
  BY <1>10 DEF PeerClosed, AnsweredIsServed, TypeOK
<1>11. ASSUME NEW n \in Node, NEW m \in Node, NEW b \in Msg,
              SendEncryptedMessage(n, m, b)
       PROVE  d \in served' \/ d \in severed'
  BY <1>11, <1>1, <1>2 DEF SendEncryptedMessage
<1>12. ASSUME NEW n \in Node, NEW m \in Node, NEW u \in Client,
              ConnectPeer(n, u, m)
       PROVE  d \in served' \/ d \in severed'
  BY <1>12, <1>2 DEF ConnectPeer
<1>13. ASSUME NEW n \in Node, Restart(n)
       PROVE  d \in served' \/ d \in severed'
  <2>1. sock[d] = "open" /\ frame[d] \in {"HELLO_REPLY", "AUTH"}
    <3>1. None \notin {"HELLO_REPLY", "AUTH"}
      BY DEF Frames
    <3>2. sock'[d] = "open" => sock[d] = "open"
      BY <1>13 DEF Restart
    <3>3. frame'[d] = None \/ frame'[d] = frame[d]
      BY <1>13 DEF Restart
    <3>4. QED
      BY <3>1, <3>2, <3>3
  <2>2. d \in served \/ d \in severed
    BY <2>1 DEF AnsweredIsServed
  <2>3. QED
    BY <1>13, <2>1, <2>2 DEF Restart
<1>14. QED
  <2>1. ASSUME UNCHANGED connVars PROVE UNCHANGED <<sock, frame, served, severed>>
    BY <2>1 DEF connVars
  <2>2. ASSUME NEW n \in Node, CleanStalePeers(n) PROVE UNCHANGED connVars
    BY <2>2 DEF CleanStalePeers
  <2>3. ASSUME NEW w \in wire, HandleServerEncryptedMessage(w) \/ LoseMessage(w)
        PROVE  UNCHANGED connVars
    BY <2>3 DEF HandleServerEncryptedMessage, LoseMessage
  <2>4. ASSUME NEW n \in Node, NEW m \in Node, ConnectTimeout(n, m)
        PROVE  UNCHANGED connVars
    BY <2>4 DEF ConnectTimeout
  <2>5. CASE UNCHANGED vars
    BY <2>5, <2>1, <1>1 DEF vars
  <2>6. CASE Next
    BY <2>6, <1>1, <1>4, <1>5, <1>6, <1>7, <1>8, <1>9, <1>10, <1>11, <1>12,
       <1>13, <2>1, <2>2, <2>3, <2>4 DEF Next
  <2>7. QED
    BY <2>5, <2>6

\* Every step of the nodes leaves each registered attempt with a next step.
LEMMA NextAttempts ==
  ASSUME TypeOK, ConnInv, AnsweredIsServed, AttemptsAdvance, [Next]_vars
  PROVE  AttemptsAdvance'
<1> USE SessionAssumption
<1> DEFINE Adv(n, m) == AttemptAdvances(n, pendingHandshakes[n][m])
<1>0. ASSUME \A n, m \in Node : pendingHandshakes'[n][m] # None => Adv(n, m)'
      PROVE  AttemptsAdvance'
  BY <1>0 DEF AttemptsAdvance, AttemptAdvances
<1>a. ASSUME NEW n \in Node, NEW m \in Node, pendingHandshakes[n][m] # None
      PROVE  /\ pendingHandshakes[n][m] \in Conn
             /\ Initiator(pendingHandshakes[n][m]) = n
             /\ peerOf[pendingHandshakes[n][m]] = m
             /\ Adv(n, m)
  <2>1. pendingHandshakes[n][m] \in Conn
    BY <1>a DEF TypeOK
  <2>2. QED
    BY <1>a, <2>1
       DEF ConnInv, PendingIsOwn, AttemptsAdvance, AttemptAdvances
<1>b. ASSUME NEW c \in Conn
      PROVE  Initiator(c) \in Node /\ peerOf[c] \in Node /\ hostOf[c] \in Node
  BY DEF TypeOK, Conn, Initiator
<1>1. ASSUME NEW n \in Node, NEW m \in Node, UpsertPeer(n, m)
      PROVE  AttemptsAdvance'
  <2>1. PICK h \in Routes[m] : InitiateHandshake(n, m, h, FALSE)
    BY <1>1 DEF UpsertPeer
  <2>2. h \in Node
    OBVIOUS
  <2>3. QED
    BY <1>1, <2>1, <2>2, InitiateHandshakeAttempts DEF UpsertPeer
<1>2. ASSUME UNCHANGED <<sock, frame, served, severed, keyed,
                         pendingHandshakes>>
      PROVE  AttemptsAdvance'
  BY <1>2 DEF AttemptsAdvance, Advances
<1>3. ASSUME NEW c \in Conn, SendHelloHandshake(c) PROVE AttemptsAdvance'
  <2> SUFFICES ASSUME NEW n \in Node, NEW m \in Node,
                      pendingHandshakes'[n][m] # None
               PROVE  Adv(n, m)'
    BY <1>0
  <2> DEFINE d == pendingHandshakes[n][m]
  <2>1. d \in Conn /\ Adv(n, m) /\ pendingHandshakes'[n][m] = d
    BY <1>3, <1>a DEF SendHelloHandshake, mapVars
  <2>2. CASE d = c
    BY <1>3, <2>1, <2>2
       DEF SendHelloHandshake, AttemptAdvances, Advances, TypeOK
  <2>3. CASE d # c
    BY <1>3, <2>1, <2>3
       DEF SendHelloHandshake, AttemptAdvances, Advances, TypeOK
  <2>4. QED
    BY <2>2, <2>3
<1>4. ASSUME NEW c \in Conn, RespondToHello(c) PROVE AttemptsAdvance'
  <2> SUFFICES ASSUME NEW n \in Node, NEW m \in Node,
                      pendingHandshakes'[n][m] # None
               PROVE  Adv(n, m)'
    BY <1>0
  <2> DEFINE d == pendingHandshakes[n][m]
  <2>1. d \in Conn /\ Adv(n, m) /\ pendingHandshakes'[n][m] = d
    BY <1>4, <1>a DEF RespondToHello
  <2>2. QED
    BY <1>4, <2>1
       DEF RespondToHello, AttemptAdvances, Advances, TypeOK
<1>5. ASSUME NEW c \in Conn, HandleHelloReply(c) PROVE AttemptsAdvance'
  <2> SUFFICES ASSUME NEW n \in Node, NEW m \in Node,
                      pendingHandshakes'[n][m] # None
               PROVE  Adv(n, m)'
    BY <1>0
  <2> DEFINE d == pendingHandshakes[n][m]
  <2>1. CASE CleanupPendingHandshake(Initiator(c), peerOf[c], sock)
    <3>1. /\ pendingHandshakes'[n][m] = d /\ d \in Conn
          /\ ~(n = Initiator(c) /\ m = peerOf[c])
          /\ Initiator(d) = n /\ peerOf[d] = m
          /\ sock'[d] = sock[d]
      <4>1. sock \in [Conn -> Socks]
        BY DEF TypeOK
      <4>2. QED
        BY <2>1, <1>b, <4>1, CleanupSpares
    <3>2. d # c
      BY <3>1
    <3>3. frame'[d] = frame[d] /\ Adv(n, m)
      BY <1>5, <1>a, <3>1, <3>2 DEF HandleHelloReply, TypeOK
    <3>4. QED
      BY <1>5, <3>1, <3>2, <3>3
         DEF HandleHelloReply, AttemptAdvances, Advances, TypeOK
  <2>2. CASE /\ keyed' = keyed \cup {c}
             /\ frame' = [frame EXCEPT ![c] = "AUTH"]
             /\ UNCHANGED <<pendingHandshakes, sock>>
    <3>1. d \in Conn /\ Adv(n, m) /\ pendingHandshakes'[n][m] = d
      BY <2>2, <1>a
    <3>2. CASE d # c
      BY <1>5, <2>2, <3>1, <3>2
         DEF HandleHelloReply, AttemptAdvances, Advances, TypeOK
    <3>3. CASE d = c
      <4>1. c \in served \/ c \in severed
        BY <1>5 DEF HandleHelloReply, AnsweredIsServed
      <4>2. QED
        BY <1>5, <2>2, <3>1, <3>3, <4>1
           DEF HandleHelloReply, AttemptAdvances, Advances, TypeOK
    <3>4. QED
      BY <3>2, <3>3
  <2>3. QED
    BY <1>5, <2>1, <2>2 DEF HandleHelloReply
<1>6. ASSUME NEW c \in Conn, RespondToAuth(c) PROVE AttemptsAdvance'
  <2> SUFFICES ASSUME NEW n \in Node, NEW m \in Node,
                      pendingHandshakes'[n][m] # None
               PROVE  Adv(n, m)'
    BY <1>0
  <2> DEFINE d == pendingHandshakes[n][m]
  <2>1. /\ d \in Conn /\ Adv(n, m) /\ pendingHandshakes'[n][m] = d
        /\ Initiator(d) = n
    BY <1>6, <1>a DEF RespondToAuth
  <2>2. CASE d # c
    <3>1. frame'[d] = frame[d]
      BY <1>6, <2>1, <2>2 DEF RespondToAuth, TypeOK
    <3>2. QED
      BY <1>6, <2>1, <3>1 DEF RespondToAuth, AttemptAdvances, Advances
  <2>3. CASE d = c /\ GoodSignature(Initiator(c))
    <3>1. frame'[c] = "AUTH_OK" /\ c \in keyed
      BY <1>6, <2>3
         DEF RespondToAuth, TypeOK, ConnInv, HandshakeOrder, GoodSignature
    <3>2. QED
      BY <1>6, <2>1, <2>3, <3>1
         DEF RespondToAuth, AttemptAdvances, Advances
  <2>4. CASE d = c /\ ~GoodSignature(Initiator(c))
    <3>1. n \in BadKey
      BY <2>1, <2>4 DEF GoodSignature
    <3>2. QED
      BY <1>6, <2>1, <3>1 DEF RespondToAuth, AttemptAdvances, Advances
  <2>5. QED
    BY <2>2, <2>3, <2>4
<1>7. ASSUME NEW c \in Conn,
             HandleAuthOk(c) \/ SocketError(c) \/ SocketClose(c)
      PROVE  AttemptsAdvance'
  <2> SUFFICES ASSUME NEW n \in Node, NEW m \in Node,
                      pendingHandshakes'[n][m] # None
               PROVE  Adv(n, m)'
    BY <1>0
  <2> DEFINE d == pendingHandshakes[n][m]
             Own(s) == CleanupPendingHandshake(Initiator(c), peerOf[c], s)
  <2>1. \/ Own(sock)
        \/ Own([sock EXCEPT ![c] = "closed"])
        \/ Own([sock EXCEPT ![c] = "gone"])
    BY <1>7 DEF HandleAuthOk, SocketError, SocketClose
  <2>2. PICK s \in [Conn -> Socks] :
          /\ Own(s)
          /\ \A e \in Conn : e # c => s[e] = sock[e]
    <3>1. sock \in [Conn -> Socks]
      BY DEF TypeOK
    <3>2. /\ [sock EXCEPT ![c] = "closed"] \in [Conn -> Socks]
          /\ [sock EXCEPT ![c] = "gone"] \in [Conn -> Socks]
          /\ \A e \in Conn : e # c =>
               /\ [sock EXCEPT ![c] = "closed"][e] = sock[e]
               /\ [sock EXCEPT ![c] = "gone"][e] = sock[e]
      BY <3>1 DEF Socks
    <3>3. QED
      BY <2>1, <3>1, <3>2
  <2>3. /\ pendingHandshakes'[n][m] = d /\ d \in Conn
        /\ ~(n = Initiator(c) /\ m = peerOf[c])
        /\ Initiator(d) = n /\ peerOf[d] = m
        /\ sock'[d] = s[d]
    BY <2>2, <1>b, CleanupSpares
  <2>4. d # c
    BY <2>3
  <2>5. sock'[d] = sock[d] /\ Adv(n, m) /\ d # None
    BY <2>2, <2>3, <2>4, <1>a
  <2>6. frame'[d] = frame[d]
    BY <1>7, <2>3, <2>4 DEF HandleAuthOk, SocketError, SocketClose, TypeOK
  <2>7. UNCHANGED <<keyed, served, severed>>
    BY <1>7 DEF HandleAuthOk, SocketError, SocketClose
  <2>8. QED
    BY <2>3, <2>5, <2>6, <2>7 DEF AttemptAdvances, Advances
<1>8. ASSUME NEW c \in Conn, PeerClosed(c) PROVE AttemptsAdvance'
  <2> SUFFICES ASSUME NEW n \in Node, NEW m \in Node,
                      pendingHandshakes'[n][m] # None
               PROVE  Adv(n, m)'
    BY <1>0
  <2> DEFINE d == pendingHandshakes[n][m]
  <2>1. d \in Conn /\ Adv(n, m) /\ pendingHandshakes'[n][m] = d
    BY <1>8, <1>a DEF PeerClosed, mapVars
  <2>2. sock'[d] = sock[d] \/ sock'[d] = "closed"
    BY <1>8, <2>1 DEF PeerClosed, TypeOK
  <2>3. QED
    BY <1>8, <2>1, <2>2 DEF PeerClosed, AttemptAdvances, Advances
<1>9. ASSUME NEW n \in Node, NEW m \in Node, NEW b \in Msg,
             SendEncryptedMessage(n, m, b)
      PROVE  AttemptsAdvance'
  BY <1>9, <1>2, InitiateHandshakeAttempts DEF SendEncryptedMessage
<1>10. ASSUME NEW n \in Node, NEW m \in Node, NEW u \in Client,
              ConnectPeer(n, u, m)
       PROVE  AttemptsAdvance'
  BY <1>10, InitiateHandshakeAttempts DEF ConnectPeer
<1>11. ASSUME NEW i \in Node, Restart(i) PROVE AttemptsAdvance'
  <2> SUFFICES ASSUME NEW n \in Node, NEW m \in Node,
                      pendingHandshakes'[n][m] # None
               PROVE  Adv(n, m)'
    BY <1>0
  <2> DEFINE d == pendingHandshakes[n][m]
  <2>1. n # i /\ pendingHandshakes'[n][m] = d
    BY <1>11 DEF Restart, TypeOK
  <2>2. d \in Conn /\ Adv(n, m) /\ Initiator(d) = n
    BY <2>1, <1>a
  <2>3. sock'[d] = sock[d] /\ keyed' = keyed
    BY <1>11, <2>1, <2>2 DEF Restart
  <2>4. severed \subseteq severed'
    BY <1>11 DEF Restart
  <2>5. CASE sock[d] = "open" /\ hostOf[d] = i
    BY <1>11, <2>2, <2>3, <2>5 DEF Restart, AttemptAdvances
  <2>6. CASE hostOf[d] # i
    <3>1. frame'[d] = frame[d] /\ (d \in served => d \in served')
      BY <1>11, <2>2, <2>6 DEF Restart
    <3>2. QED
      BY <2>1, <2>2, <2>3, <2>4, <3>1 DEF AttemptAdvances, Advances
  <2>7. CASE sock[d] # "open"
    BY <2>1, <2>2, <2>3, <2>7 DEF AttemptAdvances, Advances
  <2>8. QED
    BY <2>5, <2>6, <2>7
<1>12. QED
  <2>1. ASSUME NEW n \in Node, CleanStalePeers(n) PROVE AttemptsAdvance'
    BY <2>1, <1>2 DEF CleanStalePeers, connVars
  <2>2. ASSUME NEW w \in wire, HandleServerEncryptedMessage(w) \/ LoseMessage(w)
        PROVE  AttemptsAdvance'
    BY <2>2, <1>2 DEF HandleServerEncryptedMessage, LoseMessage, mapVars, connVars
  <2>3. ASSUME NEW n \in Node, NEW m \in Node, ConnectTimeout(n, m)
        PROVE  AttemptsAdvance'
    BY <2>3, <1>2 DEF ConnectTimeout, connVars
  <2>4. CASE UNCHANGED vars
    BY <2>4, <1>2 DEF vars, mapVars, connVars
  <2>5. CASE Next
    BY <2>5, <1>1, <1>3, <1>4, <1>5, <1>6, <1>7, <1>8, <1>9, <1>10, <1>11,
       <2>1, <2>2, <2>3 DEF Next
  <2>6. QED
    BY <2>4, <2>5

\* An attempt that keeps every other one for its peer from being made has a
\* next step of its own, whatever interleaves, unless the responder's process
\* is gone or ignores the initiator's bad signature: initiateHandshake blocks
\* a peer for ever in these two cases only.
THEOREM AttemptsNeverStuck == Spec => []AttemptsAdvance
<1>1. Init => AnsweredIsServed /\ AttemptsAdvance
  BY DEF Init, AnsweredIsServed, AttemptsAdvance, Conn
<1>2. /\ TypeOK /\ ConnInv /\ AnsweredIsServed /\ AttemptsAdvance
      /\ [Next]_vars
      => AnsweredIsServed' /\ AttemptsAdvance'
  BY NextAnswered, NextAttempts
<1>3. QED
  BY <1>1, <1>2, ConnectionsCorrect, PTL DEF Spec

-----------------------------------------------------------------------------
(***************************************************************************)
(* The sessions and the messages sent under them.                          *)
(***************************************************************************)

\* The ends of a connection do not change once a session was derived on it.
LEMMA EndsStable ==
  ASSUME TypeOK, ConnInv, [Next]_vars, NEW n \in Node, NEW m \in Node,
         NEW c \in accepted, Ends(n, m, c)
  PROVE  c \in accepted' /\ Ends(n, m, c)'
<1> USE SessionAssumption
<1>1. c \in Conn /\ c \in keyed /\ Initiator(c) \in Node
  BY DEF TypeOK, ConnInv, HandshakeOrder, Conn, Initiator
<1>2. c[2] <= opened[Initiator(c)] /\ opened[Initiator(c)] \in Nat
  BY <1>1 DEF ConnInv, UnusedConnections, TypeOK, Conn
<1>3. ASSUME NEW i \in Node, NEW j \in Node, NEW h \in Node,
             NEW force \in BOOLEAN, InitiateHandshake(i, j, h, force)
      PROVE  hostOf'[c] = hostOf[c]
  <2>1. <<i, opened[i] + 1>> # c
    BY <1>1, <1>2 DEF Initiator
  <2>2. QED
    BY <1>1, <1>3, <2>1 DEF InitiateHandshake, TypeOK
<1>4. hostOf'[c] = hostOf[c]
  <2>1. ASSUME NEW i \in Node, NEW j \in Node, UpsertPeer(i, j)
        PROVE  hostOf'[c] = hostOf[c]
    <3>1. PICK h \in Routes[j] : InitiateHandshake(i, j, h, FALSE)
      BY <2>1 DEF UpsertPeer
    <3>2. QED
      BY <1>3, <3>1
  <2>2. ASSUME NEW i \in Node, NEW j \in Node, NEW b \in Msg,
               SendEncryptedMessage(i, j, b)
        PROVE  hostOf'[c] = hostOf[c]
    <3>1. \/ UNCHANGED hostOf
          \/ InitiateHandshake(i, j, peers[i][j], TRUE) /\ peers[i][j] \in Node
      BY <2>2 DEF SendEncryptedMessage
    <3>2. QED
      BY <1>3, <3>1
  <2>3. ASSUME NEW i \in Node, NEW j \in Node, NEW u \in Client,
               ConnectPeer(i, u, j)
        PROVE  hostOf'[c] = hostOf[c]
    BY <1>3, <2>3 DEF ConnectPeer
  <2>4. ASSUME UNCHANGED hostOf PROVE hostOf'[c] = hostOf[c]
    BY <2>4
  <2>5. QED
    BY <2>1, <2>2, <2>3, <2>4
       DEF Next, CleanStalePeers, SendHelloHandshake, RespondToHello,
           HandleHelloReply, RespondToAuth, HandleAuthOk, SocketError,
           PeerClosed, SocketClose, HandleServerEncryptedMessage,
           LoseMessage, ConnectTimeout, Restart, vars, connVars
<1>5. keyed \subseteq keyed' /\ accepted \subseteq accepted'
  BY DEF Next, UpsertPeer, CleanStalePeers, SendHelloHandshake,
         RespondToHello, HandleHelloReply, RespondToAuth, HandleAuthOk,
         SocketError, PeerClosed, SocketClose, SendEncryptedMessage,
         HandleServerEncryptedMessage, LoseMessage, ConnectPeer,
         ConnectTimeout, Restart, vars, connVars
<1>6. QED
  BY <1>1, <1>4, <1>5 DEF Ends

\* Sessions that one step leaves in place stay good, and so do messages.
LEMMA AgreementKept ==
  ASSUME TypeOK, SessionInv, [Next]_vars,
         \A n, m \in Node : sessions'[n][m] \in {sessions[n][m], None}
  PROVE  SessionAgreement'
<1> SUFFICES ASSUME NEW n \in Node, NEW m \in Node, NEW c,
                    c = sessions'[n][m], c # None
             PROVE  c \in accepted' /\ Ends(n, m, c)'
  BY DEF SessionAgreement
<1>1. c = sessions[n][m] /\ c \in accepted /\ Ends(n, m, c)
  BY DEF SessionInv, SessionAgreement
<1>2. QED
  BY <1>1, EndsStable DEF SessionInv

LEMMA WireKept ==
  ASSUME TypeOK, SessionInv, [Next]_vars, wire' \subseteq wire
  PROVE  WireUnderSession'
<1> SUFFICES ASSUME NEW w \in wire'
             PROVE  w.key \in accepted' /\ Ends(w.from, w.to, w.key)'
  BY DEF WireUnderSession
<1>1. w \in wire /\ w.from \in Node /\ w.to \in Node
  BY DEF TypeOK, Mail
<1>2. w.key \in accepted /\ Ends(w.from, w.to, w.key)
  BY <1>1 DEF SessionInv, WireUnderSession
<1>3. QED
  BY <1>1, <1>2, EndsStable DEF SessionInv

\* Storing the session of an accepted connection at one of its ends, and
\* sending the queue and the greeting under it, keeps both.
LEMMA StoreSessionInv ==
  ASSUME TypeOK, SessionInv, [Next]_vars, NEW n \in Node, NEW m \in Node,
         NEW c \in accepted', Ends(n, m, c)', StoreSession(n, m, c)
  PROVE  SessionAgreement' /\ WireUnderSession'
<1>1. SessionAgreement'
  <2> SUFFICES ASSUME NEW i \in Node, NEW j \in Node, NEW d,
                      d = sessions'[i][j], d # None
               PROVE  d \in accepted' /\ Ends(i, j, d)'
    BY DEF SessionAgreement
  <2>1. CASE i = n /\ j = m
    <3>1. d = c
      BY <2>1 DEF StoreSession, TypeOK
    <3>2. QED
      BY <2>1, <3>1
  <2>2. CASE ~(i = n /\ j = m)
    <3>1. d = sessions[i][j] /\ d \in accepted /\ Ends(i, j, d)
      BY <2>2 DEF StoreSession, TypeOK, SessionInv, SessionAgreement
    <3>2. QED
      BY <3>1, EndsStable DEF SessionInv
  <2>3. QED
    BY <2>1, <2>2
<1>2. WireUnderSession'
  <2> SUFFICES ASSUME NEW w \in wire'
               PROVE  w.key \in accepted' /\ Ends(w.from, w.to, w.key)'
    BY DEF WireUnderSession
  <2>1. CASE w \in wire
    <3>1. /\ w.from \in Node /\ w.to \in Node
          /\ w.key \in accepted /\ Ends(w.from, w.to, w.key)
      BY <2>1 DEF TypeOK, Mail, SessionInv, WireUnderSession
    <3>2. QED
      BY <3>1, EndsStable DEF SessionInv
  <2>2. CASE w \in Encrypted(n, m, c, pendingMessages[n][m] \cup Greetings)
    <3>1. w.from = n /\ w.to = m /\ w.key = c
      BY <2>2 DEF Encrypted
    <3>2. QED
      BY <3>1
  <2>3. QED
    BY <2>1, <2>2 DEF StoreSession
<1>3. QED
  BY <1>1, <1>2

LEMMA NextSessionInv ==
  ASSUME TypeOK, SessionInv, [Next]_vars
  PROVE  SessionInv'
<1> USE SessionAssumption DEF Frames
<1>1. ConnInv'
  BY NextConnInv DEF SessionInv
<1>2. ASSUME \A n, m \in Node : sessions'[n][m] \in {sessions[n][m], None},
             wire' \subseteq wire
      PROVE  SessionInv'
  BY <1>1, <1>2, AgreementKept, WireKept DEF SessionInv
<1>3. ASSUME NEW c \in Conn, RespondToAuth(c) PROVE SessionInv'
  <2>1. CASE ~GoodSignature(Initiator(c))
    BY <1>2, <1>3, <2>1 DEF RespondToAuth
  <2>2. CASE GoodSignature(Initiator(c))
    <3>1. PICK h \in Node, i \in Node : h = hostOf[c] /\ i = Initiator(c)
      BY DEF TypeOK, Conn, Initiator
    <3>2. StoreSession(h, i, c) /\ c \in accepted' /\ Ends(h, i, c)'
      BY <1>3, <2>2, <3>1 DEF RespondToAuth, Ends
    <3>3. QED
      BY <1>1, <3>2, StoreSessionInv DEF SessionInv
  <2>3. QED
    BY <2>1, <2>2
<1>4. ASSUME NEW c \in Conn, HandleAuthOk(c) PROVE SessionInv'
  <2>1. PICK i \in Node, h \in Node : i = Initiator(c) /\ h = hostOf[c]
    BY DEF TypeOK, Conn, Initiator
  <2>2. c \in accepted
    BY <1>4 DEF HandleAuthOk, SessionInv, ConnInv, HandshakeOrder
  <2>3. StoreSession(i, h, c) /\ c \in accepted' /\ Ends(i, h, c)'
    BY <1>4, <2>1, <2>2 DEF HandleAuthOk, Ends
  <2>4. QED
    BY <1>1, <2>3, StoreSessionInv DEF SessionInv
<1>5. ASSUME NEW n \in Node, NEW m \in Node, NEW b \in Msg,
             SendEncryptedMessage(n, m, b)
      PROVE  SessionInv'
  <2>1. CASE sessions[n][m] = None
    BY <1>2, <1>5, <2>1 DEF SendEncryptedMessage
  <2>2. CASE sessions[n][m] # None
    <3>1. SessionAgreement'
      BY <1>5, AgreementKept DEF SendEncryptedMessage
    <3>2. ASSUME NEW w \in wire'
          PROVE  w.key \in accepted' /\ Ends(w.from, w.to, w.key)'
      <4>1. CASE w \in wire
        <5>1. /\ w.from \in Node /\ w.to \in Node
              /\ w.key \in accepted /\ Ends(w.from, w.to, w.key)
          BY <4>1 DEF TypeOK, Mail, SessionInv, WireUnderSession
        <5>2. QED
          BY <5>1, EndsStable DEF SessionInv
      <4>2. CASE w \in Encrypted(n, m, sessions[n][m], {b})
        <5>1. w.from = n /\ w.to = m /\ w.key = sessions[n][m]
          BY <4>2 DEF Encrypted
        <5>2. sessions[n][m] \in accepted /\ Ends(n, m, sessions[n][m])
          BY <2>2 DEF SessionInv, SessionAgreement
        <5>3. QED
          BY <5>1, <5>2, EndsStable DEF SessionInv
      <4>3. QED
        BY <1>5, <2>2, <3>2, <4>1, <4>2 DEF SendEncryptedMessage
    <3>3. WireUnderSession'
      BY <3>2 DEF WireUnderSession
    <3>4. QED
      BY <1>1, <3>1, <3>3 DEF SessionInv
  <2>3. QED
    BY <2>1, <2>2
<1>6. ASSUME NEW n \in Node, Restart(n) PROVE SessionInv'
  <2>1. \A i, j \in Node : sessions'[i][j] \in {sessions[i][j], None}
    BY <1>6 DEF Restart, TypeOK
  <2>2. QED
    BY <1>2, <1>6, <2>1 DEF Restart
<1>7. ASSUME UNCHANGED sessions, wire' \subseteq wire PROVE SessionInv'
  BY <1>2, <1>7
<1>8. QED
  BY <1>3, <1>4, <1>5, <1>6, <1>7
     DEF Next, UpsertPeer, CleanStalePeers, SendHelloHandshake,
         RespondToHello, HandleHelloReply, SocketError, PeerClosed,
         SocketClose, HandleServerEncryptedMessage, LoseMessage,
         ConnectPeer, ConnectTimeout, vars, mapVars, userVars

\* The types and the invariant the theorems below rest on: which sockets,
\* attempts, sessions and messages of the nodes can exist side by side.
THEOREM SessionsCorrect == Spec => [](TypeOK /\ SessionInv)
<1>1. Init => TypeOK /\ SessionInv
  BY InitType, InitConnInv
     DEF Init, SessionInv, SessionAgreement, WireUnderSession
<1>2. TypeOK /\ SessionInv /\ [Next]_vars => TypeOK' /\ SessionInv'
  BY NextType, NextSessionInv
<1>3. QED
  BY <1>1, <1>2, PTL DEF Spec

\* A session is always the outcome of a whole handshake between the two
\* nodes that hold it, for any number of nodes, failures and restarts.
THEOREM SessionsAgree == Spec => []SessionAgreement
<1>1. SessionInv => SessionAgreement
  BY DEF SessionInv
<1>2. QED
  BY <1>1, SessionsCorrect, PTL

\* No node but the addressee opens a message, wherever its connection ends:
\* the node that opens it holds the key with the sender, hence is the other
\* end of the handshake the key comes from.
THEOREM ReadOnlyByAddressee == Spec => []OnlyAddresseeCanRead
<1>1. ASSUME TypeOK, SessionInv PROVE OnlyAddresseeCanRead
  <2> SUFFICES ASSUME NEW w \in wire, Opens(w) PROVE w.host = w.to
    BY DEF OnlyAddresseeCanRead
  <2>1. w.host \in Node /\ w.from \in Node /\ w.key \in Conn
    BY <1>1 DEF TypeOK, Mail
  <2>2. sessions[w.host][w.from] = w.key /\ w.key # None
    BY <2>1, SessionAssumption DEF Opens, Conn
  <2>3. Ends(w.host, w.from, w.key)
    BY <1>1, <2>1, <2>2 DEF SessionInv, SessionAgreement
  <2>4. Ends(w.from, w.to, w.key)
    BY <1>1 DEF SessionInv, WireUnderSession
  <2>5. QED
    BY <2>3, <2>4 DEF Ends
<1>2. QED
  BY <1>1, SessionsCorrect, PTL

\* A node that announces a key it cannot sign with never gets a session,
\* and nobody gets one with it, on either side of the handshake.
THEOREM SessionsAuthentic == Spec => []Authentication
<1>1. ASSUME TypeOK, SessionInv PROVE Authentication
  <2> SUFFICES ASSUME NEW n \in Node, NEW m \in Node, sessions[n][m] # None
               PROVE  n \notin BadKey /\ m \notin BadKey
    BY DEF Authentication
  <2>1. sessions[n][m] \in accepted /\ Ends(n, m, sessions[n][m])
    BY <1>1 DEF SessionInv, SessionAgreement
  <2>2. sessions[n][m] \in keyed
    BY <1>1, <2>1 DEF SessionInv, ConnInv, HandshakeOrder
  <2>3. QED
    BY <1>1, <2>1, <2>2 DEF Ends, SessionInv, ConnInv, VerifiedKeys
<1>2. QED
  BY <1>1, SessionsCorrect, PTL

-----------------------------------------------------------------------------
(***************************************************************************)
(* The texts of the users, and the clients that wait.                      *)
(***************************************************************************)

\* Each step leaves the queues and waiters of a peer alone, empties them, or
\* adds to them where there is no session.
LEMMA NextNothingWaits ==
  ASSUME TypeOK, NothingWaitsBehindSession, [Next]_vars
  PROVE  NothingWaitsBehindSession'
<1> USE DEF NothingWaitsBehindSession
<1>1. ASSUME UNCHANGED <<sessions, pendingMessages, handshakeWaiters>>
      PROVE  NothingWaitsBehindSession'
  BY <1>1
<1>2. ASSUME NEW n \in Node, NEW m \in Node, NEW c, StoreSession(n, m, c)
      PROVE  NothingWaitsBehindSession'
  BY <1>2 DEF StoreSession, TypeOK
<1>3. ASSUME NEW c \in Conn, RespondToAuth(c)
      PROVE  NothingWaitsBehindSession'
  <2>1. hostOf[c] \in Node /\ Initiator(c) \in Node
    BY DEF TypeOK, Conn, Initiator
  <2>2. \/ UNCHANGED <<sessions, pendingMessages, handshakeWaiters>>
        \/ StoreSession(hostOf[c], Initiator(c), c)
    BY <1>3 DEF RespondToAuth
  <2>3. QED
    BY <1>1, <1>2, <2>1, <2>2
<1>4. ASSUME NEW c \in Conn, HandleAuthOk(c) PROVE NothingWaitsBehindSession'
  <2>1. hostOf[c] \in Node /\ Initiator(c) \in Node
    BY DEF TypeOK, Conn, Initiator
  <2>2. QED
    BY <1>2, <1>4, <2>1 DEF HandleAuthOk
<1>5. ASSUME NEW n \in Node, NEW m \in Node, NEW b \in Msg,
             SendEncryptedMessage(n, m, b)
      PROVE  NothingWaitsBehindSession'
  <2>1. CASE sessions[n][m] # None
    BY <1>1, <1>5, <2>1 DEF SendEncryptedMessage
  <2>2. CASE sessions[n][m] = None
    <3>1. \A i, j \in Node : (i # n \/ j # m) =>
            pendingMessages'[i][j] = pendingMessages[i][j]
      BY <1>5, <2>2 DEF SendEncryptedMessage, TypeOK
    <3>2. UNCHANGED <<sessions, handshakeWaiters>>
      BY <1>5 DEF SendEncryptedMessage
    <3>3. QED
      BY <2>2, <3>1, <3>2
  <2>3. QED
    BY <2>1, <2>2
<1>6. ASSUME NEW n \in Node, NEW m \in Node, NEW u \in Client,
             ConnectPeer(n, u, m)
      PROVE  NothingWaitsBehindSession'
  BY <1>6 DEF ConnectPeer, TypeOK
<1>7. ASSUME NEW n \in Node, NEW m \in Node, ConnectTimeout(n, m)
      PROVE  NothingWaitsBehindSession'
  BY <1>7 DEF ConnectTimeout, TypeOK
<1>8. ASSUME NEW n \in Node, Restart(n) PROVE NothingWaitsBehindSession'
  BY <1>8 DEF Restart, TypeOK
<1>9. QED
  BY <1>1, <1>3, <1>4, <1>5, <1>6, <1>7, <1>8
     DEF Next, UpsertPeer, CleanStalePeers, SendHelloHandshake,
         RespondToHello, HandleHelloReply, SocketError, PeerClosed,
         SocketClose, HandleServerEncryptedMessage, LoseMessage, vars, mapVars

\* Whichever side of whichever handshake makes the session, no text stays in
\* the queue and no client keeps waiting behind it.
THEOREM NothingLeftWaiting == Spec => []NothingWaitsBehindSession
<1>1. Init => TypeOK /\ NothingWaitsBehindSession
  BY InitType DEF Init, NothingWaitsBehindSession
<1>2. /\ TypeOK /\ NothingWaitsBehindSession /\ [Next]_vars
      => TypeOK' /\ NothingWaitsBehindSession'
  BY NextType, NextNothingWaits
<1>3. QED
  BY <1>1, <1>2, PTL DEF Spec

FateInv == OneFate /\ OnlySentTexts

\* Sending the queue moves each of its texts onto the network, once: there is
\* one address to send it to.
LEMMA StoreSessionFate ==
  ASSUME TypeOK, FateInv, NEW n \in Node, NEW m \in Node, NEW c,
         StoreSession(n, m, c), UNCHANGED <<sent, read>>
  PROVE  FateInv'
<1> USE SessionAssumption
<1> DEFINE queued == pendingMessages[n][m]
<1>1. \A i, j \in Node :
        pendingMessages'[i][j] =
          IF i = n /\ j = m THEN {} ELSE pendingMessages[i][j]
  BY DEF StoreSession, TypeOK
<1>2. \A w \in wire' : w \in wire \/ w.body \in queued \/ w.body \in Greetings
  BY DEF StoreSession, Encrypted
<1>3. \A v, w \in Encrypted(n, m, c, queued \cup Greetings) :
        v.body = w.body => v = w
  BY DEF Encrypted
<1>4. \A w \in Encrypted(n, m, c, queued \cup Greetings) :
        w.body \in Msg => w.body \in queued
  BY DEF Encrypted
<1>5. queued \subseteq Msg /\ read \subseteq Msg
  BY DEF TypeOK
<1>6. \A v, w \in wire' : v.body = w.body /\ v.body \in Msg => v = w
  BY <1>3, <1>4 DEF StoreSession, FateInv, OneFate
<1>7. \A i, j \in Node, w \in wire' : w.body \notin pendingMessages'[i][j]
  <2> SUFFICES ASSUME NEW i \in Node, NEW j \in Node, NEW w \in wire',
                      w.body \in pendingMessages'[i][j]
               PROVE  FALSE
    OBVIOUS
  <2>1. ~(i = n /\ j = m) /\ w.body \in pendingMessages[i][j] /\ w.body \in Msg
    BY <1>1 DEF TypeOK
  <2>2. w \in wire \/ w.body \in queued
    BY <1>2, <2>1
  <2>3. QED
    BY <2>1, <2>2 DEF FateInv, OneFate
<1>8. \A w \in wire' : w.body \notin read'
  BY <1>2, <1>5 DEF FateInv, OneFate
<1>9. OneFate'
  <2>1. \A i, j, k, l \in Node :
          pendingMessages'[i][j] \cap pendingMessages'[k][l] # {}
            => i = k /\ j = l
    BY <1>1 DEF FateInv, OneFate
  <2>2. \A i, j \in Node : pendingMessages'[i][j] \cap read' = {}
    BY <1>1 DEF FateInv, OneFate
  <2>3. QED
    BY <1>6, <1>7, <1>8, <2>1, <2>2 DEF OneFate
<1>10. OnlySentTexts'
  BY <1>1, <1>2 DEF FateInv, OnlySentTexts
<1>11. QED
  BY <1>9, <1>10 DEF FateInv

LEMMA NextFate ==
  ASSUME TypeOK, FateInv, [Next]_vars
  PROVE  FateInv'
<1> USE SessionAssumption
<1>1. ASSUME UNCHANGED <<pendingMessages, wire, sent, read>> PROVE FateInv'
  BY <1>1 DEF FateInv, OneFate, OnlySentTexts
<1>2. ASSUME NEW c \in Conn, RespondToAuth(c) PROVE FateInv'
  <2>1. hostOf[c] \in Node /\ Initiator(c) \in Node
    BY DEF TypeOK, Conn, Initiator
  <2>2. /\ UNCHANGED <<sent, read>>
        /\ \/ UNCHANGED <<pendingMessages, wire>>
           \/ StoreSession(hostOf[c], Initiator(c), c)
    BY <1>2 DEF RespondToAuth
  <2>3. QED
    BY <1>1, <2>1, <2>2, StoreSessionFate
<1>3. ASSUME NEW c \in Conn, HandleAuthOk(c) PROVE FateInv'
  <2>1. hostOf[c] \in Node /\ Initiator(c) \in Node
    BY DEF TypeOK, Conn, Initiator
  <2>2. QED
    BY <1>3, <2>1, StoreSessionFate DEF HandleAuthOk
<1>4. ASSUME NEW n \in Node, NEW m \in Node, NEW b \in Msg,
             SendEncryptedMessage(n, m, b)
      PROVE  FateInv'
  <2>1. b \notin sent /\ sent' = sent \cup {b} /\ read' = read
    BY <1>4 DEF SendEncryptedMessage
  <2>2. CASE sessions[n][m] # None
    <3>1. /\ pendingMessages' = pendingMessages
          /\ wire' = wire \cup Encrypted(n, m, sessions[n][m], {b})
      BY <1>4, <2>2 DEF SendEncryptedMessage
    <3>2. \A w \in wire' : w \in wire \/ w.body = b
      BY <3>1 DEF Encrypted
    <3>3. \A v, w \in wire' : v.body = w.body /\ v.body \in Msg => v = w
      <4>1. \A v, w \in Encrypted(n, m, sessions[n][m], {b}) : v = w
        BY DEF Encrypted
      <4>2. \A v \in wire, w \in Encrypted(n, m, sessions[n][m], {b}) :
              v.body # w.body
        BY <2>1 DEF Encrypted, FateInv, OnlySentTexts
      <4>3. QED
        BY <3>1, <4>1, <4>2 DEF FateInv, OneFate
    <3>4. OneFate'
      <4>1. /\ \A i, j \in Node : b \notin pendingMessages[i][j]
            /\ b \notin read
        BY <2>1 DEF FateInv, OnlySentTexts
      <4>2. ASSUME NEW w \in wire'
            PROVE  /\ \A i, j \in Node : w.body \notin pendingMessages'[i][j]
                   /\ w.body \notin read'
        <5>1. CASE w \in wire
          BY <2>1, <3>1, <5>1 DEF FateInv, OneFate
        <5>2. CASE w.body = b
          BY <2>1, <3>1, <4>1, <5>2
        <5>3. QED
          BY <3>2, <5>1, <5>2
      <4>3. /\ \A i, j, k, l \in Node :
                 pendingMessages'[i][j] \cap pendingMessages'[k][l] # {}
                   => i = k /\ j = l
            /\ \A i, j \in Node : pendingMessages'[i][j] \cap read' = {}
        BY <2>1, <3>1 DEF FateInv, OneFate
      <4>4. QED
        BY <3>3, <4>2, <4>3 DEF OneFate
    <3>5. OnlySentTexts'
      BY <2>1, <3>1, <3>2 DEF FateInv, OnlySentTexts
    <3>6. QED
      BY <3>4, <3>5 DEF FateInv
  <2>3. CASE sessions[n][m] = None
    <3>1. wire' = wire
      BY <1>4, <2>3 DEF SendEncryptedMessage
    <3>2. \A i, j \in Node :
            pendingMessages'[i][j] =
              IF i = n /\ j = m THEN pendingMessages[i][j] \cup {b}
                                ELSE pendingMessages[i][j]
      <4>1. pendingMessages' =
              [pendingMessages EXCEPT ![n][m] = pendingMessages[n][m] \cup {b}]
        BY <1>4, <2>3 DEF SendEncryptedMessage, TypeOK
      <4>2. pendingMessages[n] \in [Node -> SUBSET Msg]
        BY DEF TypeOK
      <4>3. QED
        BY <4>1, <4>2 DEF TypeOK
    <3>3. OneFate'
      <4>1. /\ \A i, j \in Node : b \notin pendingMessages[i][j]
            /\ \A w \in wire : w.body = b => b \notin Msg
            /\ b \notin read
        BY <2>1 DEF FateInv, OnlySentTexts
      <4>2. ASSUME NEW i \in Node, NEW j \in Node,
                   NEW x \in pendingMessages'[i][j]
            PROVE  \/ x \in pendingMessages[i][j]
                   \/ x = b /\ i = n /\ j = m
        <5>1. CASE i = n /\ j = m
          <6>1. pendingMessages'[n][m] = pendingMessages[n][m] \cup {b}
            BY <3>2
          <6>2. x \in pendingMessages[n][m] \cup {b}
            BY <4>2, <5>1, <6>1
          <6>3. QED
            BY <5>1, <6>2
        <5>2. CASE ~(i = n /\ j = m)
          BY <3>2, <4>2, <5>2
        <5>3. QED
          BY <5>1, <5>2
      <4>3. \A i, j, k, l \in Node :
              pendingMessages'[i][j] \cap pendingMessages'[k][l] # {}
                => i = k /\ j = l
        <5> SUFFICES ASSUME NEW i \in Node, NEW j \in Node, NEW k \in Node,
                            NEW l \in Node, NEW x \in pendingMessages'[i][j],
                            x \in pendingMessages'[k][l]
                     PROVE  i = k /\ j = l
          OBVIOUS
        <5>1. CASE x = b
          BY <4>1, <4>2, <5>1
        <5>2. CASE x # b
          <6>1. x \in pendingMessages[i][j] \cap pendingMessages[k][l]
            BY <4>2, <5>2
          <6>2. QED
            BY <6>1 DEF FateInv, OneFate
        <5>3. QED
          BY <5>1, <5>2
      <4>4. \A i, j \in Node, w \in wire' : w.body \notin pendingMessages'[i][j]
        BY <3>1, <4>1, <4>2 DEF FateInv, OneFate
      <4>5. \A i, j \in Node : pendingMessages'[i][j] \cap read' = {}
        BY <2>1, <4>1, <4>2 DEF FateInv, OneFate
      <4>6. QED
        BY <2>1, <3>1, <4>3, <4>4, <4>5 DEF FateInv, OneFate
    <3>4. OnlySentTexts'
      BY <2>1, <3>1, <3>2, ZenonT(30) DEF FateInv, OnlySentTexts
    <3>5. QED
      BY <3>3, <3>4 DEF FateInv
  <2>4. QED
    BY <2>2, <2>3
<1>5. ASSUME NEW w \in wire, HandleServerEncryptedMessage(w) \/ LoseMessage(w)
      PROVE  FateInv'
  <2>1. /\ wire' = wire \ {w}
        /\ UNCHANGED <<pendingMessages, sent>>
        /\ read' = read \/ read' = read \cup ({w.body} \cap Msg)
    BY <1>5 DEF HandleServerEncryptedMessage, LoseMessage, mapVars
  <2>2. OneFate'
    BY <2>1 DEF FateInv, OneFate
  <2>3. OnlySentTexts'
    BY <2>1 DEF FateInv, OnlySentTexts
  <2>4. QED
    BY <2>2, <2>3 DEF FateInv
<1>6. ASSUME NEW n \in Node, Restart(n) PROVE FateInv'
  <2>1. /\ \A i, j \in Node : pendingMessages'[i][j] \subseteq
                                pendingMessages[i][j]
        /\ UNCHANGED <<wire, sent, read>>
    BY <1>6 DEF Restart, TypeOK
  <2>2. OneFate'
    BY <2>1 DEF FateInv, OneFate
  <2>3. OnlySentTexts'
    BY <2>1 DEF FateInv, OnlySentTexts
  <2>4. QED
    BY <2>2, <2>3 DEF FateInv
<1>7. QED
  BY <1>1, <1>2, <1>3, <1>4, <1>5, <1>6
     DEF Next, UpsertPeer, CleanStalePeers, SendHelloHandshake,
         RespondToHello, HandleHelloReply, SocketError, PeerClosed,
         SocketClose, ConnectPeer, ConnectTimeout, vars, mapVars, userVars

\* However handshakes cross, fail and are retried, a text is never sent twice
\* and never queued while it travels or after it was read.
THEOREM TextsHaveOneFate == Spec => []OneFate
<1>1. Init => TypeOK /\ FateInv
  BY InitType DEF Init, FateInv, OneFate, OnlySentTexts
<1>2. TypeOK /\ FateInv /\ [Next]_vars => TypeOK' /\ FateInv'
  BY NextType, NextFate
<1>3. FateInv => OneFate
  BY DEF FateInv
<1>4. QED
  BY <1>1, <1>2, <1>3, PTL DEF Spec
=============================================================================
