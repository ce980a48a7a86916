------------------------ MODULE SessionDeliveryProofs ------------------------
(***************************************************************************)
(* More theorems about Session: what a session, a queued text and a        *)
(* waiting client can count on, and what goes wrong while nothing fails.   *)
(***************************************************************************)
EXTENDS SessionProofs

-----------------------------------------------------------------------------
(***************************************************************************)
(* The steps, as far as the invariants below see them.                     *)
(***************************************************************************)

tunnelVars == <<sock, peerOf, hostOf, frame, keyed, accepted, served, severed,
                sessions, errors, restarts>>

\* A step that opens the connection d, for m.
Begins(n, m, d) ==
  /\ d = <<n, opened[n] + 1>> /\ opened[n] < MaxConn
  /\ pendingHandshakes[n][m] = None
  /\ sessions[n][m] = None
  /\ sock' = [sock EXCEPT ![d] = "connecting"]
  /\ peerOf' = [peerOf EXCEPT ![d] = m]
  /\ \E h \in Node : hostOf' = [hostOf EXCEPT ![d] = h]
  /\ UNCHANGED <<frame, keyed, accepted, served, severed, sessions, errors,
                 restarts>>

\* Whoever asks for a handshake, one begins only where there is no session.
LEMMA InitiateHandshakeBegins ==
  ASSUME NEW n \in Node, NEW m \in Node, NEW h \in Node,
         NEW force \in BOOLEAN, InitiateHandshake(n, m, h, force),
         force => sessions[n][m] = None,
         UNCHANGED <<frame, keyed, accepted, served, severed, sessions, errors,
                     restarts>>
  PROVE  UNCHANGED tunnelVars \/ Begins(n, m, <<n, opened[n] + 1>>)
<1>1. CASE UNCHANGED <<pendingHandshakes, opened, sock, peerOf, hostOf>>
  BY <1>1 DEF tunnelVars
<1>2. CASE ~UNCHANGED <<pendingHandshakes, opened, sock, peerOf, hostOf>>
  BY <1>2 DEF InitiateHandshake, Begins
<1>3. QED
  BY <1>1, <1>2

LEMMA Steps ==
  ASSUME TypeOK, [Next]_vars
  PROVE  \/ UNCHANGED tunnelVars
         \/ \E n, m \in Node : Begins(n, m, <<n, opened[n] + 1>>)
         \/ \E c \in Conn : \/ SendHelloHandshake(c) \/ RespondToHello(c)
                            \/ HandleHelloReply(c) \/ RespondToAuth(c)
                            \/ HandleAuthOk(c) \/ SocketError(c)
                            \/ PeerClosed(c) \/ SocketClose(c)
         \/ \E n \in Node : Restart(n)
<1> USE SessionAssumption
<1> DEFINE Same == UNCHANGED tunnelVars
           New == \E n, m \in Node : Begins(n, m, <<n, opened[n] + 1>>)
<1>1. ASSUME NEW n \in Node, NEW m \in Node, UpsertPeer(n, m)
      PROVE  Same \/ New
  <2>1. PICK h \in Routes[m] : InitiateHandshake(n, m, h, FALSE)
    BY <1>1 DEF UpsertPeer
  <2>2. h \in Node
    OBVIOUS
  <2>3. UNCHANGED <<frame, keyed, accepted, served, severed, sessions, errors,
                    restarts>>
    BY <1>1 DEF UpsertPeer
  <2>4. QED
    BY <2>1, <2>2, <2>3, InitiateHandshakeBegins
<1>2. ASSUME NEW n \in Node, NEW m \in Node, NEW b \in Msg,
             SendEncryptedMessage(n, m, b)
      PROVE  Same \/ New
  <2>1. UNCHANGED <<frame, keyed, accepted, served, severed, sessions, errors,
                    restarts>>
    BY <1>2 DEF SendEncryptedMessage
  <2>2. CASE sessions[n][m] # None
    BY <1>2, <2>1, <2>2 DEF SendEncryptedMessage, tunnelVars
  <2>3. CASE sessions[n][m] = None
    BY <1>2, <2>1, <2>3, InitiateHandshakeBegins DEF SendEncryptedMessage
  <2>4. QED
    BY <2>2, <2>3
<1>3. ASSUME NEW n \in Node, NEW m \in Node, NEW u \in Client,
             ConnectPeer(n, u, m)
      PROVE  Same \/ New
  <2>1. UNCHANGED <<frame, keyed, accepted, served, severed, sessions, errors,
                    restarts>>
    BY <1>3 DEF ConnectPeer
  <2>2. QED
    BY <1>3, <2>1, InitiateHandshakeBegins DEF ConnectPeer
<1>4. ASSUME NEW n \in Node,
             CleanStalePeers(n) \/ (\E m \in Node : ConnectTimeout(n, m))
      PROVE  Same
  BY <1>4 DEF CleanStalePeers, ConnectTimeout, connVars, tunnelVars
<1>5. ASSUME NEW w \in wire, HandleServerEncryptedMessage(w) \/ LoseMessage(w)
      PROVE  Same
  BY <1>5 DEF HandleServerEncryptedMessage, LoseMessage, mapVars, connVars,
              tunnelVars
<1>6. CASE UNCHANGED vars
  BY <1>6 DEF vars, mapVars, connVars, tunnelVars
<1>7. QED
  BY <1>1, <1>2, <1>3, <1>4, <1>5, <1>6 DEF Next

\* A connection that begins was unused, and nothing was derived on it.
LEMMA BeginsUnused ==
  ASSUME TypeOK, ConnInv, NEW n \in Node, NEW m \in Node, NEW d,
         Begins(n, m, d)
  PROVE  /\ d \in Conn /\ Initiator(d) = n
         /\ sock[d] = "unused" /\ d \notin keyed /\ d \notin accepted
         /\ sock'[d] = "connecting" /\ peerOf'[d] = m
         /\ \A c \in Conn \ {d} : /\ sock'[c] = sock[c]
                                  /\ peerOf'[c] = peerOf[c]
                                  /\ hostOf'[c] = hostOf[c]
<1>1. d = <<n, opened[n] + 1>> /\ d \in Conn /\ opened[n] \in Nat
  BY NewConnection, SessionAssumption DEF Begins, TypeOK
<1>2. Initiator(d) = n /\ d[2] > opened[n]
  BY <1>1 DEF Initiator
<1>3. sock[d] = "unused" /\ d \notin keyed /\ d \notin accepted
  BY <1>1, <1>2 DEF ConnInv, UnusedConnections, HandshakeOrder
<1>4. QED
  BY <1>1, <1>2, <1>3 DEF Begins, TypeOK

\* A cleanup closes at most the socket registered for the peer.
LEMMA CleanupCloses ==
  ASSUME TypeOK, ConnInv, NEW n \in Node, NEW m \in Node,
         NEW s \in [Conn -> Socks], CleanupPendingHandshake(n, m, s),
         NEW d \in Conn
  PROVE  \/ sock'[d] = s[d]
         \/ /\ sock'[d] = "closed" /\ s[d] \in Live
            /\ Initiator(d) = n /\ peerOf[d] = m
<1> DEFINE c == pendingHandshakes[n][m]
<1>1. sock' = Destroy(s, c)
  BY DEF CleanupPendingHandshake
<1>2. CASE c = None \/ d # c
  BY <1>1, <1>2 DEF Destroy
<1>3. CASE c # None /\ d = c
  <2>1. Initiator(d) = n /\ peerOf[d] = m
    BY <1>3 DEF ConnInv, PendingIsOwn
  <2>2. QED
    BY <1>1, <1>3, <2>1 DEF Destroy
<1>4. QED
  BY <1>2, <1>3

-----------------------------------------------------------------------------
(***************************************************************************)
(* A session is not half of one.                                           *)
(***************************************************************************)

LEMMA NextFresh ==
  ASSUME TypeOK, ConnInv, FreshUnkeyed, [Next]_vars
  PROVE  FreshUnkeyed'
<1> USE SessionAssumption
<1> DEFINE Fresh(d) == \/ sock[d] \in {"unused", "connecting"}
                       \/ frame[d] \in {"HELLO", "HELLO_REPLY"}
<1> SUFFICES ASSUME NEW d \in Conn, Fresh(d)' PROVE d \notin keyed'
  BY DEF FreshUnkeyed
<1>0. Fresh(d) => d \notin keyed
  BY DEF FreshUnkeyed
<1>a. None \notin {"HELLO", "HELLO_REPLY"}
  BY DEF Frames
<1>b. ASSUME NEW c \in Conn
      PROVE  /\ Initiator(c) \in Node /\ peerOf[c] \in Node
             /\ sock \in [Conn -> Socks]
             /\ [sock EXCEPT ![c] = "closed"] \in [Conn -> Socks]
             /\ [sock EXCEPT ![c] = "gone"] \in [Conn -> Socks]
  BY DEF TypeOK, Conn, Initiator, Socks
<1>1. CASE UNCHANGED tunnelVars
  BY <1>0, <1>1 DEF tunnelVars
<1>2. ASSUME NEW n \in Node, NEW m \in Node,
             Begins(n, m, <<n, opened[n] + 1>>)
      PROVE  d \notin keyed'
  <2>1. keyed' = keyed /\ frame' = frame
    BY <1>2 DEF Begins
  <2>2. CASE d = <<n, opened[n] + 1>>
    BY <1>2, <2>1, <2>2, BeginsUnused
  <2>3. CASE d # <<n, opened[n] + 1>>
    <3>1. sock'[d] = sock[d]
      BY <1>2, <2>3, BeginsUnused
    <3>2. QED
      BY <1>0, <2>1, <3>1
  <2>4. QED
    BY <2>2, <2>3
<1>3. ASSUME NEW c \in Conn, SendHelloHandshake(c) PROVE d \notin keyed'
  <2>1. keyed' = keyed /\ sock[c] = "connecting"
    BY <1>3 DEF SendHelloHandshake
  <2>2. d # c => sock'[d] = sock[d] /\ frame'[d] = frame[d]
    BY <1>3 DEF SendHelloHandshake, TypeOK
  <2>3. QED
    BY <1>0, <2>1, <2>2
<1>4. ASSUME NEW c \in Conn, RespondToHello(c) PROVE d \notin keyed'
  <2>1. keyed' = keyed /\ frame[c] = "HELLO" /\ sock' = sock
    BY <1>4 DEF RespondToHello
  <2>2. d # c => frame'[d] = frame[d]
    BY <1>4 DEF RespondToHello, TypeOK
  <2>3. QED
    BY <1>0, <2>1, <2>2
<1>5. ASSUME NEW c \in Conn, HandleHelloReply(c) PROVE d \notin keyed'
  <2>1. CASE GoodSignature(hostOf[c])
    <3>1. /\ sock' = sock /\ sock[c] = "open"
          /\ keyed' = keyed \cup {c} /\ frame' = [frame EXCEPT ![c] = "AUTH"]
      BY <1>5, <2>1 DEF HandleHelloReply
    <3>2. d # c
      BY <3>1 DEF TypeOK
    <3>3. frame'[d] = frame[d]
      BY <3>1, <3>2 DEF TypeOK
    <3>4. QED
      BY <1>0, <3>1, <3>2, <3>3
  <2>2. CASE ~GoodSignature(hostOf[c])
    <3>1. /\ CleanupPendingHandshake(Initiator(c), peerOf[c], sock)
          /\ keyed' = keyed /\ frame' = [frame EXCEPT ![c] = None]
      BY <1>5, <2>2 DEF HandleHelloReply
    <3>2. sock'[d] = sock[d] \/ sock'[d] = "closed"
      BY <1>b, <3>1, CleanupCloses
    <3>3. frame'[d] = frame[d] \/ frame'[d] = None
      BY <3>1 DEF TypeOK
    <3>4. QED
      BY <1>0, <1>a, <3>1, <3>2, <3>3
  <2>3. QED
    BY <2>1, <2>2
<1>6. ASSUME NEW c \in Conn, RespondToAuth(c) PROVE d \notin keyed'
  <2>1. keyed' = keyed /\ sock' = sock
    BY <1>6 DEF RespondToAuth
  <2>2. frame'[d] \in {frame[d], None, "AUTH_OK"}
    BY <1>6 DEF RespondToAuth, TypeOK
  <2>3. QED
    BY <1>0, <1>a, <2>1, <2>2
<1>7. ASSUME NEW c \in Conn,
             HandleAuthOk(c) \/ SocketError(c) \/ SocketClose(c)
      PROVE  d \notin keyed'
  <2>1. keyed' = keyed /\ frame'[d] \in {frame[d], None}
    BY <1>7 DEF HandleAuthOk, SocketError, SocketClose, TypeOK
  <2>2. PICK s \in {sock, [sock EXCEPT ![c] = "closed"],
                    [sock EXCEPT ![c] = "gone"]} :
          CleanupPendingHandshake(Initiator(c), peerOf[c], s)
    BY <1>7 DEF HandleAuthOk, SocketError, SocketClose
  <2>3. s \in [Conn -> Socks] /\ s[d] \in {sock[d], "closed", "gone"}
    <3>1. s \in [Conn -> Socks]
      BY <1>b, <2>2
    <3>2. s[d] \in {sock[d], "closed", "gone"}
      BY <1>b, <2>2
    <3>3. QED
      BY <3>1, <3>2
  <2>4. sock'[d] = sock[d] \/ sock'[d] \notin {"unused", "connecting"}
    <3>1. sock'[d] = s[d] \/ sock'[d] = "closed"
      BY <1>b, <2>2, <2>3, CleanupCloses
    <3>2. QED
      BY <2>3, <3>1
  <2>5. frame'[d] = frame[d] \/ frame'[d] \notin {"HELLO", "HELLO_REPLY"}
    BY <1>a, <2>1
  <2>6. Fresh(d)
    BY <2>4, <2>5
  <2>7. QED
    BY <1>0, <2>1, <2>6
<1>8. ASSUME NEW c \in Conn, PeerClosed(c) PROVE d \notin keyed'
  <2>1. keyed' = keyed /\ frame' = frame /\ sock'[d] \in {sock[d], "closed"}
    BY <1>8 DEF PeerClosed, TypeOK
  <2>2. QED
    BY <1>0, <2>1
<1>9. ASSUME NEW n \in Node, Restart(n) PROVE d \notin keyed'
  <2>1. /\ keyed' = keyed
        /\ sock'[d] \in {sock[d], "gone"} /\ frame'[d] \in {frame[d], None}
    BY <1>9 DEF Restart
  <2>2. QED
    BY <1>0, <1>a, <2>1
<1>10. QED
  BY <1>1, <1>2, <1>3, <1>4, <1>5, <1>6, <1>7, <1>8, <1>9, Steps

\* storeSession adds a session and takes none away.
LEMMA StoreSessionAdds ==
  ASSUME TypeOK, NEW n \in Node, NEW m \in Node, NEW c \in Conn,
         StoreSession(n, m, c)
  PROVE  /\ sessions'[n][m] = c /\ c # None
         /\ \A i, j \in Node : sessions[i][j] # None => sessions'[i][j] # None
<1>1. c # None
  BY SessionAssumption DEF Conn
<1>2. sessions' = [sessions EXCEPT ![n][m] = c]
  BY DEF StoreSession
<1>3. QED
  BY <1>1, <1>2 DEF TypeOK

LEMMA NextServed ==
  ASSUME TypeOK, ConnInv, TunnelInv, [Next]_vars
  PROVE  ServedAccepted'
<1> USE SessionAssumption
<1> DEFINE Has(d) == sessions[hostOf[d]][Initiator(d)] # None
<1> SUFFICES ASSUME NEW d \in Conn, d \in accepted', d \in served'
             PROVE  Has(d)'
  <2>1. accepted' \subseteq Conn
    BY NextType DEF TypeOK
  <2>2. QED
    BY <2>1 DEF ServedAccepted
<1>0. d \in accepted /\ d \in served => Has(d)
  BY DEF TunnelInv, ServedAccepted
<1>a. ASSUME NEW c \in Conn
      PROVE  Initiator(c) \in Node /\ hostOf[c] \in Node
  BY DEF TypeOK, Conn, Initiator
<1>b. ASSUME UNCHANGED <<sessions, hostOf, accepted>>, served' \subseteq served
      PROVE  Has(d)'
  BY <1>0, <1>b
<1>1. CASE UNCHANGED tunnelVars
  BY <1>b, <1>1 DEF tunnelVars
<1>2. ASSUME NEW n \in Node, NEW m \in Node,
             Begins(n, m, <<n, opened[n] + 1>>)
      PROVE  Has(d)'
  <2>1. UNCHANGED <<sessions, accepted, served>>
    BY <1>2 DEF Begins
  <2>2. d # <<n, opened[n] + 1>> /\ hostOf'[d] = hostOf[d]
    BY <1>2, <2>1, BeginsUnused
  <2>3. QED
    BY <1>0, <2>1, <2>2
<1>3. ASSUME NEW c \in Conn, RespondToHello(c) PROVE Has(d)'
  <2>1. /\ UNCHANGED <<sessions, hostOf, accepted>>
        /\ served' = served \cup {c} /\ frame[c] = "HELLO"
    BY <1>3 DEF RespondToHello
  <2>2. c \notin accepted
    BY <2>1 DEF TunnelInv, FreshUnkeyed, ConnInv, HandshakeOrder
  <2>3. QED
    BY <1>0, <2>1, <2>2
<1>4. ASSUME NEW c \in Conn, RespondToAuth(c) PROVE Has(d)'
  <2>1. UNCHANGED <<hostOf, served>>
    BY <1>4 DEF RespondToAuth
  <2>2. CASE ~GoodSignature(Initiator(c))
    BY <1>b, <1>4, <2>1, <2>2 DEF RespondToAuth
  <2>3. CASE GoodSignature(Initiator(c))
    <3>1. /\ accepted' = accepted \cup {c}
          /\ StoreSession(hostOf[c], Initiator(c), c)
      BY <1>4, <2>3 DEF RespondToAuth
    <3>2. /\ sessions'[hostOf[c]][Initiator(c)] # None
          /\ \A i, j \in Node : sessions[i][j] # None => sessions'[i][j] # None
      BY <1>a, <3>1, StoreSessionAdds
    <3>3. QED
      BY <1>0, <1>a, <2>1, <3>1, <3>2
  <2>4. QED
    BY <2>2, <2>3
<1>5. ASSUME NEW c \in Conn, HandleAuthOk(c) PROVE Has(d)'
  <2>1. /\ UNCHANGED <<hostOf, accepted, served>>
        /\ StoreSession(Initiator(c), hostOf[c], c)
    BY <1>5 DEF HandleAuthOk
  <2>2. \A i, j \in Node : sessions[i][j] # None => sessions'[i][j] # None
    BY <1>a, <2>1, StoreSessionAdds
  <2>3. QED
    BY <1>0, <1>a, <2>1, <2>2
<1>6. ASSUME NEW n \in Node, Restart(n) PROVE Has(d)'
  <2>1. d \in accepted /\ d \in served /\ hostOf[d] # n /\ hostOf' = hostOf
    BY <1>6 DEF Restart
  <2>2. sessions'[hostOf[d]] = sessions[hostOf[d]]
    BY <1>6, <1>a, <2>1 DEF Restart, TypeOK
  <2>3. QED
    BY <1>0, <2>1, <2>2
<1>7. ASSUME NEW c \in Conn,
             \/ SendHelloHandshake(c) \/ HandleHelloReply(c)
             \/ SocketError(c) \/ PeerClosed(c) \/ SocketClose(c)
      PROVE  Has(d)'
  BY <1>b, <1>7 DEF SendHelloHandshake, HandleHelloReply, SocketError,
                    PeerClosed, SocketClose, mapVars
<1>8. QED
  BY <1>1, <1>2, <1>3, <1>4, <1>5, <1>6, <1>7, Steps

\* What a connection has come to, in every reachable state.
LEMMA TunnelsCorrect == Spec => [](TypeOK /\ SessionInv /\ TunnelInv)
<1>1. Init => TunnelInv
  BY DEF Init, TunnelInv, FreshUnkeyed, ServedAccepted
<1>2. TypeOK /\ SessionInv /\ TunnelInv /\ [Next]_vars => TunnelInv'
  <2>1. TypeOK /\ SessionInv /\ TunnelInv /\ [Next]_vars => FreshUnkeyed'
    BY NextFresh DEF SessionInv, TunnelInv
  <2>2. TypeOK /\ SessionInv /\ TunnelInv /\ [Next]_vars => ServedAccepted'
    BY NextServed DEF SessionInv
  <2>3. QED
    BY <2>1, <2>2 DEF TunnelInv
<1>3. QED
  BY <1>1, <1>2, SessionsCorrect, PTL DEF Spec

\* Whatever fails, restarts or is retried, an initiator never holds a session
\* its responder does not know of: it waits for AUTH_OK, and the responder,
\* as long as its process lives, forgets no session.
THEOREM NoHalfTunnels == Spec => []NoHalfTunnel
<1>1. ASSUME SessionInv, TunnelInv PROVE NoHalfTunnel
  <2> SUFFICES ASSUME NEW n \in Node, NEW m \in Node, NEW c,
                      c = sessions[n][m], c # None, n = Initiator(c),
                      c \in served
               PROVE  sessions[m][n] # None
    BY DEF NoHalfTunnel
  <2>1. c \in accepted /\ Ends(n, m, c)
    BY <1>1 DEF SessionInv, SessionAgreement
  <2>2. CASE m = hostOf[c]
    BY <1>1, <2>1, <2>2 DEF TunnelInv, ServedAccepted
  <2>3. CASE n = m
    BY <2>3
  <2>4. QED
    BY <2>1, <2>2, <2>3 DEF Ends
<1>2. QED
  BY <1>1, TunnelsCorrect, PTL

-----------------------------------------------------------------------------
(***************************************************************************)
(* While nothing fails.                                                    *)
(***************************************************************************)

\* What was used stays used, for the same peer and at the same host.
LEMMA UsedStays ==
  ASSUME TypeOK, ConnInv, [Next]_vars, NEW c \in Conn, sock[c] # "unused"
  PROVE  /\ sock'[c] # "unused"
         /\ peerOf'[c] = peerOf[c] /\ hostOf'[c] = hostOf[c]
<1>a. ASSUME NEW d \in Conn
      PROVE  /\ Initiator(d) \in Node /\ peerOf[d] \in Node
             /\ sock \in [Conn -> Socks]
             /\ [sock EXCEPT ![d] = "closed"] \in [Conn -> Socks]
             /\ [sock EXCEPT ![d] = "gone"] \in [Conn -> Socks]
  BY DEF TypeOK, Conn, Initiator, Socks
<1>1. CASE UNCHANGED tunnelVars
  BY <1>1 DEF tunnelVars
<1>2. ASSUME NEW n \in Node, NEW m \in Node,
             Begins(n, m, <<n, opened[n] + 1>>)
      PROVE  /\ sock'[c] # "unused"
             /\ peerOf'[c] = peerOf[c] /\ hostOf'[c] = hostOf[c]
  BY <1>2, BeginsUnused
<1>3. ASSUME NEW d \in Conn,
             \/ SendHelloHandshake(d) \/ RespondToHello(d)
             \/ HandleHelloReply(d) \/ RespondToAuth(d) \/ HandleAuthOk(d)
             \/ SocketError(d) \/ PeerClosed(d) \/ SocketClose(d)
      PROVE  /\ sock'[c] # "unused"
             /\ peerOf'[c] = peerOf[c] /\ hostOf'[c] = hostOf[c]
  <2>1. UNCHANGED <<peerOf, hostOf>>
    BY <1>3 DEF SendHelloHandshake, RespondToHello, HandleHelloReply,
                RespondToAuth, HandleAuthOk, SocketError, PeerClosed,
                SocketClose
  <2>2. ASSUME NEW s \in {sock, [sock EXCEPT ![d] = "closed"],
                          [sock EXCEPT ![d] = "gone"]},
               CleanupPendingHandshake(Initiator(d), peerOf[d], s)
        PROVE  sock'[c] # "unused"
    <3>1. s \in [Conn -> Socks] /\ s[c] # "unused"
      BY <1>a, <2>2 DEF TypeOK
    <3>2. QED
      BY <1>a, <2>2, <3>1, CleanupCloses
  <2>3. CASE HandleHelloReply(d) \/ HandleAuthOk(d)
    BY <2>2, <2>3 DEF HandleHelloReply, HandleAuthOk
  <2>4. CASE SocketError(d) \/ SocketClose(d)
    BY <2>2, <2>4 DEF SocketError, SocketClose
  <2>5. CASE SendHelloHandshake(d) \/ PeerClosed(d)
    BY <2>5 DEF SendHelloHandshake, PeerClosed, TypeOK
  <2>6. CASE RespondToHello(d) \/ RespondToAuth(d)
    BY <2>6 DEF RespondToHello, RespondToAuth
  <2>7. QED
    BY <1>3, <2>1, <2>3, <2>4, <2>5, <2>6
<1>4. ASSUME NEW n \in Node, Restart(n)
      PROVE  /\ sock'[c] # "unused"
             /\ peerOf'[c] = peerOf[c] /\ hostOf'[c] = hostOf[c]
  BY <1>4 DEF Restart
<1>5. QED
  BY <1>1, <1>2, <1>3, <1>4, Steps

\* What has failed has failed, and a restart or an error disturbs.
LEMMA UndisturbedBefore ==
  ASSUME TypeOK, ConnInv, [Next]_vars, Undisturbed'
  PROVE  /\ Undisturbed
         /\ \A c \in Conn : ~SocketError(c)
         /\ \A n \in Node : ~Restart(n)
<1>1. errors \in Nat /\ restarts \in Nat /\ errors' = 0 /\ restarts' = 0
  BY DEF TypeOK, Undisturbed
<1>2. \A c \in Conn : ~SocketError(c)
  BY <1>1 DEF SocketError
<1>3. \A n \in Node : ~Restart(n)
  BY <1>1 DEF Restart
<1>4. errors = 0 /\ restarts = 0
  BY <1>1, <1>2, <1>3, Steps
     DEF tunnelVars, Begins, SendHelloHandshake, RespondToHello,
         HandleHelloReply, RespondToAuth, HandleAuthOk, PeerClosed,
         SocketClose
<1>5. \A c \in Conn : sock[c] # "unused" => hostOf[c] = peerOf[c]
  BY UsedStays DEF Undisturbed
<1>6. QED
  BY <1>2, <1>3, <1>4, <1>5 DEF Undisturbed

\* The accepted connections of an undisturbed node lead to the peer they were
\* opened for, which has a good key.
LEMMA AcceptedIsAttempt ==
  ASSUME TypeOK, SessionInv, TunnelInv, Undisturbed, NEW c \in accepted
  PROVE  c \in Conn /\ Attempted(c) /\ peerOf[c] = hostOf[c]
<1>1. c \in Conn /\ c \in keyed
  BY DEF TypeOK, SessionInv, ConnInv, HandshakeOrder
<1>2. sock[c] # "unused" /\ hostOf[c] \notin BadKey
  BY <1>1 DEF TunnelInv, FreshUnkeyed, SessionInv, ConnInv, VerifiedKeys
<1>3. QED
  BY <1>1, <1>2 DEF Undisturbed, Attempted

\* Where no connection begins, there is still one attempt for each peer.
LEMMA AttemptsStay ==
  ASSUME TypeOK, ConnInv, OneAttempt, [Next]_vars,
         \A c \in Conn : sock[c] = "unused" => sock'[c] = "unused"
  PROVE  /\ \A c \in Conn : Attempted(c)' => Attempted(c)
         /\ \A c, d \in Conn :
              /\ Attempted(c)' /\ Attempted(d)'
              /\ Initiator(c) = Initiator(d) /\ peerOf'[c] = peerOf'[d]
              => c = d
<1>1. \A c \in Conn : Attempted(c)' => Attempted(c) /\ peerOf'[c] = peerOf[c]
  BY UsedStays DEF Attempted
<1>2. QED
  BY <1>1 DEF OneAttempt

\* What a step that begins no connection has to keep for OneAttempt to last:
\* the sessions, an attempt until there is one, and AUTH_OK until it is used.
LEMMA OneAttemptKept ==
  ASSUME TypeOK, SessionInv, TunnelInv, OneAttempt, [Next]_vars,
         \A c \in Conn : sock[c] = "unused" => sock'[c] = "unused",
         \A n, m \in Node : sessions[n][m] # None => sessions'[n][m] # None,
         \A c \in Conn : sock[c] \in Live /\ Attempted(c) =>
           sock'[c] \in Live \/ sessions'[Initiator(c)][peerOf[c]] # None,
         \A c \in accepted' : c \in accepted \/ frame'[c] = "AUTH_OK",
         \A c \in accepted : frame[c] = "AUTH_OK" =>
           frame'[c] = "AUTH_OK" \/ sessions'[Initiator(c)][hostOf[c]] # None,
         accepted' \subseteq served', severed' = {}
  PROVE  OneAttempt'
<1> USE SessionAssumption
<1>1. ASSUME NEW c \in Conn, Attempted(c)'
      PROVE  sock'[c] \in Live \/ sessions'[Initiator(c)][peerOf'[c]] # None
  <2>1. Attempted(c) /\ Initiator(c) \in Node /\ peerOf[c] \in Node
    BY <1>1, AttemptsStay DEF SessionInv, TypeOK, Conn, Initiator
  <2>2. peerOf'[c] = peerOf[c]
    BY <2>1, UsedStays DEF Attempted, SessionInv
  <2>3. sock[c] \in Live \/ sessions[Initiator(c)][peerOf[c]] # None
    BY <2>1 DEF OneAttempt
  <2>4. QED
    BY <2>1, <2>2, <2>3
<1>2. ASSUME NEW c \in accepted'
      PROVE  \/ sessions'[Initiator(c)][hostOf'[c]] # None
             \/ frame'[c] = "AUTH_OK"
  <2>1. CASE c \notin accepted
    BY <1>2, <2>1
  <2>2. CASE c \in accepted
    <3>1. c \in Conn /\ c \in keyed
      BY <2>2 DEF TypeOK, SessionInv, ConnInv, HandshakeOrder
    <3>2. sock[c] # "unused"
      BY <3>1 DEF TunnelInv, FreshUnkeyed
    <3>3. hostOf'[c] = hostOf[c]
      BY <3>1, <3>2, UsedStays DEF SessionInv
    <3>4. Initiator(c) \in Node /\ hostOf[c] \in Node
      BY <3>1 DEF TypeOK, Conn, Initiator
    <3>5. sessions[Initiator(c)][hostOf[c]] # None \/ frame[c] = "AUTH_OK"
      BY <2>2 DEF OneAttempt
    <3>6. QED
      BY <2>2, <3>3, <3>4, <3>5
  <2>3. QED
    BY <2>1, <2>2
<1>3. \A c, d \in Conn :
        /\ Attempted(c)' /\ Attempted(d)'
        /\ Initiator(c) = Initiator(d) /\ peerOf'[c] = peerOf'[d]
        => c = d
  BY AttemptsStay DEF SessionInv
<1>4. QED
  BY <1>1, <1>2, <1>3 DEF OneAttempt, Attempted, Initiator

\* A connection begins where no other attempt for the peer is left.
LEMMA BeginsOneAttempt ==
  ASSUME TypeOK, SessionInv, TunnelInv, OneAttempt,
         NEW n \in Node, NEW m \in Node, NEW d, Begins(n, m, d)
  PROVE  OneAttempt'
<1> USE SessionAssumption
<1>1. /\ d \in Conn /\ Initiator(d) = n /\ d \notin accepted
      /\ sock'[d] = "connecting" /\ peerOf'[d] = m
      /\ \A c \in Conn \ {d} : /\ sock'[c] = sock[c]
                               /\ peerOf'[c] = peerOf[c]
                               /\ hostOf'[c] = hostOf[c]
  BY BeginsUnused DEF SessionInv
<1>2. UNCHANGED <<frame, accepted, served, severed, sessions>>
  BY DEF Begins
<1>3. \A c \in Conn \ {d} : Attempted(c)' => Attempted(c)
  BY <1>1 DEF Attempted
<1>4. ASSUME NEW c \in Conn, Attempted(c), Initiator(c) = n, peerOf[c] = m
      PROVE  FALSE
  <2>1. sock[c] \in Live \/ sessions[n][m] # None
    BY <1>4 DEF OneAttempt
  <2>2. sock[c] \in Live => pendingHandshakes[n][m] = c
    BY <1>4 DEF SessionInv, ConnInv, LiveSocketRegistered
  <2>3. c # None
    BY DEF Conn
  <2>4. QED
    BY <2>1, <2>2, <2>3 DEF Begins
<1>5. ASSUME NEW c \in Conn, Attempted(c)'
      PROVE  sock'[c] \in Live \/ sessions'[Initiator(c)][peerOf'[c]] # None
  <2>1. CASE c = d
    BY <1>1, <2>1 DEF Live
  <2>2. CASE c # d
    BY <1>1, <1>2, <1>3, <1>5, <2>2 DEF OneAttempt
  <2>3. QED
    BY <2>1, <2>2
<1>6. ASSUME NEW c \in Conn, NEW e \in Conn, Attempted(c)', Attempted(e)',
             Initiator(c) = Initiator(e), peerOf'[c] = peerOf'[e]
      PROVE  c = e
  <2>1. CASE c # d /\ e # d
    BY <1>1, <1>3, <1>6, <2>1 DEF OneAttempt
  <2>2. CASE c = d /\ e # d
    BY <1>1, <1>3, <1>4, <1>6, <2>2
  <2>3. CASE c # d /\ e = d
    BY <1>1, <1>3, <1>4, <1>6, <2>3
  <2>4. QED
    BY <2>1, <2>2, <2>3
<1>7. ASSUME NEW c \in accepted'
      PROVE  \/ sessions'[Initiator(c)][hostOf'[c]] # None
             \/ frame'[c] = "AUTH_OK"
  <2>1. c \in accepted /\ c \in Conn \ {d}
    BY <1>1, <1>2 DEF TypeOK
  <2>2. QED
    BY <1>1, <1>2, <2>1 DEF OneAttempt
<1>8. accepted' \subseteq served' /\ severed' = {}
  BY <1>2 DEF OneAttempt
<1>9. QED
  BY <1>5, <1>6, <1>7, <1>8 DEF OneAttempt, Attempted, Initiator

LEMMA NextUndisturbed ==
  ASSUME TypeOK, SessionInv, TunnelInv, UndisturbedInv, [Next]_vars
  PROVE  UndisturbedInv'
<1> USE SessionAssumption
<1> SUFFICES ASSUME Undisturbed' PROVE OneAttempt'
  BY DEF UndisturbedInv
<1>1. /\ Undisturbed /\ OneAttempt /\ ConnInv
      /\ \A c \in Conn : ~SocketError(c)
      /\ \A n \in Node : ~Restart(n)
  BY UndisturbedBefore DEF UndisturbedInv, SessionInv
<1>2. \A c \in accepted : c \in keyed /\ c \in Conn
  BY <1>1 DEF TypeOK, ConnInv, HandshakeOrder
<1>3. \A c \in Conn : /\ sock[c] \in {"unused", "connecting"}
                         \/ frame[c] \in {"HELLO", "HELLO_REPLY"}
                      => c \notin accepted
  BY <1>2 DEF TunnelInv, FreshUnkeyed
<1>4. accepted \subseteq served /\ severed = {}
  BY <1>1 DEF OneAttempt
<1>a. ASSUME NEW c \in Conn
      PROVE  /\ Initiator(c) \in Node /\ peerOf[c] \in Node
             /\ hostOf[c] \in Node
             /\ sock \in [Conn -> Socks]
             /\ [sock EXCEPT ![c] = "gone"] \in [Conn -> Socks]
  BY DEF TypeOK, Conn, Initiator, Socks
<1>5. CASE UNCHANGED tunnelVars
  BY <1>1, <1>4, <1>5, OneAttemptKept DEF tunnelVars
<1>6. ASSUME NEW n \in Node, NEW m \in Node,
             Begins(n, m, <<n, opened[n] + 1>>)
      PROVE  OneAttempt'
  BY <1>1, <1>6, BeginsOneAttempt
<1>7. ASSUME NEW c \in Conn, SendHelloHandshake(c) PROVE OneAttempt'
  <2>1. /\ sock[c] = "connecting" /\ sock' = [sock EXCEPT ![c] = "open"]
        /\ frame' = [frame EXCEPT ![c] = "HELLO"]
        /\ UNCHANGED <<sessions, accepted, served, severed>>
    BY <1>7 DEF SendHelloHandshake, mapVars
  <2>2. \A d \in Conn : /\ sock[d] = "unused" => sock'[d] = "unused"
                        /\ sock[d] \in Live => sock'[d] \in Live
    BY <2>1 DEF TypeOK, Live
  <2>3. \A d \in accepted : frame'[d] = frame[d]
    BY <1>2, <1>3, <2>1 DEF TypeOK
  <2>4. QED
    BY <1>1, <1>4, <2>1, <2>2, <2>3, OneAttemptKept
<1>8. ASSUME NEW c \in Conn, RespondToHello(c) PROVE OneAttempt'
  <2>1. /\ frame[c] = "HELLO" /\ frame' = [frame EXCEPT ![c] = "HELLO_REPLY"]
        /\ served' = served \cup {c}
        /\ UNCHANGED <<sock, sessions, accepted, severed>>
    BY <1>8 DEF RespondToHello
  <2>2. \A d \in accepted : frame'[d] = frame[d]
    BY <1>2, <1>3, <2>1 DEF TypeOK
  <2>3. QED
    BY <1>1, <1>4, <2>1, <2>2, OneAttemptKept
<1>9. ASSUME NEW c \in Conn, HandleHelloReply(c) PROVE OneAttempt'
  <2>1. /\ sock[c] = "open" /\ frame[c] = "HELLO_REPLY"
        /\ UNCHANGED <<sessions, accepted, served, severed>>
        /\ frame' \in {[frame EXCEPT ![c] = None], [frame EXCEPT ![c] = "AUTH"]}
    BY <1>9 DEF HandleHelloReply
  <2>2. \A d \in accepted : frame'[d] = frame[d]
    BY <1>2, <1>3, <2>1 DEF TypeOK
  <2>3. CASE GoodSignature(hostOf[c])
    <3>1. sock' = sock
      BY <1>9, <2>3 DEF HandleHelloReply
    <3>2. QED
      BY <1>1, <1>4, <2>1, <2>2, <3>1, OneAttemptKept
  <2>4. CASE ~GoodSignature(hostOf[c])
    <3>1. CleanupPendingHandshake(Initiator(c), peerOf[c], sock)
      BY <1>9, <2>4 DEF HandleHelloReply
    <3>2. peerOf[c] \in BadKey
      BY <1>1, <2>1, <2>4 DEF Undisturbed, GoodSignature
    <3>3. \A d \in Conn : \/ sock'[d] = sock[d]
                          \/ sock[d] \in Live /\ peerOf[d] = peerOf[c]
      BY <1>1, <1>a, <3>1, CleanupCloses
    <3>4. \A d \in Conn : /\ sock[d] = "unused" => sock'[d] = "unused"
                          /\ Attempted(d) => sock'[d] = sock[d]
      BY <3>2, <3>3 DEF Attempted, Live
    <3>5. QED
      BY <1>1, <1>4, <2>1, <2>2, <3>4, OneAttemptKept
  <2>5. QED
    BY <2>3, <2>4
<1>10. ASSUME NEW c \in Conn, RespondToAuth(c) PROVE OneAttempt'
  <2>1. /\ frame[c] = "AUTH" /\ c \in served
        /\ UNCHANGED <<sock, served, severed>>
        /\ frame' \in {[frame EXCEPT ![c] = None],
                       [frame EXCEPT ![c] = "AUTH_OK"]}
    BY <1>10 DEF RespondToAuth
  <2>2. \A d \in accepted : frame[d] = "AUTH_OK" => frame'[d] = "AUTH_OK"
    BY <1>2, <2>1 DEF TypeOK
  <2>3. CASE ~GoodSignature(Initiator(c))
    <3>1. UNCHANGED <<sessions, accepted>>
      BY <1>10, <2>3 DEF RespondToAuth
    <3>2. QED
      BY <1>1, <1>4, <2>1, <2>2, <3>1, OneAttemptKept
  <2>4. CASE GoodSignature(Initiator(c))
    <3>1. /\ accepted' = accepted \cup {c}
          /\ frame' = [frame EXCEPT ![c] = "AUTH_OK"]
          /\ StoreSession(hostOf[c], Initiator(c), c)
      BY <1>10, <2>4 DEF RespondToAuth
    <3>2. \A i, j \in Node : sessions[i][j] # None => sessions'[i][j] # None
      BY <1>a, <3>1, StoreSessionAdds
    <3>3. frame'[c] = "AUTH_OK"
      BY <3>1 DEF TypeOK
    <3>4. QED
      BY <1>1, <1>4, <2>1, <2>2, <3>1, <3>2, <3>3, OneAttemptKept
  <2>5. QED
    BY <2>3, <2>4
<1>11. ASSUME NEW c \in Conn, HandleAuthOk(c) PROVE OneAttempt'
  <2>1. /\ sock[c] = "open" /\ frame' = [frame EXCEPT ![c] = None]
        /\ StoreSession(Initiator(c), hostOf[c], c)
        /\ CleanupPendingHandshake(Initiator(c), peerOf[c], sock)
        /\ UNCHANGED <<accepted, served, severed>>
    BY <1>11 DEF HandleAuthOk
  <2>2. hostOf[c] = peerOf[c]
    BY <1>1, <2>1 DEF Undisturbed
  <2>3. /\ sessions'[Initiator(c)][peerOf[c]] # None
        /\ \A i, j \in Node : sessions[i][j] # None => sessions'[i][j] # None
    BY <1>a, <2>1, <2>2, StoreSessionAdds
  <2>4. \A d \in Conn : \/ sock'[d] = sock[d]
                        \/ /\ sock[d] \in Live /\ Initiator(d) = Initiator(c)
                           /\ peerOf[d] = peerOf[c]
    BY <1>1, <1>a, <2>1, CleanupCloses
  <2>5. \A d \in Conn :
          /\ sock[d] = "unused" => sock'[d] = "unused"
          /\ sock[d] \in Live => \/ sock'[d] \in Live
                                 \/ sessions'[Initiator(d)][peerOf[d]] # None
    BY <2>3, <2>4 DEF Live
  <2>6. \A d \in accepted : frame[d] = "AUTH_OK" =>
          \/ frame'[d] = "AUTH_OK"
          \/ sessions'[Initiator(d)][hostOf[d]] # None
    BY <1>2, <2>1, <2>2, <2>3 DEF TypeOK
  <2>7. QED
    BY <1>1, <1>4, <2>1, <2>3, <2>5, <2>6, OneAttemptKept
<1>12. ASSUME NEW c \in Conn, SocketClose(c) PROVE OneAttempt'
  <2>1. /\ sock[c] = "closed"
        /\ CleanupPendingHandshake(Initiator(c), peerOf[c],
                                   [sock EXCEPT ![c] = "gone"])
        /\ UNCHANGED <<sessions, frame, accepted, served, severed>>
    BY <1>12 DEF SocketClose
  <2>2. \A d \in Conn \ {c} :
          \/ sock'[d] = sock[d]
          \/ /\ sock[d] \in Live /\ Initiator(d) = Initiator(c)
             /\ peerOf[d] = peerOf[c]
    BY <1>1, <1>a, <2>1, CleanupCloses
  <2>3. \A d \in Conn : Attempted(d) /\ sock[d] \in Live => sock'[d] = sock[d]
    <3> SUFFICES ASSUME NEW d \in Conn, Attempted(d), sock[d] \in Live
                 PROVE  sock'[d] = sock[d]
      OBVIOUS
    <3>1. d # c
      BY <2>1 DEF Live
    <3>2. CASE Initiator(d) = Initiator(c) /\ peerOf[d] = peerOf[c]
      <4>1. Attempted(c)
        BY <2>1, <3>2 DEF Attempted
      <4>2. d = c
        BY <1>1, <3>2, <4>1 DEF OneAttempt
      <4>3. QED
        BY <3>1, <4>2
    <3>3. QED
      BY <2>2, <3>1, <3>2
  <2>4. \A d \in Conn : sock[d] = "unused" => sock'[d] = "unused"
    BY <2>1, <2>2 DEF Live
  <2>5. QED
    BY <1>1, <1>4, <2>1, <2>3, <2>4, OneAttemptKept
<1>13. ASSUME NEW c \in Conn, PeerClosed(c) PROVE OneAttempt'
  BY <1>4, <1>13 DEF PeerClosed
<1>14. QED
  BY <1>1, <1>5, <1>6, <1>7, <1>8, <1>9, <1>10, <1>11, <1>12, <1>13, Steps

\* Where a handshake stands while nothing fails, for any number of dials.
LEMMA DeliveryCorrect == Spec => [](TypeOK /\ SessionInv /\ DeliveryInv)
<1>1. Init => UndisturbedInv
  BY DEF Init, UndisturbedInv, OneAttempt, Attempted
<1>2. /\ TypeOK /\ SessionInv /\ TunnelInv /\ UndisturbedInv /\ [Next]_vars
      => UndisturbedInv'
  BY NextUndisturbed
<1>3. SessionInv /\ TunnelInv /\ UndisturbedInv => DeliveryInv
  BY DEF DeliveryInv
<1>4. QED
  BY <1>1, <1>2, <1>3, TunnelsCorrect, PTL DEF Spec

\* While nothing fails a node makes one attempt for each peer, and it lives
\* until there is a session: no forced or repeated handshake makes another.
THEOREM AttemptsAreUnique == Spec => []DeliveryInv
BY DeliveryCorrect, PTL

\* Two accepted handshakes in one direction are one.
LEMMA OneDirection ==
  ASSUME TypeOK, SessionInv, TunnelInv, Undisturbed, OneAttempt,
         NEW c \in accepted, NEW d \in accepted,
         Initiator(c) = Initiator(d), hostOf[c] = hostOf[d]
  PROVE  c = d
<1>1. /\ c \in Conn /\ Attempted(c) /\ peerOf[c] = hostOf[c]
      /\ d \in Conn /\ Attempted(d) /\ peerOf[d] = hostOf[d]
  BY AcceptedIsAttempt
<1>2. QED
  BY <1>1 DEF OneAttempt

\* The ends of a session.
LEMMA SessionEnds ==
  ASSUME SessionInv, NEW n \in Node, NEW m \in Node, sessions[n][m] # None
  PROVE  /\ sessions[n][m] \in accepted
         /\ \/ n = Initiator(sessions[n][m]) /\ m = hostOf[sessions[n][m]]
            \/ n = hostOf[sessions[n][m]] /\ m = Initiator(sessions[n][m])
BY DEF SessionInv, SessionAgreement, Ends

\* While nothing fails, two nodes hold different keys for each other only if
\* both dialled: the keys come from one handshake begun at each side.
THEOREM OnlyCrossingsDisagree == Spec => []DisagreementIsCrossing
<1>1. ASSUME TypeOK, SessionInv, DeliveryInv PROVE DisagreementIsCrossing
  <2> SUFFICES ASSUME Undisturbed, NEW n \in Node, NEW m \in Node, NEW c, NEW d,
                      c = sessions[n][m], d = sessions[m][n],
                      c # None, d # None, Initiator(c) = Initiator(d)
               PROVE  c = d
    BY DEF DisagreementIsCrossing
  <2>1. /\ c \in accepted
        /\ \/ n = Initiator(c) /\ m = hostOf[c]
           \/ n = hostOf[c] /\ m = Initiator(c)
    BY <1>1, SessionEnds
  <2>2. /\ d \in accepted
        /\ \/ m = Initiator(d) /\ n = hostOf[d]
           \/ m = hostOf[d] /\ n = Initiator(d)
    BY <1>1, SessionEnds
  <2>3. CASE n = m
    BY <2>3
  <2>4. CASE n # m
    <3>1. hostOf[c] = hostOf[d]
      BY <2>1, <2>2, <2>4
    <3>2. QED
      BY <1>1, <2>1, <2>2, <3>1, OneDirection
         DEF DeliveryInv, UndisturbedInv
  <2>5. QED
    BY <2>3, <2>4
<1>2. QED
  BY <1>1, DeliveryCorrect, PTL

\* While nothing fails, a text its addressee cannot open was sent under one of
\* two crossing handshakes, or overtook the AUTH_OK of the only one.
THEOREM TextsOpenUnlessCrossed == Spec => []TextsOpen
<1>1. ASSUME TypeOK, SessionInv, DeliveryInv PROVE TextsOpen
  <2> SUFFICES ASSUME Undisturbed, NEW w \in wire, w.host = w.to,
                      ~Crossed(w.from, w.to)
               PROVE  \/ Opens(w)
                      \/ w.to = Initiator(w.key) /\ frame[w.key] = "AUTH_OK"
    BY DEF TextsOpen
  <2> DEFINE n == w.from
             m == w.to
             k == w.key
             s == sessions[m][n]
  <2>1. n \in Node /\ m \in Node /\ k \in accepted
    BY <1>1 DEF TypeOK, Mail, SessionInv, WireUnderSession
  <2>2. \/ n = Initiator(k) /\ m = hostOf[k]
        \/ n = hostOf[k] /\ m = Initiator(k)
    BY <1>1 DEF SessionInv, WireUnderSession, Ends
  <2>3. OneAttempt /\ TunnelInv
    BY <1>1 DEF DeliveryInv, UndisturbedInv
  <2>4. ASSUME s # None PROVE s = k
    <3>1. /\ s \in accepted
          /\ \/ m = Initiator(s) /\ n = hostOf[s]
             \/ m = hostOf[s] /\ n = Initiator(s)
      BY <1>1, <2>1, <2>4, SessionEnds
    <3>2. Initiator(s) = Initiator(k) /\ hostOf[s] = hostOf[k]
      BY <2>1, <2>2, <3>1 DEF Crossed
    <3>3. QED
      BY <1>1, <2>1, <2>3, <3>1, <3>2, OneDirection
  <2>5. CASE n = Initiator(k) /\ m = hostOf[k]
    <3>1. s # None
      <4>1. k \in served
        BY <2>1, <2>3 DEF OneAttempt
      <4>2. QED
        BY <2>1, <2>3, <2>5, <4>1 DEF TunnelInv, ServedAccepted
    <3>2. QED
      BY <2>4, <3>1 DEF Opens
  <2>6. CASE n = hostOf[k] /\ m = Initiator(k)
    <3>1. s # None \/ frame[k] = "AUTH_OK"
      BY <2>1, <2>3, <2>6 DEF OneAttempt
    <3>2. QED
      BY <2>4, <2>6, <3>1 DEF Opens
  <2>7. QED
    BY <2>2, <2>5, <2>6
<1>2. QED
  BY <1>1, DeliveryCorrect, PTL

-----------------------------------------------------------------------------
(***************************************************************************)
(* The client that waits.                                                  *)
(***************************************************************************)

LEMMA StoreSessionTells ==
  ASSUME TypeOK, NEW n \in Node, NEW m \in Node, NEW c, StoreSession(n, m, c),
         NEW i \in Node, NEW j \in Node,
         handshakeWaiters'[i][j] # handshakeWaiters[i][j]
  PROVE  handshakeWaiters[i][j] \notin asked'[i][j]
BY DEF StoreSession, TypeOK

\* Whatever happens, at any node and with any number of browsers, a client that
\* waits for a session is answered when it stops waiting, unless the click of
\* another one takes its place: the earlier of two is the only one forgotten.
THEOREM WaitersAreTold == Spec => WaiterIsTold
<1> DEFINE Step ==
  \A n, m \in Node :
    LET u == handshakeWaiters[n][m] IN
      u # None /\ handshakeWaiters'[n][m] # u =>
        u \notin asked'[n][m] \/ handshakeWaiters'[n][m] # None
<1>1. TypeOK /\ [Next]_vars => Step
  <2> SUFFICES ASSUME TypeOK, [Next]_vars,
                      NEW n \in Node, NEW m \in Node,
                      handshakeWaiters'[n][m] # handshakeWaiters[n][m]
               PROVE  \/ handshakeWaiters[n][m] \notin asked'[n][m]
                      \/ handshakeWaiters'[n][m] # None
    OBVIOUS
  <2>1. ASSUME NEW c \in Conn, RespondToAuth(c) \/ HandleAuthOk(c)
        PROVE  handshakeWaiters[n][m] \notin asked'[n][m]
    <3>1. Initiator(c) \in Node /\ hostOf[c] \in Node
      BY DEF TypeOK, Conn, Initiator
    <3>2. PICK i \in Node, j \in Node : StoreSession(i, j, c)
      BY <2>1, <3>1 DEF RespondToAuth, HandleAuthOk
    <3>3. QED
      BY <3>2, StoreSessionTells
  <2>2. ASSUME NEW i \in Node, NEW u \in Client, NEW j \in Node,
               ConnectPeer(i, u, j)
        PROVE  handshakeWaiters'[n][m] # None
    BY <2>2, SessionAssumption DEF ConnectPeer, TypeOK
  <2>3. ASSUME NEW i \in Node, NEW j \in Node, ConnectTimeout(i, j)
        PROVE  handshakeWaiters[n][m] \notin asked'[n][m]
    BY <2>3 DEF ConnectTimeout, TypeOK
  <2>4. ASSUME NEW i \in Node, Restart(i)
        PROVE  handshakeWaiters[n][m] \notin asked'[n][m]
    BY <2>4 DEF Restart, TypeOK
  <2>5. QED
    BY <2>1, <2>2, <2>3, <2>4
       DEF Next, UpsertPeer, CleanStalePeers, SendHelloHandshake,
           RespondToHello, HandleHelloReply, SocketError, PeerClosed,
           SocketClose, SendEncryptedMessage, HandleServerEncryptedMessage,
           LoseMessage, vars, mapVars, userVars
<1>2. QED
  BY <1>1, TypeCorrect, PTL DEF Spec, WaiterIsTold

-----------------------------------------------------------------------------
(***************************************************************************)
(* The queue.                                                              *)
(***************************************************************************)

\* What storeSession takes out of a queue it sends, if there is an address.
LEMMA StoreSessionSends ==
  ASSUME TypeOK, NEW n \in Node, NEW m \in Node, NEW c, StoreSession(n, m, c),
         NEW i \in Node, NEW j \in Node, NEW b \in Msg,
         b \in pendingMessages[i][j], b \notin pendingMessages'[i][j],
         peers[i][j] \in Node
  PROVE  \E w \in wire' : w.body = b /\ w.to = j
<1>1. i = n /\ j = m
  BY DEF StoreSession, TypeOK
<1>2. [from |-> n, to |-> m, host |-> peers[n][m], key |-> c, body |-> b]
        \in Encrypted(n, m, c, pendingMessages[n][m] \cup Greetings)
  BY <1>1 DEF Encrypted
<1>3. QED
  BY <1>1, <1>2 DEF StoreSession

\* Texts leave the queue only when a handshake ends with the peer entry
\* without address, or with the process: no other step drops one unsent.
THEOREM OnlyUnaddressedAreDropped == Spec => DroppedIsUnaddressed
<1> DEFINE Step ==
  \A n, m \in Node, b \in Msg :
    /\ b \in pendingMessages[n][m] /\ b \notin pendingMessages'[n][m]
    /\ restarts' = restarts
    => (\E w \in wire' : w.body = b /\ w.to = m) \/ peers[n][m] \notin Node
<1>1. TypeOK /\ [Next]_vars => Step
  <2> SUFFICES ASSUME TypeOK, [Next]_vars,
                      NEW n \in Node, NEW m \in Node, NEW b \in Msg,
                      b \in pendingMessages[n][m],
                      b \notin pendingMessages'[n][m],
                      restarts' = restarts, peers[n][m] \in Node
               PROVE  \E w \in wire' : w.body = b /\ w.to = m
    OBVIOUS
  <2>1. ASSUME NEW c \in Conn, RespondToAuth(c) \/ HandleAuthOk(c)
        PROVE  \E w \in wire' : w.body = b /\ w.to = m
    <3>1. Initiator(c) \in Node /\ hostOf[c] \in Node
      BY DEF TypeOK, Conn, Initiator
    <3>2. PICK i \in Node, j \in Node : StoreSession(i, j, c)
      BY <2>1, <3>1 DEF RespondToAuth, HandleAuthOk
    <3>3. QED
      BY <3>2, StoreSessionSends
  <2>2. ASSUME NEW i \in Node, NEW j \in Node, NEW a \in Msg,
               SendEncryptedMessage(i, j, a)
        PROVE  FALSE
    <3>1. CASE pendingMessages' = pendingMessages
      BY <3>1
    <3>2. CASE pendingMessages' =
                 [pendingMessages EXCEPT ![i][j] = @ \cup {a}]
      <4>1. pendingMessages \in [Node -> [Node -> SUBSET Msg]]
        BY DEF TypeOK
      <4>2. CASE i = n /\ j = m
        <5>1. pendingMessages'[n][m] = pendingMessages[n][m] \cup {a}
          BY <3>2, <4>1, <4>2
        <5>2. QED
          BY <5>1
      <4>3. CASE ~(i = n /\ j = m)
        <5>1. pendingMessages'[n][m] = pendingMessages[n][m]
          BY <3>2, <4>1, <4>3
        <5>2. QED
          BY <5>1
      <4>4. QED
        BY <4>2, <4>3
    <3>3. QED
      BY <2>2, <3>1, <3>2 DEF SendEncryptedMessage
  <2>3. ASSUME NEW i \in Node, Restart(i) PROVE FALSE
    BY <2>3 DEF Restart, TypeOK
  <2>4. pendingMessages' # pendingMessages
    OBVIOUS
  <2>5. QED
    BY <2>1, <2>2, <2>3, <2>4
       DEF Next, UpsertPeer, CleanStalePeers, SendHelloHandshake,
           RespondToHello, HandleHelloReply, SocketError, PeerClosed,
           SocketClose, HandleServerEncryptedMessage, LoseMessage, ConnectPeer,
           ConnectTimeout, vars, mapVars
<1>2. TypeOK /\ [Next]_vars => [Step]_vars
  BY <1>1
<1>3. QED
  BY <1>2, TypeCorrect, PTL DEF Spec, DroppedIsUnaddressed

-----------------------------------------------------------------------------
(***************************************************************************)
(* The tables of the nodes implement PeerEntries.                          *)
(***************************************************************************)

LEMMA RegisterPeerKeyStep ==
  ASSUME TypeOK, NEW n \in Node, NEW m \in Node, RegisterPeerKey(n, m)
  PROVE  [Table!Next]_peers
<1>1. CASE peers[n][m] = None
  <2>1. Table!Register(n, m)
    BY <1>1 DEF RegisterPeerKey, TypeOK, Table!Register
  <2>2. QED
    BY <2>1 DEF Table!Next
<1>2. CASE peers[n][m] # None
  BY <1>2 DEF RegisterPeerKey, TypeOK
<1>3. QED
  BY <1>1, <1>2

LEMMA TableStep ==
  ASSUME TypeOK, [Next]_vars
  PROVE  [Table!Next]_peers
<1>0. peers \in Table!Entries /\ peers' \in Table!Entries
  BY NextType DEF TypeOK, Table!Entries
<1>1. ASSUME NEW n \in Node, NEW m \in Node, UpsertPeer(n, m)
      PROVE  Table!Next
  <2>1. PICK h \in Node : peers' = [peers EXCEPT ![n][m] = h]
    BY <1>1, SessionAssumption DEF UpsertPeer
  <2>2. Table!Learn(n)
    BY <1>0, <2>1 DEF Table!Learn, Table!Others, Table!Entries
  <2>3. QED
    BY <2>2 DEF Table!Next
<1>2. ASSUME NEW c \in Conn,
             RespondToHello(c) \/ HandleHelloReply(c) \/ RespondToAuth(c)
      PROVE  [Table!Next]_peers
  <2>1. Initiator(c) \in Node /\ hostOf[c] \in Node
    BY DEF TypeOK, Conn, Initiator
  <2>2. \/ UNCHANGED peers
        \/ RegisterPeerKey(hostOf[c], Initiator(c))
        \/ RegisterPeerKey(Initiator(c), hostOf[c])
    BY <1>2 DEF RespondToHello, HandleHelloReply, RespondToAuth
  <2>3. QED
    BY <2>1, <2>2, RegisterPeerKeyStep
<1>3. ASSUME NEW n \in Node, CleanStalePeers(n) \/ Restart(n)
      PROVE  Table!Next
  <2>1. /\ \A q \in Node \ {n} : peers'[q] = peers[q]
        /\ \A m \in Node : peers'[n][m] \in {peers[n][m], None}
    BY <1>3 DEF CleanStalePeers, Restart, TypeOK
  <2>2. Table!Forget(n)
    BY <1>0, <2>1 DEF Table!Forget, Table!Others
  <2>3. QED
    BY <2>2 DEF Table!Next
<1>4. QED
  BY <1>1, <1>2, <1>3
     DEF Next, SendHelloHandshake, HandleAuthOk, SocketError, PeerClosed,
         SocketClose, SendEncryptedMessage, HandleServerEncryptedMessage,
         LoseMessage, ConnectPeer, ConnectTimeout, vars, mapVars

\* A handshake on either side, however it ends, leaves a known address alone:
\* registerPeerKey only makes the entry an unknown peer needs.
THEOREM TableImplementsPeerEntries == Spec => ImplementsPeerEntries
<1>1. Init => Table!Init
  BY DEF Init, Table!Init
<1>2. TypeOK /\ [Next]_vars => [Table!Next]_peers
  BY TableStep
<1>3. QED
  BY <1>1, <1>2, TypeCorrect, PTL DEF Spec, ImplementsPeerEntries, Table!Spec
=============================================================================
