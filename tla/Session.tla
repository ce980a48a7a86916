------------------------------- MODULE Session -------------------------------
(***************************************************************************)
(* The secure sessions of Archipel's Node.js node (index.js): the peer     *)
(* table as the sessions see it, the four-frame handshake an initiator     *)
(* and a responder run over one TCP connection, the table of established   *)
(* sessions, the messages queued until a session exists, the encrypted     *)
(* messages in flight, and the dashboard requests waiting for a handshake. *)
(*                                                                         *)
(* A Node.js process runs one event handler at a time, so one handler is   *)
(* one action.  The handlers of different nodes interleave freely, and so  *)
(* do the events of different sockets: nothing orders a connection against *)
(* another one, and every encrypted message has a connection of its own.   *)
(*                                                                         *)
(* The ephemeral keys of a handshake are fresh for each connection, hence  *)
(* a connection's identity stands for the secret derived on it.            *)
(***************************************************************************)
EXTENDS Naturals, FiniteSets

CONSTANTS
  Node,         \* node ids; each one names the process that announces it
  Client,       \* browsers
  Browsers,     \* Browsers[n]: those that have the dashboard of n open
  Msg,          \* the texts users send, each of them at most once
  Greetings,    \* the texts both sides send by themselves after a handshake
  Routes,       \* Routes[m]: the nodes an address recorded for m may reach
  BadKey,       \* nodes whose key file holds a public key of another pair
  MaxConn,      \* bound: handshake connections one node opens
  MaxErrors,    \* bound: connections that fail
  MaxRestarts,  \* bound: process restarts
  None,         \* "no entry": the Map has no value under this key
  NoAddr        \* a peer entry with a key and no address (ip: null)

\* The handshake frames (TLV types 0x10 to 0x13).
Frames == {"HELLO", "HELLO_REPLY", "AUTH", "AUTH_OK"}

ASSUME SessionAssumption ==
  /\ Browsers \in [Node -> SUBSET Client]
  /\ Routes \in [Node -> SUBSET Node]
  /\ BadKey \subseteq Node
  /\ MaxConn \in Nat /\ MaxErrors \in Nat /\ MaxRestarts \in Nat
  /\ None \notin Node \cup Client \cup (Node \X Nat) \cup Frames
  /\ NoAddr \notin Node \cup {None}
  /\ Greetings \cap Msg = {}

\* The k-th handshake connection opened by node n is <<n, k>>.
Conn == Node \X (1 .. MaxConn)
Initiator(c) == c[1]

VARIABLES
  \* --- the Maps of each node ---
  peers,              \* the host an entry's address reaches, NoAddr or None
  sessions,           \* the connection whose secret is the session's key
  pendingHandshakes,  \* the connection of the handshake being initiated
  pendingMessages,    \* texts waiting for a session
  handshakeWaiters,   \* the one dashboard client waiting for a session
  \* --- handshake connections ---
  opened,             \* how many handshake connections a node has opened
  sock,               \* the initiator's socket
  peerOf, hostOf,     \* the id it was opened for, the node it reached
  frame,              \* the handshake frame in flight
  keyed,              \* connections whose initiator context has a session
  served,             \* connections whose responder context has a session
  severed,            \* connections whose responder process is gone
  \* --- messages ---
  wire,               \* encrypted messages in flight
  \* --- history and bounds ---
  accepted,           \* connections whose responder stored the session
  sent, read,         \* texts given to the node, texts shown at their end
  asked,              \* clients that clicked CONNECT, no connect_status since
  errors, restarts    \* failures so far

mapVars  == <<peers, sessions, pendingHandshakes, pendingMessages,
              handshakeWaiters>>
connVars == <<opened, sock, peerOf, hostOf, frame, keyed, served, severed,
              accepted>>
userVars == <<wire, sent, read, asked>>
vars     == <<mapVars, connVars, userVars, errors, restarts>>

Socks  == {"unused", "connecting", "open", "closed", "gone"}
Live   == {"connecting", "open"}

Mail == [from : Node, to : Node, host : Node, key : Conn,
         body : Msg \cup Greetings]

TypeOK ==
  /\ peers \in [Node -> [Node -> Node \cup {NoAddr, None}]]
  /\ sessions \in [Node -> [Node -> Conn \cup {None}]]
  /\ pendingHandshakes \in [Node -> [Node -> Conn \cup {None}]]
  /\ pendingMessages \in [Node -> [Node -> SUBSET Msg]]
  /\ handshakeWaiters \in [Node -> [Node -> Client \cup {None}]]
  /\ opened \in [Node -> 0 .. MaxConn]
  /\ sock \in [Conn -> Socks]
  /\ peerOf \in [Conn -> Node]
  /\ hostOf \in [Conn -> Node]
  /\ frame \in [Conn -> Frames \cup {None}]
  /\ keyed \in SUBSET Conn
  /\ served \in SUBSET Conn
  /\ severed \in SUBSET Conn
  /\ accepted \in SUBSET Conn
  /\ wire \in SUBSET Mail
  /\ sent \in SUBSET Msg
  /\ read \in SUBSET Msg
  /\ asked \in [Node -> [Node -> SUBSET Client]]
  /\ errors \in Nat
  /\ restarts \in Nat

Init ==
  /\ peers = [n \in Node |-> [m \in Node |-> None]]
  /\ sessions = [n \in Node |-> [m \in Node |-> None]]
  /\ pendingHandshakes = [n \in Node |-> [m \in Node |-> None]]
  /\ pendingMessages = [n \in Node |-> [m \in Node |-> {}]]
  /\ handshakeWaiters = [n \in Node |-> [m \in Node |-> None]]
  /\ opened = [n \in Node |-> 0]
  /\ sock = [c \in Conn |-> "unused"]
  /\ peerOf = [c \in Conn |-> Initiator(c)]
  /\ hostOf = [c \in Conn |-> Initiator(c)]
  /\ frame = [c \in Conn |-> None]
  /\ keyed = {} /\ served = {} /\ severed = {} /\ accepted = {}
  /\ wire = {} /\ sent = {} /\ read = {}
  /\ asked = [n \in Node |-> [m \in Node |-> {}]]
  /\ errors = 0 /\ restarts = 0

-----------------------------------------------------------------------------
(***************************************************************************)
(* Operations shared by the handlers.                                      *)
(***************************************************************************)

\* Mutant of InitiateHandshake: the test of pendingHandshakes is missing.
InitiateHandshakeAgain(n, m, h, force) ==
  \/ /\ ~force /\ sessions[n][m] # None
     /\ UNCHANGED <<pendingHandshakes, opened, sock, peerOf, hostOf>>
  \/ /\ force \/ sessions[n][m] = None
     /\ opened[n] < MaxConn
     /\ LET c == <<n, opened[n] + 1>>
        IN /\ opened' = [opened EXCEPT ![n] = @ + 1]
           /\ sock' = [sock EXCEPT ![c] = "connecting"]
           /\ peerOf' = [peerOf EXCEPT ![c] = m]
           /\ hostOf' = [hostOf EXCEPT ![c] = h]
           /\ pendingHandshakes' = [pendingHandshakes EXCEPT ![n][m] = c]

\* initiateHandshake: one attempt per peer at a time, and only forced when a
\* session exists already.  h is the host the peer's address reaches.
InitiateHandshake(n, m, h, force) ==
  \/ /\ pendingHandshakes[n][m] # None \/ (~force /\ sessions[n][m] # None)
     /\ UNCHANGED <<pendingHandshakes, opened, sock, peerOf, hostOf>>
  \/ /\ pendingHandshakes[n][m] = None
     /\ force \/ sessions[n][m] = None
     /\ opened[n] < MaxConn
     /\ LET c == <<n, opened[n] + 1>>
        IN /\ opened' = [opened EXCEPT ![n] = @ + 1]
           /\ sock' = [sock EXCEPT ![c] = "connecting"]
           /\ peerOf' = [peerOf EXCEPT ![c] = m]
           /\ hostOf' = [hostOf EXCEPT ![c] = h]
           /\ pendingHandshakes' = [pendingHandshakes EXCEPT ![n][m] = c]

\* Mutant of Destroy: the attempt is forgotten and its socket lives on.
ForgetSocket(s, c) == s

\* socket.destroy(): no data event follows, the close event is still to come.
Destroy(s, c) ==
  IF c # None /\ s[c] \in Live THEN [s EXCEPT ![c] = "closed"] ELSE s

\* Mutant of CleanupPendingHandshake: the socket goes, the entry stays.
KeepPendingHandshake(n, m, s) ==
  /\ sock' = Destroy(s, pendingHandshakes[n][m])
  /\ UNCHANGED pendingHandshakes

\* cleanupPendingHandshake(nodeId): forgets whichever attempt is registered
\* for m now, and destroys its socket.  s is the state of the sockets.
CleanupPendingHandshake(n, m, s) ==
  /\ pendingHandshakes' = [pendingHandshakes EXCEPT ![n][m] = None]
  /\ sock' = Destroy(s, pendingHandshakes[n][m])

\* Mutant of GoodSignature: the result of the verification is ignored.
AnySignature(n) == TRUE

\* identity.verify of a signature made by n, against the key n announces.
GoodSignature(n) == n \notin BadKey

\* Mutant of RegisterPeerKey: the entry is made anew, without the address.
RegisterPeerKeyAnew(n, m) == peers' = [peers EXCEPT ![n][m] = NoAddr]

\* registerPeerKey: an unknown peer gets an entry that has no address.
RegisterPeerKey(n, m) ==
  peers' = [peers EXCEPT ![n][m] = IF @ = None THEN NoAddr ELSE @]

\* Mutant of Encrypted: the test of peer.ip is missing.
EncryptedUnaddressed(n, m, key, bodies) ==
  {[from |-> n, to |-> m, host |-> peers[n][m], key |-> key, body |-> b] :
     b \in bodies}

\* The messages sendEncryptedMessage puts on the network for these texts,
\* none when the peer is unknown or has no address.
Encrypted(n, m, key, bodies) ==
  {[from |-> n, to |-> m, host |-> h, key |-> key, body |-> b] :
     b \in bodies, h \in {peers[n][m]} \cap Node}

\* Mutant of StoreSession: the queue is sent and not emptied.
StoreSessionKeepQueue(n, m, c) ==
  /\ sessions' = [sessions EXCEPT ![n][m] = c]
  /\ handshakeWaiters' = [handshakeWaiters EXCEPT ![n][m] = None]
  /\ asked' = [asked EXCEPT ![n][m] = @ \ {handshakeWaiters[n][m]}]
  /\ wire' = wire \cup
       Encrypted(n, m, c, pendingMessages[n][m] \cup Greetings)
  /\ UNCHANGED pendingMessages

\* Mutant of StoreSession: the waiter is removed and not told.
StoreSessionSilently(n, m, c) ==
  /\ sessions' = [sessions EXCEPT ![n][m] = c]
  /\ handshakeWaiters' = [handshakeWaiters EXCEPT ![n][m] = None]
  /\ pendingMessages' = [pendingMessages EXCEPT ![n][m] = {}]
  /\ wire' = wire \cup
       Encrypted(n, m, c, pendingMessages[n][m] \cup Greetings)
  /\ UNCHANGED asked

\* Mutant of StoreSession: the queue is emptied before it is sent.
StoreSessionDropQueue(n, m, c) ==
  /\ sessions' = [sessions EXCEPT ![n][m] = c]
  /\ handshakeWaiters' = [handshakeWaiters EXCEPT ![n][m] = None]
  /\ asked' = [asked EXCEPT ![n][m] = @ \ {handshakeWaiters[n][m]}]
  /\ pendingMessages' = [pendingMessages EXCEPT ![n][m] = {}]
  /\ wire' = wire \cup Encrypted(n, m, c, Greetings)

\* storeSession, and the greeting both of its callers send after it: replaces
\* any earlier session, answers the waiting client, and sends the queue.
StoreSession(n, m, c) ==
  /\ sessions' = [sessions EXCEPT ![n][m] = c]
  /\ handshakeWaiters' = [handshakeWaiters EXCEPT ![n][m] = None]
  /\ asked' = [asked EXCEPT ![n][m] = @ \ {handshakeWaiters[n][m]}]
  /\ pendingMessages' = [pendingMessages EXCEPT ![n][m] = {}]
  /\ wire' = wire \cup
       Encrypted(n, m, c, pendingMessages[n][m] \cup Greetings)

-----------------------------------------------------------------------------
(***************************************************************************)
(* The peer table, as discovery and expiry change it.                      *)
(***************************************************************************)

\* upsertPeer, called for a HELLO datagram and for each entry of a received
\* peer list: records the address and starts a handshake if none is needed.
UpsertPeer(n, m) ==
  /\ m # n
  /\ \E h \in Routes[m] :
       /\ peers' = [peers EXCEPT ![n][m] = h]
       /\ InitiateHandshake(n, m, h, FALSE)
  /\ UNCHANGED <<sessions, pendingMessages, handshakeWaiters, frame, keyed,
                 served, severed, accepted, userVars, errors, restarts>>

\* cleanStalePeers: forgets the peers not heard of for 90 s, and only them.
CleanStalePeers(n) ==
  /\ \E stale \in SUBSET {m \in Node : peers[n][m] # None} :
       /\ stale # {}
       /\ peers' = [peers EXCEPT ![n] =
                      [m \in Node |-> IF m \in stale THEN None ELSE @[m]]]
  /\ UNCHANGED <<sessions, pendingHandshakes, pendingMessages,
                 handshakeWaiters, connVars, userVars, errors, restarts>>

-----------------------------------------------------------------------------
(***************************************************************************)
(* The handshake.                                                          *)
(***************************************************************************)

\* The initiator's connect event: a fresh ephemeral key, and HELLO.
SendHelloHandshake(c) ==
  /\ sock[c] = "connecting"
  /\ sock' = [sock EXCEPT ![c] = "open"]
  /\ frame' = [frame EXCEPT ![c] = "HELLO"]
  /\ UNCHANGED <<mapVars, opened, peerOf, hostOf, keyed, served, severed,
                 accepted, userVars, errors, restarts>>

\* The responder derives the secret and signs both ephemeral keys.
RespondToHello(c) ==
  /\ frame[c] = "HELLO"
  /\ RegisterPeerKey(hostOf[c], Initiator(c))
  /\ served' = served \cup {c}
  /\ frame' = [frame EXCEPT ![c] = "HELLO_REPLY"]
  /\ UNCHANGED <<sessions, pendingHandshakes, pendingMessages,
                 handshakeWaiters, opened, sock, peerOf, hostOf, keyed,
                 severed, accepted, userVars, errors, restarts>>

\* Mutant of HandleHelloReply: the session is stored before AUTH_OK.
HandleHelloReplyEagerly(c) ==
  /\ sock[c] = "open"
  /\ frame[c] = "HELLO_REPLY"
  /\ keyed' = keyed \cup {c}
  /\ frame' = [frame EXCEPT ![c] = "AUTH"]
  /\ StoreSession(Initiator(c), hostOf[c], c)
  /\ UNCHANGED <<peers, pendingHandshakes, opened, sock, peerOf, hostOf,
                 served, severed, accepted, sent, read, errors, restarts>>

\* The initiator checks the responder's signature; when it is good it derives
\* the secret, keeps it in the connection's context only, and signs it.
HandleHelloReply(c) ==
  /\ sock[c] = "open"
  /\ frame[c] = "HELLO_REPLY"
  /\ RegisterPeerKey(Initiator(c), hostOf[c])
  /\ \/ /\ ~GoodSignature(hostOf[c])
        /\ frame' = [frame EXCEPT ![c] = None]
        /\ CleanupPendingHandshake(Initiator(c), peerOf[c], sock)
        /\ UNCHANGED keyed
     \/ /\ GoodSignature(hostOf[c])
        /\ keyed' = keyed \cup {c}
        /\ frame' = [frame EXCEPT ![c] = "AUTH"]
        /\ UNCHANGED <<pendingHandshakes, sock>>
  /\ UNCHANGED <<sessions, pendingMessages, handshakeWaiters, opened, peerOf,
                 hostOf, served, severed, accepted, userVars, errors,
                 restarts>>

\* The responder checks the initiator's signature.  A bad one is dropped
\* without an answer; a good one makes the session.
RespondToAuth(c) ==
  /\ frame[c] = "AUTH"
  /\ c \in served
  /\ \/ /\ ~GoodSignature(Initiator(c))
        /\ frame' = [frame EXCEPT ![c] = None]
        /\ UNCHANGED <<peers, sessions, handshakeWaiters, asked,
                       pendingMessages, wire, accepted>>
     \/ /\ GoodSignature(Initiator(c))
        /\ frame' = [frame EXCEPT ![c] = "AUTH_OK"]
        /\ RegisterPeerKey(hostOf[c], Initiator(c))
        /\ accepted' = accepted \cup {c}
        /\ StoreSession(hostOf[c], Initiator(c), c)
  /\ UNCHANGED <<pendingHandshakes, opened, sock, peerOf, hostOf, keyed,
                 served, severed, sent, read, errors, restarts>>

\* The initiator makes the session under the id the responder gave, and
\* drops the attempt registered under the id it was looking for.
HandleAuthOk(c) ==
  /\ sock[c] = "open"
  /\ frame[c] = "AUTH_OK"
  /\ c \in keyed
  /\ frame' = [frame EXCEPT ![c] = None]
  /\ StoreSession(Initiator(c), hostOf[c], c)
  /\ CleanupPendingHandshake(Initiator(c), peerOf[c], sock)
  /\ UNCHANGED <<peers, opened, peerOf, hostOf, keyed, served, severed,
                 accepted, sent, read, errors, restarts>>

\* The error event of the initiator's socket, refused, reset or timed out:
\* every dashboard client is told, and the registered attempt is dropped.
SocketError(c) ==
  /\ errors < MaxErrors
  /\ sock[c] \in Live
  /\ errors' = errors + 1
  /\ asked' = [asked EXCEPT ![Initiator(c)][peerOf[c]] = {}]
  /\ CleanupPendingHandshake(Initiator(c), peerOf[c],
                             [sock EXCEPT ![c] = "closed"])
  /\ UNCHANGED <<peers, sessions, pendingMessages, handshakeWaiters, opened,
                 peerOf, hostOf, frame, keyed, served, severed, accepted,
                 wire, sent, read, restarts>>

\* The responder's process is gone and the initiator reads the end of the
\* stream, after the frames that were sent on it.
PeerClosed(c) ==
  /\ c \in severed
  /\ sock[c] = "open"
  /\ frame[c] \notin {"HELLO_REPLY", "AUTH_OK"}
  /\ sock' = [sock EXCEPT ![c] = "closed"]
  /\ UNCHANGED <<mapVars, opened, peerOf, hostOf, frame, keyed, served,
                 severed, accepted, userVars, errors, restarts>>

\* The close event, later than the destruction of the socket: it drops the
\* attempt registered for the peer by then, even another connection's.
SocketClose(c) ==
  /\ sock[c] = "closed"
  /\ CleanupPendingHandshake(Initiator(c), peerOf[c],
                             [sock EXCEPT ![c] = "gone"])
  /\ UNCHANGED <<peers, sessions, pendingMessages, handshakeWaiters, opened,
                 peerOf, hostOf, frame, keyed, served, severed, accepted,
                 userVars, errors, restarts>>

-----------------------------------------------------------------------------
(***************************************************************************)
(* Encrypted messages.                                                     *)
(***************************************************************************)

\* send_encrypted: sent under the session, or queued behind a handshake.  The
\* request fails, and changes nothing, when the peer has no address.
SendEncryptedMessage(n, m, b) ==
  /\ b \notin sent
  /\ peers[n][m] \in Node
  /\ sent' = sent \cup {b}
  /\ \/ /\ sessions[n][m] # None
        /\ wire' = wire \cup Encrypted(n, m, sessions[n][m], {b})
        /\ UNCHANGED <<pendingMessages, pendingHandshakes, opened, sock,
                       peerOf, hostOf>>
     \/ /\ sessions[n][m] = None
        /\ pendingMessages' = [pendingMessages EXCEPT ![n][m] = @ \cup {b}]
        /\ InitiateHandshake(n, m, peers[n][m], TRUE)
        /\ UNCHANGED wire
  /\ UNCHANGED <<peers, sessions, handshakeWaiters, frame, keyed, served,
                 severed, accepted, read, asked, errors, restarts>>

\* Mutant of Opens: any session with the claimed sender is good enough.
OpensWithoutHmac(w) == sessions[w.host][w.from] # None

\* The message opens under the session its host has with the claimed sender:
\* the HMAC fails under any other key, and without a session it is dropped.
Opens(w) == sessions[w.host][w.from] = w.key

HandleServerEncryptedMessage(w) ==
  /\ w \in wire
  /\ wire' = wire \ {w}
  /\ read' = IF Opens(w) THEN read \cup ({w.body} \cap Msg) ELSE read
  /\ UNCHANGED <<mapVars, connVars, sent, asked, errors, restarts>>

\* The connection of the message fails: a warning in the log, no retry.
LoseMessage(w) ==
  /\ w \in wire
  /\ wire' = wire \ {w}
  /\ UNCHANGED <<mapVars, connVars, sent, read, asked, errors, restarts>>

-----------------------------------------------------------------------------
(***************************************************************************)
(* The dashboard's CONNECT button, and the end of the process.             *)
(***************************************************************************)

\* connect_peer without a session: one waiter per peer, whose 8 s timer
\* replaces that of the waiter before.  The requests that are answered at
\* once (no address, session already there) change nothing.
ConnectPeer(n, u, m) ==
  /\ u \in Browsers[n]
  /\ peers[n][m] \in Node
  /\ sessions[n][m] = None
  /\ handshakeWaiters' = [handshakeWaiters EXCEPT ![n][m] = u]
  /\ asked' = [asked EXCEPT ![n][m] = @ \cup {u}]
  /\ InitiateHandshake(n, m, peers[n][m], TRUE)
  /\ UNCHANGED <<peers, sessions, pendingMessages, frame, keyed, served,
                 severed, accepted, wire, sent, read, errors, restarts>>

\* The timer of the current waiter: it is told, the attempt goes on.
ConnectTimeout(n, m) ==
  /\ handshakeWaiters[n][m] # None
  /\ handshakeWaiters' = [handshakeWaiters EXCEPT ![n][m] = None]
  /\ asked' = [asked EXCEPT ![n][m] = @ \ {handshakeWaiters[n][m]}]
  /\ UNCHANGED <<peers, sessions, pendingHandshakes, pendingMessages,
                 connVars, wire, sent, read, errors, restarts>>

\* The process ends and starts again under the same id: every Map is in
\* memory (peers.json is never read), and its sockets go with it.
Restart(n) ==
  /\ restarts < MaxRestarts
  /\ restarts' = restarts + 1
  /\ peers' = [peers EXCEPT ![n] = [m \in Node |-> None]]
  /\ sessions' = [sessions EXCEPT ![n] = [m \in Node |-> None]]
  /\ pendingHandshakes' =
       [pendingHandshakes EXCEPT ![n] = [m \in Node |-> None]]
  /\ pendingMessages' = [pendingMessages EXCEPT ![n] = [m \in Node |-> {}]]
  /\ handshakeWaiters' =
       [handshakeWaiters EXCEPT ![n] = [m \in Node |-> None]]
  /\ asked' = [asked EXCEPT ![n] = [m \in Node |-> {}]]
  /\ sock' = [c \in Conn |-> IF Initiator(c) = n /\ sock[c] # "unused"
                             THEN "gone" ELSE sock[c]]
  /\ served' = {c \in served : hostOf[c] # n}
  /\ severed' = severed \cup {c \in Conn : hostOf[c] = n /\ sock[c] = "open"}
  /\ frame' = [c \in Conn |-> IF hostOf[c] = n /\ frame[c] \in {"HELLO", "AUTH"}
                              THEN None ELSE frame[c]]
  /\ UNCHANGED <<opened, peerOf, hostOf, keyed, accepted, wire, sent, read,
                 errors>>

-----------------------------------------------------------------------------
Next ==
  \/ \E n, m \in Node : UpsertPeer(n, m)
  \/ \E n \in Node : CleanStalePeers(n)
  \/ \E c \in Conn : SendHelloHandshake(c)
  \/ \E c \in Conn : RespondToHello(c)
  \/ \E c \in Conn : HandleHelloReply(c)
  \/ \E c \in Conn : RespondToAuth(c)
  \/ \E c \in Conn : HandleAuthOk(c)
  \/ \E c \in Conn : SocketError(c)
  \/ \E c \in Conn : PeerClosed(c)
  \/ \E c \in Conn : SocketClose(c)
  \/ \E n, m \in Node, b \in Msg : SendEncryptedMessage(n, m, b)
  \/ \E w \in wire : HandleServerEncryptedMessage(w)
  \/ \E w \in wire : LoseMessage(w)
  \/ \E n, m \in Node, u \in Client : ConnectPeer(n, u, m)
  \/ \E n, m \in Node : ConnectTimeout(n, m)
  \/ \E n \in Node : Restart(n)

Spec == Init /\ [][Next]_vars

-----------------------------------------------------------------------------
(***************************************************************************)
(* Safety.                                                                 *)
(***************************************************************************)

Ends(n, m, c) == \/ n = Initiator(c) /\ m = hostOf[c] /\ c \in keyed
                 \/ n = hostOf[c] /\ m = Initiator(c)

\* A session n has with m is the outcome of one handshake between these two
\* nodes that the responder accepted: never of an attempt that was given up,
\* of one with a node a wrong address led to, or of half a handshake
\* (handleAuthOk and respondToAuth are the only callers of storeSession).
SessionAgreement ==
  \A n, m \in Node : sessions[n][m] # None =>
    sessions[n][m] \in accepted /\ Ends(n, m, sessions[n][m])

\* No node but the addressee can open a message in flight, wherever a stale
\* or wrong address takes it (handleServerEncryptedMessage ignores frame.to).
OnlyAddresseeCanRead == \A w \in wire : Opens(w) => w.host = w.to

\* Neither end of a session announces a key that is not its own: both
\* signatures are checked before either side stores the session.
Authentication ==
  \A n, m \in Node : sessions[n][m] # None => n \notin BadKey /\ m \notin BadKey

\* Every live socket of a handshake is the one pendingHandshakes holds for
\* its peer, so that a later cleanup finds it: no attempt runs unregistered.
LiveSocketRegistered ==
  \A c \in Conn :
    sock[c] \in Live => pendingHandshakes[Initiator(c)][peerOf[c]] = c

\* The initiator of c has a step to take, or waits for one that the responder
\* has to take and will.
Advances(c) ==
  \/ sock[c] \in {"connecting", "closed"}
  \/ /\ sock[c] = "open"
     /\ \/ frame[c] \in {"HELLO", "HELLO_REPLY"}
        \/ frame[c] = "AUTH" /\ c \in served
        \/ frame[c] = "AUTH_OK" /\ c \in keyed

\* A registered attempt, which keeps every other one for its peer from being
\* made, advances: only a responder that is gone without a trace, or that
\* ignores a bad signature, leaves it registered for ever (initiateHandshake
\* sets no timeout on the socket).
AttemptsAdvance ==
  \A n, m \in Node : pendingHandshakes[n][m] # None =>
    \/ Advances(pendingHandshakes[n][m])
    \/ /\ sock[pendingHandshakes[n][m]] = "open"
       /\ pendingHandshakes[n][m] \in severed \/ n \in BadKey

\* Nothing waits for a session that exists: the queue was sent and the
\* waiting client was told, whichever side of whichever handshake made it.
NothingWaitsBehindSession ==
  \A n, m \in Node : sessions[n][m] # None =>
    pendingMessages[n][m] = {} /\ handshakeWaiters[n][m] = None

\* A text is in one queue, or in flight once, or has been read: it is never
\* sent twice, and never read while a copy of it can still be sent.
OneFate ==
  /\ \A n, m, i, j \in Node :
       pendingMessages[n][m] \cap pendingMessages[i][j] # {}
         => n = i /\ m = j
  /\ \A v, w \in wire : v.body = w.body /\ v.body \in Msg => v = w
  /\ \A n, m \in Node, w \in wire : w.body \notin pendingMessages[n][m]
  /\ \A n, m \in Node : pendingMessages[n][m] \cap read = {}
  /\ \A w \in wire : w.body \notin read

-----------------------------------------------------------------------------
\* An initiator that has a session is not alone with it: the responder has a
\* session with it too, this one or a later one, unless its process ended
\* since (the initiator stores its session on AUTH_OK and no sooner).
NoHalfTunnel ==
  \A n, m \in Node : LET c == sessions[n][m] IN
    c # None /\ n = Initiator(c) /\ c \in served => sessions[m][n] # None

\* A client waiting for a session loses its place only when it has been told
\* how it ended, or to the click of another client.
WaiterIsTold ==
  [][\A n, m \in Node :
       LET u == handshakeWaiters[n][m] IN
         u # None /\ handshakeWaiters'[n][m] # u =>
           u \notin asked'[n][m] \/ handshakeWaiters'[n][m] # None]_vars

(***************************************************************************)
(* What goes wrong while nothing fails: nodes run, connections hold, and   *)
(* addresses lead where they should.                                       *)
(***************************************************************************)

Undisturbed ==
  /\ errors = 0 /\ restarts = 0
  /\ \A c \in Conn : sock[c] # "unused" => hostOf[c] = peerOf[c]

\* Two accepted handshakes of n and m, one begun by each.
Crossed(n, m) ==
  \E c, d \in accepted : /\ Initiator(c) = n /\ hostOf[c] = m
                        /\ Initiator(d) = m /\ hostOf[d] = n

\* Two nodes hold different keys for each other only by crossing handshakes:
\* retries and forced attempts never make a second one in one direction.
DisagreementIsCrossing ==
  Undisturbed =>
    \A n, m \in Node :
      /\ sessions[n][m] # None /\ sessions[m][n] # None
      /\ sessions[n][m] # sessions[m][n]
      => Initiator(sessions[n][m]) # Initiator(sessions[m][n])

\* A text that reaches its addressee opens there, unless their handshakes
\* crossed, or the responder sent it and AUTH_OK is still on its way.
TextsOpen ==
  Undisturbed =>
    \A w \in wire :
      w.host = w.to /\ ~Crossed(w.from, w.to) =>
        \/ Opens(w)
        \/ w.to = Initiator(w.key) /\ frame[w.key] = "AUTH_OK"

\* A queue is dropped unsent only where the peer's entry has no address when
\* the handshake ends, or the process does (flushPendingMessages deletes the
\* queue whatever sendEncryptedMessage answers).
DroppedIsUnaddressed ==
  [][\A n, m \in Node, b \in Msg :
       /\ b \in pendingMessages[n][m] /\ b \notin pendingMessages'[n][m]
       /\ restarts' = restarts
       => (\E w \in wire' : w.body = b /\ w.to = m) \/ peers[n][m] \notin Node]_vars

(***************************************************************************)
(* The inductive invariant behind these properties.                        *)
(***************************************************************************)

\* A connection not opened yet has left no trace.
UnusedConnections ==
  \A c \in Conn : c[2] > opened[Initiator(c)] =>
    sock[c] = "unused" /\ frame[c] = None /\ c \notin keyed

\* What a frame in flight and an accepted connection imply.
HandshakeOrder ==
  /\ \A c \in Conn : frame[c] = "AUTH" => c \in keyed
  /\ \A c \in Conn : frame[c] = "AUTH_OK" => c \in accepted
  /\ accepted \subseteq keyed

\* A responder that answered HELLO keeps the context of the connection.
AnsweredIsServed ==
  \A c \in Conn : sock[c] = "open" /\ frame[c] \in {"HELLO_REPLY", "AUTH"}
                  => c \in served \/ c \in severed

\* A registered attempt is one the node opened, under the id it was for.
PendingIsOwn ==
  \A n, m \in Node : pendingHandshakes[n][m] # None =>
    LET c == pendingHandshakes[n][m]
    IN Initiator(c) = n /\ peerOf[c] = m /\ c[2] <= opened[n]

\* A message in flight was encrypted under a session of its two ends.
WireUnderSession ==
  \A w \in wire : w.key \in accepted /\ Ends(w.from, w.to, w.key)

\* Both signatures of an accepted connection were verified.
VerifiedKeys ==
  /\ \A c \in keyed : hostOf[c] \notin BadKey
  /\ \A c \in accepted : Initiator(c) \notin BadKey

ConnInv ==
  /\ UnusedConnections
  /\ HandshakeOrder
  /\ VerifiedKeys
  /\ PendingIsOwn
  /\ LiveSocketRegistered

\* A text has a fate only once a user has sent it.
OnlySentTexts ==
  /\ read \subseteq sent
  /\ \A n, m \in Node : pendingMessages[n][m] \subseteq sent
  /\ \A w \in wire : w.body \in Msg => w.body \in sent

\* Before AUTH the initiator has no secret.
FreshUnkeyed ==
  \A c \in Conn :
    \/ sock[c] \in {"unused", "connecting"}
    \/ frame[c] \in {"HELLO", "HELLO_REPLY"}
    => c \notin keyed

\* A responder that still has the context of a connection it accepted has a
\* session with its initiator.
ServedAccepted ==
  \A c \in accepted \cap served : sessions[hostOf[c]][Initiator(c)] # None

TunnelInv == FreshUnkeyed /\ ServedAccepted

Attempted(c) == sock[c] # "unused" /\ peerOf[c] \notin BadKey

\* While nothing fails an attempt lives until it ends in a session, so that
\* there is one for each peer, and AUTH_OK is on its way until it is handled.
OneAttempt ==
  /\ \A c \in Conn : Attempted(c) =>
       sock[c] \in Live \/ sessions[Initiator(c)][peerOf[c]] # None
  /\ \A c, d \in Conn :
       /\ Attempted(c) /\ Attempted(d)
       /\ Initiator(c) = Initiator(d) /\ peerOf[c] = peerOf[d]
       => c = d
  /\ \A c \in accepted :
       sessions[Initiator(c)][hostOf[c]] # None \/ frame[c] = "AUTH_OK"
  /\ accepted \subseteq served /\ severed = {}

UndisturbedInv == Undisturbed => OneAttempt

\* The invariant the proofs of SessionProofs carry from step to step.
SessionInv == ConnInv /\ SessionAgreement /\ WireUnderSession

\* All of it, up to what each connection has come to.
DeliveryInv == SessionInv /\ TunnelInv /\ UndisturbedInv

-----------------------------------------------------------------------------
(***************************************************************************)
(* The table of each node is the one PeerTable describes in detail: both   *)
(* implement PeerEntries, here with hosts for addresses.                   *)
(***************************************************************************)

Table == INSTANCE PeerEntries
         WITH Owner <- Node, Peer <- Node, Addr <- Node, entry <- peers

\* No handshake, on either side, makes a node forget an address it has, and
\* what expires or restarts leaves no address without its entry.
ImplementsPeerEntries == Table!Spec

-----------------------------------------------------------------------------
(***************************************************************************)
(* Liveness.  Nodes announce themselves every 30 s and not every datagram  *)
(* is lost; a connection that does not fail carries its frames; a timer    *)
(* expires; a destroyed socket emits close.  Nothing makes a message       *)
(* arrive, a connection fail, or the end of a stream be noticed.           *)
(***************************************************************************)

ConnectionStep(c) ==
  \/ SendHelloHandshake(c) \/ RespondToHello(c) \/ HandleHelloReply(c)
  \/ RespondToAuth(c) \/ HandleAuthOk(c) \/ SocketClose(c)

Fairness ==
  /\ \A n, m \in Node : WF_vars(UpsertPeer(n, m))
  /\ \A c \in Conn : WF_vars(ConnectionStep(c))
  /\ \A n, m \in Node : WF_vars(ConnectTimeout(n, m))

\* The close event of a destroyed socket comes before the node opens another
\* connection: event-loop turns are milliseconds, announcements are 30 s
\* apart.  Without this the close event of each attempt could fell the next.
PromptClose ==
  opened' = opened \/ \A c \in Conn : sock[c] # "closed"

FairSpec == Init /\ [][Next /\ PromptClose]_vars /\ Fairness

\* A queued text does not stay queued: whatever fails, a handshake that
\* completes under discovery's retries sends the queue.
QueuedEventuallyFlushed ==
  \A n \in Node : \A m \in Node \ {n} :
    pendingMessages[n][m] # {} ~> pendingMessages[n][m] = {}

\* The last client to click CONNECT is told how it ended, unless another one
\* of the node clicks meanwhile, and takes its place.
LastAskedIsAnswered ==
  \A n \in Node : \A m \in Node \ {n}, u \in Browsers[n] :
    handshakeWaiters[n][m] = u ~>
      \/ handshakeWaiters[n][m] \in Client \ {u}
      \/ handshakeWaiters[n][m] = None /\ u \notin asked[n][m]

-----------------------------------------------------------------------------
(***************************************************************************)
(* What the documentation and the dashboard promise, and the code does not *)
(* keep (checked by runs that TLC must find violated).                     *)
(***************************************************************************)

\* At rest, two nodes that both have a session with each other have the same.
KeysAgreeAtRest ==
  (\A c \in Conn : sock[c] \notin Live /\ frame[c] = None) =>
    \A n, m \in Node :
      sessions[n][m] # None /\ sessions[m][n] # None
        => sessions[n][m] = sessions[m][n]

\* A text that reaches its addressee under an established session is read.
ArrivedTextsAreRead ==
  [][\A w \in wire : HandleServerEncryptedMessage(w) /\ w.host = w.to
                       => w.body \in read' \cup Greetings]_vars

\* Every client that clicks CONNECT is told how it ended.
ConnectAnswered ==
  \A n \in Node : \A m \in Node \ {n}, u \in Browsers[n] :
    u \in asked[n][m] ~> u \notin asked[n][m]

\* A text leaves the queue only onto the network.
QueuedTextsAreSent ==
  [][\A n, m \in Node, b \in Msg :
       b \in pendingMessages[n][m] /\ b \notin pendingMessages'[n][m]
         => \E w \in wire' : w.body = b]_vars
=============================================================================
