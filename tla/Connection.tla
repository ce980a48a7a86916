----------------------------- MODULE Connection -----------------------------
(***************************************************************************)
(* One TCP connection to a node's server (src/network/server.js), opened   *)
(* for one of the four purposes a node has: a handshake, a PING of the     *)
(* dashboard, a peer list or an encrypted message (index.js and            *)
(* sendPeerList).  Each direction is a Framing; what the frames of a       *)
(* handshake mean is the matter of Session.                                *)
(***************************************************************************)
EXTENDS Naturals, Sequences, FiniteSets

CONSTANTS
  Length,        \* the lengths of payloads that are worth telling apart
  Limit,         \* 1024 * 1024, the longest payload the server takes
  NoLimit,       \* 2^32 - 1, the longest one a header can announce
  MaxKeepAlive,  \* bound: keep-alive frames on one connection
  MaxErrors      \* bound: connections that break

Roles == {"handshake", "ping", "list", "message"}

Type == {"PEER_LIST", "KEEPALIVE_PING", "KEEPALIVE_PONG", "HANDSHAKE_HELLO",
         "HANDSHAKE_HELLO_REPLY", "HANDSHAKE_AUTH", "HANDSHAKE_AUTH_OK",
         "ENCRYPTED_MESSAGE"}

ASSUME ConnectionAssumption ==
  /\ Limit \in Nat /\ NoLimit \in Nat
  /\ Length \subseteq 0 .. NoLimit /\ 0 \in Length
  /\ MaxKeepAlive \in Nat /\ MaxErrors \in Nat

VARIABLES
  role,     \* what the client opened the connection for
  client,   \* the client's socket
  server,   \* the server's socket
  up, down, \* the streams from and to the client
  settled,  \* how the promise of tcpPingPeer ended
  errors    \* connections broken so far

vars == <<role, client, server, up, down, settled, errors>>

Up   == INSTANCE Framing WITH stream <- up
Down == INSTANCE Framing WITH stream <- down, Limit <- NoLimit

\* "ended": the client has written its last frame and still reads.
ClientStates == {"connecting", "open", "ended", "closed"}

TypeOK ==
  /\ role \in Roles
  /\ client \in ClientStates
  /\ server \in {"listening", "open", "closed"}
  /\ Up!TypeOK
  /\ Down!TypeOK
  /\ settled \in {"no", "ok", "timeout", "error"}
  /\ errors \in 0 .. MaxErrors

Init ==
  /\ role \in Roles
  /\ client = "connecting"
  /\ server = "listening"
  /\ Up!Init
  /\ Down!Init
  /\ settled = "no"
  /\ errors = 0

-----------------------------------------------------------------------------
(***************************************************************************)
(* The client.                                                             *)
(***************************************************************************)

FirstFrame == [handshake |-> "HANDSHAKE_HELLO", ping |-> "KEEPALIVE_PING",
               list |-> "PEER_LIST", message |-> "ENCRYPTED_MESSAGE"]

\* Mutant of Connect: the length announced is that of the text, which one
\* character of two bytes makes shorter than the payload.
ConnectCharacters ==
  /\ client = "connecting"
  /\ \E l \in IF role = "ping" THEN {0} ELSE Length :
       up' = [up EXCEPT
                !.sent = <<[type |-> FirstFrame[role], len |-> l, at |-> 0]>>,
                !.written = Up!Header + l + 1]
  /\ client' = IF role \in {"list", "message"} THEN "ended" ELSE "open"
  /\ server' = "open"
  /\ UNCHANGED <<role, down, settled, errors>>

\* The connect event: the first frame, which for a list or a message is also
\* the last one.
Connect ==
  /\ client = "connecting"
  /\ \E l \in IF role = "ping" THEN {0} ELSE Length :
       Up!Write(FirstFrame[role], l)
  /\ client' = IF role \in {"list", "message"} THEN "ended" ELSE "open"
  /\ server' = "open"
  /\ UNCHANGED <<role, down, settled, errors>>

\* The clients of a list or of a message have no data handler.
ClientData ==
  /\ role \in {"handshake", "ping"}
  /\ client \in {"open", "ended"}
  /\ Down!Data
  /\ UNCHANGED <<role, client, server, up, settled, errors>>

ClientPause ==
  /\ Down!Pause
  /\ UNCHANGED <<role, client, server, up, settled, errors>>

\* finishOk, finishErr and the timer: the promise settles once.
Settle(outcome) == settled' = IF settled = "no" THEN outcome ELSE settled

\* Mutant of IsPong: whatever the server sends is taken for its answer.
IsPongOrPing(h) == h.type \in {"KEEPALIVE_PONG", "KEEPALIVE_PING"}

IsPong(h) == h.type = "KEEPALIVE_PONG"

\* tcpPingPeer: the PONG settles the promise and ends the connection; any
\* other frame is skipped.
PingHandle(h) ==
  /\ role = "ping"
  /\ \/ /\ IsPong(h)
        /\ Down!Handle(h, FALSE)
        /\ Settle("ok")
        /\ client' = IF client = "open" THEN "ended" ELSE client
     \/ /\ ~IsPong(h)
        /\ Down!Handle(h, TRUE)
        /\ UNCHANGED <<client, settled>>
  /\ UNCHANGED <<role, server, up, errors>>

\* handleInitiatorData: HELLO_REPLY is answered or ends the attempt, AUTH_OK
\* ends it, and the keep-alive frames of the server are skipped.
HandshakeHandle(h) ==
  /\ role = "handshake"
  /\ Down!Handle(h, TRUE)
  /\ \/ /\ h.type = "HANDSHAKE_HELLO_REPLY" /\ client = "open"
        /\ \E l \in Length : Up!Write("HANDSHAKE_AUTH", l)
        /\ UNCHANGED client
     \/ /\ h.type \in {"HANDSHAKE_HELLO_REPLY", "HANDSHAKE_AUTH_OK"}
        /\ client' = "closed"
        /\ UNCHANGED up
     \/ /\ h.type = "KEEPALIVE_PING"
        /\ UNCHANGED <<client, up>>
  /\ UNCHANGED <<role, server, settled, errors>>

\* Mutant of PingTimeout: the end of the stream stops the timer.
PingTimeoutOpen ==
  /\ role = "ping"
  /\ settled = "no"
  /\ client # "closed"
  /\ ~down.looping
  /\ Settle("timeout")
  /\ client' = "closed"
  /\ UNCHANGED <<role, server, up, down, errors>>

\* The timer of 2.5 s, which runs from the creation of the socket.
PingTimeout ==
  /\ role = "ping"
  /\ settled = "no"
  /\ ~down.looping
  /\ Settle("timeout")
  /\ client' = "closed"
  /\ UNCHANGED <<role, server, up, down, errors>>

\* sendPeerList destroys a socket that is idle for 3 s.
ListTimeout ==
  /\ role = "list"
  /\ client # "closed"
  /\ client' = "closed"
  /\ UNCHANGED <<role, server, up, down, settled, errors>>

\* The error event of the client's socket: refused, reset.
ClientError ==
  /\ errors < MaxErrors
  /\ client # "closed"
  /\ ~down.looping
  /\ errors' = errors + 1
  /\ client' = "closed"
  /\ IF role = "ping" THEN Settle("error") ELSE UNCHANGED settled
  /\ UNCHANGED <<role, server, up, down>>

\* The server is gone: the client reads the end of the stream.  No handler of
\* tcpPingPeer settles its promise here.
ClientEnd ==
  /\ server = "closed"
  /\ client \in {"open", "ended"}
  /\ ~down.looping
  /\ client' = "closed"
  /\ UNCHANGED <<role, server, up, down, settled, errors>>

-----------------------------------------------------------------------------
(***************************************************************************)
(* The server.                                                             *)
(***************************************************************************)

ServerData ==
  /\ server = "open"
  /\ Up!Data
  /\ UNCHANGED <<role, client, server, down, settled, errors>>

ServerPause ==
  /\ Up!Pause
  /\ UNCHANGED <<role, client, server, down, settled, errors>>

\* Too long a frame: socket.destroy().
ServerRefuse ==
  /\ \E h \in Up!Frame : Up!Refuse(h)
  /\ server' = "closed"
  /\ UNCHANGED <<role, client, down, settled, errors>>

\* A PING is answered with PONG, HELLO with HELLO_REPLY, AUTH with AUTH_OK
\* unless its signature is bad, and the rest with nothing.
ServerHandle(h) ==
  /\ Up!Handle(h, TRUE)
  /\ \/ /\ h.type = "KEEPALIVE_PING"
        /\ Down!Write("KEEPALIVE_PONG", 0)
     \/ /\ h.type = "HANDSHAKE_HELLO"
        /\ \E l \in Length : Down!Write("HANDSHAKE_HELLO_REPLY", l)
     \/ /\ h.type = "HANDSHAKE_AUTH"
        /\ \E l \in Length : Down!Write("HANDSHAKE_AUTH_OK", l)
     \/ /\ h.type \in {"HANDSHAKE_AUTH", "PEER_LIST", "ENCRYPTED_MESSAGE"}
        /\ UNCHANGED down
  /\ UNCHANGED <<role, client, server, settled, errors>>

KeepAlives == {i \in DOMAIN down.sent : down.sent[i].type = "KEEPALIVE_PING"}

\* The keep-alive timer, while the socket is not destroyed.
KeepAlive ==
  /\ server = "open"
  /\ ~up.looping
  /\ Cardinality(KeepAlives) < MaxKeepAlive
  /\ Down!Write("KEEPALIVE_PING", 0)
  /\ UNCHANGED <<role, client, server, up, settled, errors>>

\* Mutant of ServerEnd: the end is noticed before the rest is read.
ServerEndEarly ==
  /\ server = "open"
  /\ ~up.looping
  /\ client \in {"ended", "closed"}
  /\ server' = "closed"
  /\ UNCHANGED <<role, client, up, down, settled, errors>>

\* The server reads the end of the stream, after what was written unless the
\* client destroyed its socket, and its own socket ends.
ServerEnd ==
  /\ server = "open"
  /\ ~up.looping
  /\ \/ client = "closed"
     \/ client = "ended" /\ up.arrived = up.written
  /\ server' = "closed"
  /\ UNCHANGED <<role, client, up, down, settled, errors>>

\* The server's process ends: to the client this is an end of the stream.
ServerStop ==
  /\ errors < MaxErrors
  /\ server = "open"
  /\ ~up.looping
  /\ errors' = errors + 1
  /\ server' = "closed"
  /\ UNCHANGED <<role, client, up, down, settled>>

Next ==
  \/ Connect
  \/ ClientData
  \/ ClientPause
  \/ \E h \in Down!Frame : PingHandle(h)
  \/ \E h \in Down!Frame : HandshakeHandle(h)
  \/ PingTimeout
  \/ ListTimeout
  \/ ClientError
  \/ ClientEnd
  \/ ServerData
  \/ ServerPause
  \/ ServerRefuse
  \/ \E h \in Up!Frame : ServerHandle(h)
  \/ KeepAlive
  \/ ServerEnd
  \/ ServerStop

Spec == Init /\ [][Next]_vars

-----------------------------------------------------------------------------
(***************************************************************************)
(* Safety.                                                                 *)
(***************************************************************************)

\* Both ends decode what the other one wrote, in order and as far as it
\* arrived, wherever the network cuts it, and at rest nothing decodable is
\* left in a buffer.
ConnectionInv == TypeOK /\ Up!FramingInv /\ Down!FramingInv

\* Whatever a client announces or sends, between two data events the server
\* holds less than one frame of the longest kind of it: it destroys the socket
\* as soon as a header asks for more.
ServerMemoryBounded ==
  server = "open" /\ ~up.looping => Up!Buffered < Up!Header + Limit

\* A PING that succeeds was answered: the server decoded it and wrote the
\* PONG for it; its own keep-alive frames are not taken for an answer.
PongIsAnswer ==
  settled = "ok" =>
    /\ \E i \in DOMAIN up.got : up.got[i].type = "KEEPALIVE_PING"
    /\ \E i \in DOMAIN down.sent : down.sent[i].type = "KEEPALIVE_PONG"

\* Ending the connection right behind the message loses nothing of it: when
\* the server has seen the end, its handler has had the message, unless it was
\* too long or an error occurred (client.end after the one write).
EndLosesNothing ==
  /\ role = "message" /\ server = "closed" /\ errors = 0
  /\ up.sent[1].len <= Limit
  => Len(up.got) = 1

-----------------------------------------------------------------------------
(***************************************************************************)
(* Each direction is a stream of frames as Framing specifies it, whatever  *)
(* the two ends do with what they read.                                    *)
(***************************************************************************)

StreamsAreFraming == Up!Spec /\ Down!Spec

-----------------------------------------------------------------------------
(***************************************************************************)
(* Liveness: the network delivers while both sockets live, a loop goes on, *)
(* and the timer of a PING expires.                                        *)
(***************************************************************************)

FairSpec ==
  /\ Spec
  /\ WF_vars(Connect) /\ WF_vars(ServerData) /\ WF_vars(ServerPause)
  /\ WF_vars(ServerRefuse) /\ WF_vars(\E h \in Up!Frame : ServerHandle(h))
  /\ WF_vars(ClientPause) /\ WF_vars(PingTimeout)
  /\ WF_vars(\E h \in Down!Frame : PingHandle(h))

\* A PING always ends, answered or not: the server may accept the connection
\* and never answer, or close it without an error.
PingSettles == role = "ping" ~> settled # "no"

\* A message written to the network, however it is cut into pieces, reaches
\* the server's handler when it is within the limit and no error occurs:
\* ending the connection right after writing loses nothing.
MessagesReachHandler ==
  role = "message" /\ client = "ended" /\ up.sent[1].len <= Limit
    ~> Len(up.got) = 1 \/ errors > 0
=============================================================================
