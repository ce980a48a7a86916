-------------------------- MODULE ConnectionProofs --------------------------
(***************************************************************************)
(* The theorems about Connection.  Its two directions are streams of       *)
(* frames, so that what FramingProofs proves of one stream holds of both.  *)
(***************************************************************************)
EXTENDS Connection, FiniteSetTheorems, TLAPS

UpProofs   == INSTANCE FramingProofs WITH stream <- up
DownProofs == INSTANCE FramingProofs WITH stream <- down, Limit <- NoLimit

LEMMA Assumptions ==
  /\ Up!FramingAssumption /\ Down!FramingAssumption
  /\ 0 \in Length
  /\ Length \subseteq Nat
  /\ \A r \in Roles : FirstFrame[r] \in Type
<1>1. /\ Limit \in Nat /\ NoLimit \in Nat /\ 0 \in Length
      /\ Length \subseteq Nat
  BY ConnectionAssumption
<1>2. \A r \in Roles : FirstFrame[r] \in Type
  BY DEF Roles, FirstFrame, Type
<1>3. QED
  BY <1>1, <1>2 DEF Up!FramingAssumption, Down!FramingAssumption

-----------------------------------------------------------------------------
(***************************************************************************)
(* Every step of the connection is a step, or none, of either stream.      *)
(***************************************************************************)

RoleOK == role \in Roles

LEMMA UpSteps ==
  ASSUME RoleOK, [Next]_vars
  PROVE  [Up!Next]_up
<1>1. CASE Connect
  <2>1. PICK l \in Length : Up!Write(FirstFrame[role], l)
    BY <1>1, Assumptions DEF Connect
  <2>2. QED
    BY <2>1, Assumptions DEF RoleOK, Up!Next
<1>2. CASE ServerData
  BY <1>2 DEF ServerData, Up!Next
<1>3. CASE ServerPause
  BY <1>3 DEF ServerPause, Up!Next
<1>4. CASE ServerRefuse
  BY <1>4 DEF ServerRefuse, Up!Next
<1>5. CASE \E h \in Up!Frame : ServerHandle(h)
  BY <1>5 DEF ServerHandle, Up!Next
<1>6. CASE \E h \in Down!Frame : HandshakeHandle(h)
  <2>1. CASE \E l \in Length : Up!Write("HANDSHAKE_AUTH", l)
    BY <2>1 DEF Up!Next, Type
  <2>2. CASE UNCHANGED up
    BY <2>2
  <2>3. QED
    BY <1>6, <2>1, <2>2 DEF HandshakeHandle
<1>7. CASE UNCHANGED up
  BY <1>7
<1>8. QED
  BY <1>1, <1>2, <1>3, <1>4, <1>5, <1>6, <1>7
  DEF Next, vars, ClientData, ClientPause, PingHandle, PingTimeout,
      ListTimeout, ClientError, ClientEnd, KeepAlive, ServerEnd, ServerStop

LEMMA DownSteps ==
  ASSUME [Next]_vars
  PROVE  [Down!Next]_down
<1>1. CASE ClientData
  BY <1>1 DEF ClientData, Down!Next
<1>2. CASE ClientPause
  BY <1>2 DEF ClientPause, Down!Next
<1>3. CASE \E h \in Down!Frame : PingHandle(h)
  BY <1>3 DEF PingHandle, Down!Next
<1>4. CASE \E h \in Down!Frame : HandshakeHandle(h)
  BY <1>4 DEF HandshakeHandle, Down!Next
<1>5. CASE \E h \in Up!Frame : ServerHandle(h)
  <2>1. CASE Down!Write("KEEPALIVE_PONG", 0)
    BY <2>1, Assumptions DEF Down!Next, Type
  <2>2. CASE \E l \in Length : \/ Down!Write("HANDSHAKE_HELLO_REPLY", l)
                               \/ Down!Write("HANDSHAKE_AUTH_OK", l)
    BY <2>2 DEF Down!Next, Type
  <2>3. CASE UNCHANGED down
    BY <2>3
  <2>4. QED
    BY <1>5, <2>1, <2>2, <2>3 DEF ServerHandle
<1>6. CASE KeepAlive
  <2>1. Down!Write("KEEPALIVE_PING", 0)
    BY <1>6 DEF KeepAlive
  <2>2. QED
    BY <2>1, Assumptions DEF Down!Next, Type
<1>7. CASE UNCHANGED down
  BY <1>7
<1>8. QED
  BY <1>1, <1>2, <1>3, <1>4, <1>5, <1>6, <1>7
  DEF Next, vars, Connect, PingTimeout, ListTimeout, ClientError, ClientEnd,
      ServerData, ServerPause, ServerRefuse, ServerEnd, ServerStop

LEMMA RoleKept ==
  ASSUME RoleOK, [Next]_vars
  PROVE  RoleOK'
BY DEF RoleOK, Next, vars, Connect, ClientData, ClientPause, PingHandle,
       HandshakeHandle, PingTimeout, ListTimeout, ClientError, ClientEnd,
       ServerData, ServerPause, ServerRefuse, ServerHandle, KeepAlive,
       ServerEnd, ServerStop

\* Whatever the two ends do with the frames they read, each direction of a
\* connection is a stream of frames: nothing but encodeFrame writes to it,
\* nothing but the data handler reads from it.
THEOREM StreamsImplementFraming == Spec => StreamsAreFraming
<1>1. Init => RoleOK /\ Up!Init /\ Down!Init
  BY DEF Init, RoleOK
<1>2. RoleOK /\ [Next]_vars => RoleOK'
  BY RoleKept
<1>3. RoleOK /\ [Next]_vars => [Up!Next]_up /\ [Down!Next]_down
  BY UpSteps, DownSteps
<1>4. QED
  BY <1>1, <1>2, <1>3, PTL DEF Spec, StreamsAreFraming, Up!Spec, Down!Spec

-----------------------------------------------------------------------------
(***************************************************************************)
(* What is proved of Framing, for either stream.                           *)
(***************************************************************************)

LEMMA SameUp ==
  /\ UpProofs!FramingAssumption <=> Up!FramingAssumption
  /\ UpProofs!Init <=> Up!Init
  /\ [UpProofs!Next]_up <=> [Up!Next]_up
  /\ UpProofs!FramingInv <=> Up!FramingInv
<1>1. UpProofs!FramingAssumption <=> Up!FramingAssumption
  BY DEF UpProofs!FramingAssumption, Up!FramingAssumption
<1>2. UpProofs!Init <=> Up!Init
  BY DEF UpProofs!Init, UpProofs!Empty, Up!Init, Up!Empty
<1>3. [UpProofs!Next]_up <=> [Up!Next]_up
  BY Zenon DEF UpProofs!Next, UpProofs!Write, UpProofs!Data, UpProofs!Pause,
     UpProofs!Refuse, UpProofs!Handle, UpProofs!Take, UpProofs!TooLong,
     UpProofs!HeadersAt, UpProofs!Frame, UpProofs!Buffered, UpProofs!Header,
     Up!Next, Up!Write, Up!Data, Up!Pause, Up!Refuse, Up!Handle, Up!Take,
     Up!TooLong, Up!HeadersAt, Up!Frame, Up!Buffered, Up!Header
<1>4. UpProofs!FramingInv <=> Up!FramingInv
  BY Zenon DEF UpProofs!FramingInv, UpProofs!TypeOK, UpProofs!Contiguous,
     UpProofs!Start, UpProofs!Positions, UpProofs!DecodedInOrder,
     UpProofs!Aligned, UpProofs!NothingLeftDecodable, UpProofs!BufferBounded,
     UpProofs!Buffered, UpProofs!Header, UpProofs!Sent, UpProofs!Frame,
     Up!FramingInv, Up!TypeOK, Up!Contiguous, Up!Start, Up!Positions,
     Up!DecodedInOrder, Up!Aligned, Up!NothingLeftDecodable,
     Up!BufferBounded, Up!Buffered, Up!Header, Up!Sent, Up!Frame
<1>5. QED
  BY <1>1, <1>2, <1>3, <1>4

LEMMA SameDown ==
  /\ DownProofs!FramingAssumption <=> Down!FramingAssumption
  /\ DownProofs!Init <=> Down!Init
  /\ [DownProofs!Next]_down <=> [Down!Next]_down
  /\ DownProofs!FramingInv <=> Down!FramingInv
<1>1. DownProofs!FramingAssumption <=> Down!FramingAssumption
  BY DEF DownProofs!FramingAssumption, Down!FramingAssumption
<1>2. DownProofs!Init <=> Down!Init
  BY DEF DownProofs!Init, DownProofs!Empty, Down!Init, Down!Empty
<1>3. [DownProofs!Next]_down <=> [Down!Next]_down
  BY Zenon DEF DownProofs!Next, DownProofs!Write, DownProofs!Data, DownProofs!Pause,
     DownProofs!Refuse, DownProofs!Handle, DownProofs!Take, DownProofs!TooLong,
     DownProofs!HeadersAt, DownProofs!Frame, DownProofs!Buffered, DownProofs!Header,
     Down!Next, Down!Write, Down!Data, Down!Pause, Down!Refuse, Down!Handle, Down!Take,
     Down!TooLong, Down!HeadersAt, Down!Frame, Down!Buffered, Down!Header
<1>4. DownProofs!FramingInv <=> Down!FramingInv
  BY Zenon DEF DownProofs!FramingInv, DownProofs!TypeOK, DownProofs!Contiguous,
     DownProofs!Start, DownProofs!Positions, DownProofs!DecodedInOrder,
     DownProofs!Aligned, DownProofs!NothingLeftDecodable, DownProofs!BufferBounded,
     DownProofs!Buffered, DownProofs!Header, DownProofs!Sent, DownProofs!Frame,
     Down!FramingInv, Down!TypeOK, Down!Contiguous, Down!Start, Down!Positions,
     Down!DecodedInOrder, Down!Aligned, Down!NothingLeftDecodable,
     Down!BufferBounded, Down!Buffered, Down!Header, Down!Sent, Down!Frame
<1>5. QED
  BY <1>1, <1>2, <1>3, <1>4

LEMMA UpCorrect == Up!Spec => []Up!FramingInv
<1>1. Up!FramingAssumption => (Up!Init => Up!FramingInv)
  BY SameUp, UpProofs!InitInv
<1>2. (UpProofs!FramingInv <=> Up!FramingInv)'
  BY SameUp, PTL
<1>3. Up!FramingAssumption /\ Up!FramingInv /\ [Up!Next]_up => Up!FramingInv'
  BY <1>2, SameUp, UpProofs!NextInv
<1>4. QED
  BY <1>1, <1>3, Assumptions, PTL DEF Up!Spec

LEMMA DownCorrect == Down!Spec => []Down!FramingInv
<1>1. Down!FramingAssumption => (Down!Init => Down!FramingInv)
  BY SameDown, DownProofs!InitInv
<1>2. (DownProofs!FramingInv <=> Down!FramingInv)'
  BY SameDown, PTL
<1>3. Down!FramingAssumption /\ Down!FramingInv /\ [Down!Next]_down
        => Down!FramingInv'
  BY <1>2, SameDown, DownProofs!NextInv
<1>4. QED
  BY <1>1, <1>3, Assumptions, PTL DEF Down!Spec

-----------------------------------------------------------------------------
(***************************************************************************)
(* The sockets.                                                            *)
(***************************************************************************)

\* The types of the sockets and of the promise; nothing is written before the
\* connection exists, and a server that is not done reads.
SocketInv ==
  /\ role \in Roles
  /\ client \in ClientStates
  /\ server \in {"listening", "open", "closed"}
  /\ settled \in {"no", "ok", "timeout", "error"}
  /\ errors \in 0 .. MaxErrors
  /\ client = "connecting" => server = "listening" /\ up = Up!Empty
  /\ server # "closed" => up.reading

LEMMA SocketInit == Init => SocketInv
BY ConnectionAssumption
DEF Init, SocketInv, ClientStates, Up!Init, Up!Empty

\* How the steps of a stream change whether its reader reads.
LEMMA UpReading ==
  ASSUME Up!TypeOK
  PROVE  /\ \A t, l : Up!Write(t, l) => up'.reading = up.reading
         /\ Up!Data \/ Up!Pause => up'.reading = up.reading
         /\ \A h : Up!Handle(h, TRUE) => up'.reading = TRUE
         /\ Up!Pause \/ (\E h : Up!Refuse(h) \/ Up!Handle(h, TRUE))
              => up # Up!Empty
<1>1. ASSUME NEW t, NEW l, Up!Write(t, l)
      PROVE  up'.reading = up.reading
  BY <1>1 DEF Up!TypeOK, Up!Write
<1>2. ASSUME Up!Data \/ Up!Pause
      PROVE  up'.reading = up.reading
  BY <1>2 DEF Up!TypeOK, Up!Data, Up!Pause
<1>3. ASSUME NEW h, Up!Handle(h, TRUE)
      PROVE  up'.reading = TRUE
  BY <1>3 DEF Up!TypeOK, Up!Handle, Up!Take
<1>4. ASSUME Up!Pause \/ (\E h : Up!Refuse(h) \/ Up!Handle(h, TRUE))
      PROVE  up # Up!Empty
  <2>1. up.looping
    BY <1>4 DEF Up!Pause, Up!Handle, Up!Refuse
  <2>2. QED
    BY <2>1 DEF Up!Empty
<1>5. QED
  BY <1>1, <1>2, <1>3, <1>4

LEMMA SocketNext ==
  ASSUME SocketInv, Up!TypeOK, [Next]_vars
  PROVE  SocketInv'
<1> USE DEF SocketInv, ClientStates
<1>1. CASE Connect
  BY <1>1, UpReading DEF Connect
<1>2. CASE ClientData
  BY <1>2 DEF ClientData
<1>3. CASE ClientPause
  BY <1>3 DEF ClientPause
<1>4. CASE \E h \in Down!Frame : PingHandle(h)
  BY <1>4 DEF PingHandle, Settle
<1>5. CASE \E h \in Down!Frame : HandshakeHandle(h)
  <2>1. CASE client = "open" /\ (\E l \in Length : Up!Write("HANDSHAKE_AUTH", l))
             /\ UNCHANGED client
    BY <1>5, <2>1, UpReading DEF HandshakeHandle
  <2>2. CASE client' = "closed" /\ UNCHANGED up
    BY <1>5, <2>2 DEF HandshakeHandle
  <2>3. CASE UNCHANGED <<client, up>>
    BY <1>5, <2>3 DEF HandshakeHandle
  <2>4. QED
    BY <1>5, <2>1, <2>2, <2>3 DEF HandshakeHandle
<1>6. CASE PingTimeout
  BY <1>6 DEF PingTimeout, Settle
<1>7. CASE ListTimeout
  BY <1>7 DEF ListTimeout
<1>8. CASE ClientError
  <2>1. errors + 1 \in 0 .. MaxErrors
    BY <1>8, ConnectionAssumption DEF ClientError
  <2>2. QED
    BY <1>8, <2>1 DEF ClientError, Settle
<1>9. CASE ClientEnd
  BY <1>9 DEF ClientEnd
<1>10. CASE ServerData
  BY <1>10, UpReading DEF ServerData
<1>11. CASE ServerPause
  BY <1>11, UpReading DEF ServerPause
<1>12. CASE ServerRefuse
  BY <1>12, UpReading DEF ServerRefuse
<1>13. CASE \E h \in Up!Frame : ServerHandle(h)
  BY <1>13, UpReading DEF ServerHandle
<1>14. CASE KeepAlive
  BY <1>14 DEF KeepAlive
<1>15. CASE ServerEnd
  BY <1>15 DEF ServerEnd
<1>16. CASE ServerStop
  <2>1. errors + 1 \in 0 .. MaxErrors
    BY <1>16, ConnectionAssumption DEF ServerStop
  <2>2. QED
    BY <1>16, <2>1 DEF ServerStop
<1>17. CASE UNCHANGED vars
  BY <1>17 DEF vars
<1>18. QED
  BY <1>1, <1>2, <1>3, <1>4, <1>5, <1>6, <1>7, <1>8, <1>9, <1>10, <1>11,
     <1>12, <1>13, <1>14, <1>15, <1>16, <1>17 DEF Next

-----------------------------------------------------------------------------
(***************************************************************************)
(* The PONG.                                                               *)
(***************************************************************************)

Pinged == \E i \in DOMAIN up.got : up.got[i].type = "KEEPALIVE_PING"
Ponged == \E i \in DOMAIN down.sent : down.sent[i].type = "KEEPALIVE_PONG"

\* A PONG was written for a PING, and the promise is kept for a PONG.
PongInv ==
  /\ Ponged => Pinged
  /\ settled = "ok" => Ponged

\* What was handled stays handled.
LEMMA GotGrows ==
  ASSUME Up!FramingAssumption, Up!TypeOK, [Up!Next]_up, Pinged
  PROVE  Pinged'
<1>1. up.got \in Seq(Up!Frame)
  BY DEF Up!TypeOK
<1>2. CASE up'.got = up.got
  BY <1>2 DEF Pinged
<1>3. CASE \E h \in Up!Frame : up'.got = Append(up.got, h)
  BY <1>1, <1>3 DEF Pinged
<1>4. QED
  BY <1>2, <1>3
  DEF Up!Next, Up!TypeOK, Up!Write, Up!Data, Up!Pause, Up!Refuse, Up!Handle,
      Up!Take

\* What is written stays written, and a step that writes no PONG adds none.
LEMMA SentGrows ==
  ASSUME Down!FramingAssumption, Down!TypeOK
  PROVE  /\ [Down!Next]_down /\ Ponged => Ponged'
         /\ \A t \in Type, l \in Length :
              Down!Write(t, l) =>
                (Ponged' <=> Ponged \/ t = "KEEPALIVE_PONG")
         /\ Down!Data \/ Down!Pause
               \/ (\E h, on : Down!Handle(h, on)) \/ UNCHANGED down
              => (Ponged' <=> Ponged)
<1>1. ASSUME NEW t \in Type, NEW l \in Length, Down!Write(t, l)
      PROVE  Ponged' <=> Ponged \/ t = "KEEPALIVE_PONG"
  <2> DEFINE e == [type |-> t, len |-> l, at |-> down.written]
             n == Len(down.sent)
  <2>1. /\ e \in Down!Sent /\ down.sent \in Seq(Down!Sent)
        /\ down'.sent = Append(down.sent, e) /\ e.type = t
    BY <1>1 DEF Down!Write, Down!TypeOK, Down!Sent
  <2>2. /\ n \in Nat /\ DOMAIN down.sent = 1 .. n
        /\ DOMAIN down'.sent = 1 .. n + 1 /\ down'.sent[n + 1] = e
        /\ \A i \in 1 .. n : down'.sent[i] = down.sent[i]
    BY <2>1
  <2>3. \A i \in 1 .. n + 1 : i \in 1 .. n \/ i = n + 1
    BY <2>2
  <2>4. \A i \in 1 .. n : i \in 1 .. n + 1
    BY <2>2
  <2>5. n + 1 \in 1 .. n + 1
    BY <2>2
  <2>6. QED
    BY <2>1, <2>2, <2>3, <2>4, <2>5, Zenon DEF Ponged
<1>2. ASSUME Down!Data \/ Down!Pause \/ (\E h : Down!Refuse(h))
               \/ (\E h, on : Down!Handle(h, on)) \/ UNCHANGED down
      PROVE  Ponged' <=> Ponged
  <2>1. down'.sent = down.sent
    BY <1>2 DEF Down!TypeOK, Down!Data, Down!Pause, Down!Refuse, Down!Handle,
                Down!Take
  <2>2. QED
    BY <2>1 DEF Ponged
<1>3. QED
  BY <1>1, <1>2 DEF Down!Next

LEMMA PongNext ==
  ASSUME SocketInv, Up!FramingInv, Down!FramingInv, PongInv, [Next]_vars,
         Down!FramingInv'
  PROVE  PongInv'
<1>1. /\ Up!FramingAssumption /\ Up!TypeOK /\ [Up!Next]_up
      /\ Down!FramingAssumption /\ Down!TypeOK /\ [Down!Next]_down
  BY Assumptions, UpSteps, DownSteps
  DEF SocketInv, RoleOK, Up!FramingInv, Down!FramingInv
<1>2. (Pinged => Pinged') /\ (Ponged => Ponged')
  BY <1>1, GotGrows, SentGrows
<1>3. CASE \E h \in Up!Frame : ServerHandle(h)
  <2>1. PICK h \in Up!Frame : ServerHandle(h)
    BY <1>3
  <2>2. CASE h.type = "KEEPALIVE_PING" /\ Down!Write("KEEPALIVE_PONG", 0)
    <3>1. up'.got = Append(up.got, h) /\ up.got \in Seq(Up!Frame)
      BY <1>1, <2>1 DEF ServerHandle, Up!Handle, Up!Take, Up!TypeOK
    <3>2. /\ Len(up.got) + 1 \in DOMAIN up'.got
          /\ up'.got[Len(up.got) + 1] = h
      BY <3>1
    <3>3. Pinged'
      BY <2>2, <3>2 DEF Pinged
    <3>4. QED
      BY <1>2, <2>1, <3>3 DEF PongInv, ServerHandle
  <2>3. CASE \/ \E l \in Length : \/ Down!Write("HANDSHAKE_HELLO_REPLY", l)
                                \/ Down!Write("HANDSHAKE_AUTH_OK", l)
             \/ UNCHANGED down
    <3>1. Ponged' <=> Ponged
      BY <1>1, <2>3, SentGrows DEF Type
    <3>2. QED
      BY <1>2, <2>1, <3>1 DEF PongInv, ServerHandle
  <2>4. QED
    BY <2>1, <2>2, <2>3 DEF ServerHandle
<1>4. CASE \E h \in Down!Frame : PingHandle(h)
  <2>1. PICK h \in Down!Frame : PingHandle(h)
    BY <1>4
  <2>2. Ponged' <=> Ponged
    BY <1>1, <2>1, SentGrows DEF PingHandle
  <2>3. CASE IsPong(h) /\ Down!Handle(h, FALSE)
    <3> DEFINE n == Len(down.got)
    <3>1. /\ down'.got = Append(down.got, h) /\ down.got \in Seq(Down!Frame)
          /\ down'.sent = down.sent
      BY <1>1, <2>3 DEF Down!Handle, Down!Take, Down!TypeOK
    <3>2. /\ n + 1 \in DOMAIN down'.got /\ down'.got[n + 1] = h
          /\ Len(down'.got) = n + 1 /\ n \in Nat
      BY <3>1
    <3>3. /\ n + 1 <= Len(down'.sent)
          /\ down'.sent \in Seq(Down!Sent)
          /\ h = [type |-> down'.sent[n + 1].type,
                  len |-> down'.sent[n + 1].len]
      BY <3>2 DEF Down!FramingInv, Down!DecodedInOrder, Down!TypeOK
    <3>4. n + 1 \in DOMAIN down.sent /\ down.sent[n + 1].type = h.type
      BY <3>1, <3>2, <3>3
    <3>5. Ponged
      BY <2>3, <3>4 DEF Ponged, IsPong
    <3>6. QED
      BY <1>2, <3>5 DEF PongInv
  <2>4. CASE UNCHANGED settled
    BY <1>2, <2>2, <2>4 DEF PongInv
  <2>5. QED
    BY <2>1, <2>3, <2>4 DEF PingHandle
<1>5. CASE \E h \in Down!Frame : HandshakeHandle(h)
  BY <1>1, <1>2, <1>5, SentGrows DEF PongInv, HandshakeHandle
<1>6. CASE KeepAlive
  <2>1. Ponged' <=> Ponged
    BY <1>1, <1>6, Assumptions, SentGrows DEF KeepAlive, Type
  <2>2. QED
    BY <1>2, <1>6, <2>1 DEF PongInv, KeepAlive
<1>7. CASE ClientData \/ ClientPause
  BY <1>1, <1>2, <1>7, SentGrows DEF PongInv, ClientData, ClientPause
<1>8. CASE PingTimeout \/ ClientError
  BY <1>1, <1>2, <1>8, SentGrows DEF PongInv, PingTimeout, ClientError, Settle
<1>9. CASE UNCHANGED <<down, settled>>
  BY <1>1, <1>2, <1>9, SentGrows DEF PongInv
<1>10. QED
  BY <1>3, <1>4, <1>5, <1>6, <1>7, <1>8, <1>9
  DEF Next, vars, Connect, ListTimeout, ClientEnd, ServerData, ServerPause,
      ServerRefuse, ServerEnd, ServerStop

-----------------------------------------------------------------------------
(***************************************************************************)
(* The end of a message.                                                   *)
(***************************************************************************)

\* One frame is written on the connection of a message, and while no error
\* occurs its client lives until the server has seen the end.
MessageInv ==
  role = "message" /\ errors = 0 =>
    /\ client # "open"
    /\ client # "connecting" => Len(up.sent) = 1
    /\ client = "closed" => server = "closed"
    /\ EndLosesNothing

\* At the end of the stream the one frame was handled.
LEMMA AllHandled ==
  ASSUME Up!FramingInv, Len(up.sent) = 1, up.reading, ~up.looping,
         up.arrived = up.written
  PROVE  Len(up.got) = 1
<1> DEFINE f == up.sent[1]
<1>1. /\ up.sent \in Seq(Up!Sent) /\ up.got \in Seq(Up!Frame)
      /\ Len(up.got) <= 1
  BY DEF Up!FramingInv, Up!TypeOK, Up!DecodedInOrder
<1>2. 1 \in DOMAIN up.sent /\ 2 \notin DOMAIN up.sent
  BY <1>1
<1>3. up.written = f.at + Up!Header + f.len
  BY <1>2 DEF Up!FramingInv, Up!Contiguous, Up!Start
<1>4. CASE Len(up.got) = 0
  <2>1. up.arrived < f.at + Up!Header + f.len
    BY <1>4 DEF Up!FramingInv, Up!NothingLeftDecodable
  <2>2. f.at \in Nat /\ Up!Header \in Nat /\ f.len \in Nat
    <3>1. f \in Up!Sent
      BY <1>1, <1>2
    <3>2. QED
      BY <3>1, Assumptions DEF Up!Sent, Up!Header
  <2>3. QED
    BY <1>3, <2>1, <2>2
<1>5. QED
  BY <1>1, <1>4

\* The server gives up on the one frame for its length only.
LEMMA RefusedIsTooLong ==
  ASSUME Up!FramingInv, Len(up.sent) = 1, NEW h, Up!Refuse(h)
  PROVE  Len(up.got) = 1 \/ up.sent[1].len > Limit
<1>1. /\ up.sent \in Seq(Up!Sent) /\ up.got \in Seq(Up!Frame)
      /\ Len(up.got) <= 1
  BY DEF Up!FramingInv, Up!TypeOK, Up!DecodedInOrder
<1>2. DOMAIN up.sent = {1}
  BY <1>1
<1>3. CASE Len(up.got) = 0
  <2>1. up.used = up.sent[1].at
    BY <1>2, <1>3 DEF Up!FramingInv, Up!Aligned, Up!Start
  <2>2. h.len = up.sent[1].len
    BY <1>2, <2>1 DEF Up!Refuse, Up!HeadersAt
  <2>3. QED
    BY <2>2 DEF Up!Refuse, Up!TooLong
<1>4. QED
  BY <1>1, <1>3

LEMMA MessageNext ==
  ASSUME SocketInv, Up!FramingInv, MessageInv, [Next]_vars, Up!FramingInv'
  PROVE  MessageInv'
<1> SUFFICES ASSUME role' = "message", errors' = 0 PROVE MessageInv'
  BY DEF MessageInv
<1>1. Up!TypeOK /\ Up!TypeOK' /\ errors \in Nat
  BY ConnectionAssumption DEF Up!FramingInv, SocketInv
<1>2. CASE Connect
  <2>1. /\ client' = "ended" /\ server' = "open" /\ up.sent = << >>
        /\ \E l \in Length : Up!Write(FirstFrame[role], l)
    BY <1>2 DEF Connect, SocketInv, Up!Empty
  <2>2. Len(up'.sent) = 1
    BY <1>1, <2>1 DEF Up!Write, Up!TypeOK
  <2>3. QED
    BY <2>1, <2>2 DEF MessageInv, EndLosesNothing
<1>3. CASE ServerEnd
  <2>1. /\ role = "message" /\ server = "open" /\ ~up.looping
        /\ UNCHANGED <<client, up, errors>> /\ server' = "closed"
    BY <1>3 DEF ServerEnd
  <2>2. client = "ended" /\ up.arrived = up.written
    BY <1>3, <2>1 DEF ServerEnd, MessageInv
  <2>3. Len(up.sent) = 1 /\ up.reading
    BY <2>1, <2>2 DEF MessageInv, SocketInv
  <2>4. Len(up.got) = 1
    BY <2>1, <2>2, <2>3, AllHandled
  <2>5. QED
    BY <2>1, <2>2, <2>3, <2>4 DEF MessageInv, EndLosesNothing
<1>4. CASE ServerRefuse
  <2>1. PICK h \in Up!Frame : Up!Refuse(h)
    BY <1>4 DEF ServerRefuse
  <2>2. /\ role = "message" /\ UNCHANGED <<client, errors>>
        /\ server' = "closed"
        /\ up'.sent = up.sent /\ up'.got = up.got
    BY <1>1, <1>4, <2>1 DEF ServerRefuse, Up!Refuse, Up!TypeOK
  <2>3. client # "connecting"
    BY <2>1, UpReading, <1>1 DEF SocketInv
  <2>4. Len(up.sent) = 1
    BY <2>2, <2>3 DEF MessageInv
  <2>5. Len(up.got) = 1 \/ up.sent[1].len > Limit
    BY <2>1, <2>4, RefusedIsTooLong
  <2>6. up.sent[1].len \in Nat
    <3>1. up.sent[1] \in Up!Sent
      BY <1>1, <2>4 DEF Up!TypeOK
    <3>2. QED
      BY <3>1, Assumptions DEF Up!Sent
  <2>7. QED
    BY <2>2, <2>4, <2>5, <2>6, ConnectionAssumption
       DEF MessageInv, EndLosesNothing
<1>5. CASE \E h \in Up!Frame : ServerHandle(h)
  <2>1. PICK h \in Up!Frame : Up!Handle(h, TRUE)
    BY <1>5 DEF ServerHandle
  <2>2. /\ role = "message" /\ UNCHANGED <<client, server, errors>>
        /\ up'.sent = up.sent /\ up'.got = Append(up.got, h)
    BY <1>1, <1>5, <2>1 DEF ServerHandle, Up!Handle, Up!Take, Up!TypeOK
  <2>3. client # "connecting"
    BY <2>1, UpReading, <1>1 DEF SocketInv
  <2>4. Len(up'.sent) = 1
    BY <2>2, <2>3 DEF MessageInv
  <2>5. Len(up'.got) <= 1 /\ Len(up'.got) = Len(up.got) + 1
    BY <1>1, <2>2, <2>4 DEF Up!FramingInv, Up!DecodedInOrder, Up!TypeOK
  <2>6. Len(up'.got) = 1
    BY <1>1, <2>5 DEF Up!TypeOK
  <2>7. QED
    BY <2>2, <2>4, <2>6 DEF MessageInv, EndLosesNothing
<1>6. CASE ServerData \/ ServerPause
  <2>1. /\ up'.sent = up.sent /\ up'.got = up.got
        /\ UNCHANGED <<role, client, server, errors>>
    BY <1>1, <1>6
       DEF ServerData, ServerPause, Up!Data, Up!Pause, Up!TypeOK
  <2>2. QED
    BY <2>1 DEF MessageInv, EndLosesNothing
<1>7. CASE ClientError \/ ServerStop
  BY <1>1, <1>7 DEF ClientError, ServerStop
<1>8. CASE ClientEnd
  BY <1>8 DEF ClientEnd, MessageInv, EndLosesNothing
<1>9. CASE UNCHANGED <<role, client, server, up, errors>>
  BY <1>9 DEF MessageInv, EndLosesNothing
<1>10. QED
  BY <1>2, <1>3, <1>4, <1>5, <1>6, <1>7, <1>8, <1>9
     DEF Next, vars, ClientData, ClientPause, PingHandle, HandshakeHandle,
         PingTimeout, ListTimeout, KeepAlive

-----------------------------------------------------------------------------
(***************************************************************************)
(* The theorems.                                                           *)
(***************************************************************************)

LEMMA Correct ==
  Spec => [](SocketInv /\ Up!FramingInv /\ Down!FramingInv /\ PongInv)
<1>1. Spec => []Up!FramingInv /\ []Down!FramingInv
  BY StreamsImplementFraming, UpCorrect, DownCorrect, PTL DEF StreamsAreFraming
<1>2. Init => SocketInv /\ PongInv
  <2>1. Init => PongInv
    BY DEF Init, PongInv, Ponged, Down!Init, Down!Empty
  <2>2. QED
    BY <2>1, SocketInit
<1>3. SocketInv /\ Up!FramingInv /\ [Next]_vars => SocketInv'
  BY SocketNext DEF Up!FramingInv
<1>4. SocketInv /\ Up!FramingInv /\ Down!FramingInv /\ PongInv
        /\ [Next]_vars /\ Down!FramingInv' => PongInv'
  BY PongNext
<1>5. QED
  BY <1>1, <1>2, <1>3, <1>4, PTL DEF Spec

\* Both ends of any connection decode what the other one wrote, whatever the
\* payloads, the limit and the way the network cuts the bytes.
THEOREM ConnectionCorrect == Spec => []ConnectionInv
<1>1. SocketInv /\ Up!FramingInv /\ Down!FramingInv => ConnectionInv
  BY DEF ConnectionInv, SocketInv, TypeOK, Up!FramingInv, Down!FramingInv
<1>2. QED
  BY <1>1, Correct, PTL

\* No client makes the server hold a whole frame of the longest kind, for any
\* limit (the test at server.js 57, before the wait for the payload).
THEOREM MemoryBounded == Spec => []ServerMemoryBounded
<1>1. SocketInv /\ Up!FramingInv => ServerMemoryBounded
  BY DEF SocketInv, Up!FramingInv, Up!BufferBounded, ServerMemoryBounded
<1>2. QED
  BY <1>1, Correct, PTL

\* A PING succeeds for an answer only, never for a keep-alive frame the server
\* sent of its own accord (tcpPingPeer).
THEOREM PongsAreAnswers == Spec => []PongIsAnswer
<1>1. PongInv => PongIsAnswer
  BY DEF PongInv, Ponged, Pinged, PongIsAnswer
<1>2. QED
  BY <1>1, Correct, PTL

\* Ending the connection right behind the one frame of a message loses
\* nothing of it, however its bytes are cut: the server sees the end after it
\* has handled the frame, or has refused it for its length.
THEOREM MessageSurvivesEnd == Spec => []EndLosesNothing
<1>1. Spec => []Up!FramingInv /\ [](SocketInv /\ Up!FramingInv)
  BY Correct, PTL
<1>2. Init => MessageInv
  BY DEF Init, MessageInv, EndLosesNothing
<1>3. SocketInv /\ Up!FramingInv /\ MessageInv /\ [Next]_vars
        /\ Up!FramingInv' => MessageInv'
  BY MessageNext
<1>4. MessageInv => EndLosesNothing
  BY DEF MessageInv, EndLosesNothing
<1>5. QED
  BY <1>1, <1>2, <1>3, <1>4, PTL DEF Spec
=============================================================================
