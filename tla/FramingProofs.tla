--------------------------- MODULE FramingProofs ---------------------------
(***************************************************************************)
(* The theorems about Framing: for any frames, any limit and any way the   *)
(* network cuts the stream, the reader decodes what was written.           *)
(***************************************************************************)
EXTENDS Framing, SequenceTheorems, TLAPS

\* The fields of the stream, one by one.
LEMMA Fields ==
  ASSUME FramingAssumption, TypeOK
  PROVE  /\ stream.sent \in Seq(Sent) /\ stream.written \in Nat
         /\ stream.arrived \in Nat /\ stream.used \in Nat
         /\ stream.got \in Seq(Frame)
         /\ stream.looping \in BOOLEAN /\ stream.reading \in BOOLEAN
         /\ Len(stream.sent) \in Nat /\ Len(stream.got) \in Nat
         /\ DOMAIN stream.sent = 1 .. Len(stream.sent)
         /\ DOMAIN stream.got = 1 .. Len(stream.got)
         /\ \A i \in DOMAIN stream.sent :
              /\ stream.sent[i].type \in Type /\ stream.sent[i].at \in Nat
              /\ stream.sent[i].len \in Length /\ stream.sent[i].len \in Nat
<1>1. /\ stream.sent \in Seq(Sent) /\ stream.written \in Nat
      /\ stream.arrived \in Nat /\ stream.used \in Nat
      /\ stream.got \in Seq(Frame)
      /\ stream.looping \in BOOLEAN /\ stream.reading \in BOOLEAN
  BY DEF TypeOK
<1>2. /\ Len(stream.sent) \in Nat /\ Len(stream.got) \in Nat
      /\ DOMAIN stream.sent = 1 .. Len(stream.sent)
      /\ DOMAIN stream.got = 1 .. Len(stream.got)
  BY <1>1, LenProperties
<1>3. \A i \in DOMAIN stream.sent : stream.sent[i] \in Sent
  BY <1>1, <1>2, ElementOfSeq
<1>4. \A e \in Sent : e.type \in Type /\ e.at \in Nat /\ e.len \in Length
  BY DEF Sent
<1>5. QED
  BY <1>1, <1>2, <1>3, <1>4 DEF FramingAssumption

\* A reader with a whole header in its buffer reads that of the first frame
\* it has not handled, and no other.
LEMMA NextHeader ==
  ASSUME FramingAssumption, TypeOK, Contiguous, Positions, Aligned,
         Len(stream.got) <= Len(stream.sent), Buffered >= Header
  PROVE  /\ Len(stream.got) + 1 \in DOMAIN stream.sent
         /\ stream.used = stream.sent[Len(stream.got) + 1].at
         /\ HeadersAt(stream.used) =
              {[type |-> stream.sent[Len(stream.got) + 1].type,
                len |-> stream.sent[Len(stream.got) + 1].len]}
<1> DEFINE k == Len(stream.got) + 1
<1>1. stream.used + Header <= stream.written
  BY Fields DEF Positions, Buffered, Header
<1>2. k \in DOMAIN stream.sent
  <2>1. CASE k \in DOMAIN stream.sent
    BY <2>1
  <2>2. CASE k \notin DOMAIN stream.sent
    <3>1. stream.used = stream.written
      BY <2>2 DEF Aligned, Start
    <3>2. QED
      BY <1>1, <3>1, Fields DEF Header
  <2>3. QED
    BY <2>1, <2>2
<1>3. stream.used = stream.sent[k].at
  BY <1>2 DEF Aligned, Start
<1>4. ASSUME NEW i \in DOMAIN stream.sent, stream.sent[i].at = stream.used
      PROVE  i = k
  <2>0. i \in Nat /\ k \in Nat /\ i >= 1 /\ k >= 1
    BY <1>2, Fields
  <2>1. /\ i < k => stream.sent[i].at < stream.sent[k].at
        /\ k < i => stream.sent[k].at < stream.sent[i].at
    <3>1. /\ i < k => i \in 1 .. k - 1
          /\ k < i => k \in 1 .. i - 1
      BY <2>0
    <3>2. QED
      BY <1>2, <3>1 DEF Contiguous
  <2>2. /\ i \in Nat /\ k \in Nat
        /\ stream.sent[i].at \in Nat /\ stream.sent[k].at \in Nat
    BY <1>2, Fields
  <2>3. QED
    BY <1>3, <1>4, <2>1, <2>2
<1>5. {i \in DOMAIN stream.sent : stream.sent[i].at = stream.used} = {k}
  BY <1>2, <1>3, <1>4
<1>6. QED
  BY <1>2, <1>3, <1>5 DEF HeadersAt

-----------------------------------------------------------------------------
(***************************************************************************)
(* The steps.                                                              *)
(***************************************************************************)

LEMMA WriteKeeps ==
  ASSUME FramingAssumption, FramingInv, NEW t \in Type, NEW l \in Length,
         Write(t, l)
  PROVE  FramingInv'
<1> DEFINE e == [type |-> t, len |-> l, at |-> stream.written]
           n == Len(stream.sent)
<1>1. TypeOK /\ l \in Nat /\ n \in Nat /\ e \in Sent
  BY Fields DEF FramingInv, FramingAssumption, Sent
<1>2. /\ stream'.sent = Append(stream.sent, e)
      /\ stream'.written = stream.written + Header + l
      /\ stream'.arrived = stream.arrived /\ stream'.used = stream.used
      /\ stream'.got = stream.got /\ stream'.looping = stream.looping
      /\ stream'.reading = stream.reading
  BY <1>1 DEF Write, TypeOK
<1>3. /\ stream'.sent \in Seq(Sent) /\ Len(stream'.sent) = n + 1
      /\ DOMAIN stream'.sent = 1 .. n + 1
      /\ stream'.sent[n + 1] = e
      /\ \A i \in 1 .. n : stream'.sent[i] = stream.sent[i]
  BY <1>1, <1>2, Fields
<1>4. TypeOK'
  <2>1. stream.written + Header + l \in Nat
    BY <1>1, Fields DEF Header
  <2>2. stream' = [stream EXCEPT !.sent = stream'.sent,
                                 !.written = stream.written + Header + l]
    BY <1>2 DEF Write
  <2>3. QED
    BY <1>1, <1>3, <2>1, <2>2 DEF TypeOK
<1>5. Positions'
  BY <1>1, <1>2, Fields DEF FramingInv, Positions, Header
<1>6. \A k \in 1 .. n : Start(stream', k) = Start(stream, k)
  BY <1>1, <1>3, Fields DEF Start
<1>7. Start(stream, n + 1) = stream.written /\ Start(stream', n + 1) = stream.written
  BY <1>1, <1>3, Fields DEF Start
<1>8. Start(stream', n + 2) = stream.written + Header + l
  BY <1>1, <1>2, <1>3 DEF Start
<1>9. Contiguous'
  <2>1. Start(stream', 1) = 0
    BY <1>1, <1>6, <1>7 DEF FramingInv, Contiguous
  <2>2. ASSUME NEW k \in 1 .. n + 1
        PROVE  Start(stream', k + 1) = stream'.sent[k].at + Header + stream'.sent[k].len
    <3>1. CASE k = n + 1
      BY <1>1, <1>3, <1>8, <3>1
    <3>2. CASE k \in 1 .. n
      <4>1. Start(stream, k + 1) = stream.sent[k].at + Header + stream.sent[k].len
        BY <1>1, <3>2, Fields DEF FramingInv, Contiguous
      <4>2. Start(stream', k + 1) = Start(stream, k + 1)
        BY <1>1, <1>6, <1>7, <3>2
      <4>3. QED
        BY <1>3, <3>2, <4>1, <4>2
    <3>3. QED
      BY <1>1, <3>1, <3>2
  <2>3. ASSUME NEW k \in 1 .. n + 1
        PROVE  /\ stream'.sent[k].at < stream'.written
               /\ \A j \in 1 .. k - 1 : stream'.sent[j].at < stream'.sent[k].at
    <3>1. stream.written \in Nat /\ stream.written < stream'.written
      BY <1>1, <1>2, Fields DEF Header
    <3>2. \A i \in 1 .. n : /\ stream.sent[i].at \in Nat
                            /\ stream.sent[i].at < stream.written
      BY <1>1, Fields DEF FramingInv, Contiguous
    <3>3. CASE k = n + 1
      <4>1. stream'.sent[k].at = stream.written
        BY <1>3, <3>3
      <4>2. \A j \in 1 .. k - 1 : j \in 1 .. n
        BY <1>1, <3>3
      <4>3. QED
        BY <1>3, <3>1, <3>2, <4>1, <4>2
    <3>4. CASE k \in 1 .. n
      <4>1. \A j \in 1 .. k - 1 : stream.sent[j].at < stream.sent[k].at
        BY <1>1, <3>4, Fields DEF FramingInv, Contiguous
      <4>2. stream'.sent[k].at < stream'.written
        <5>1. stream'.sent[k] = stream.sent[k] /\ stream'.written \in Nat
          BY <1>1, <1>2, <1>3, <3>1, <3>4 DEF Header
        <5>2. stream.sent[k].at \in Nat /\ stream.sent[k].at < stream.written
          BY <3>2, <3>4
        <5>3. \A a, b, c \in Nat : a < b /\ b < c => a < c
          OBVIOUS
        <5>4. QED
          BY <3>1, <5>1, <5>2, <5>3
      <4>3. QED
        BY <1>1, <1>3, <3>4, <4>1, <4>2
    <3>5. QED
      BY <1>1, <3>3, <3>4
  <2>4. QED
    BY <1>3, <2>1, <2>2, <2>3 DEF Contiguous
<1>10. Len(stream.got) \in Nat /\ Len(stream.got) <= n
       /\ DOMAIN stream.got = 1 .. Len(stream.got)
  BY <1>1, Fields DEF FramingInv, DecodedInOrder
<1>11. DecodedInOrder'
  <2>1. \A i \in DOMAIN stream.got : stream'.sent[i] = stream.sent[i]
    BY <1>1, <1>3, <1>10
  <2>2. QED
    BY <1>1, <1>2, <1>3, <1>10, <2>1 DEF FramingInv, DecodedInOrder
<1>12. Aligned'
  BY <1>1, <1>2, <1>6, <1>7, <1>10 DEF FramingInv, Aligned
<1>13. NothingLeftDecodable'
  <2>1. SUFFICES ASSUME stream.reading, ~stream.looping
                 PROVE  LET f == stream'.sent[Len(stream.got) + 1]
                        IN stream.arrived < f.at + Header + f.len
    BY <1>2, <1>3 DEF NothingLeftDecodable
  <2>2. CASE Len(stream.got) < n
    <3>1. Len(stream.got) + 1 \in 1 .. n
      BY <1>1, <1>10, <2>2
    <3>2. stream'.sent[Len(stream.got) + 1] = stream.sent[Len(stream.got) + 1]
      BY <1>3, <3>1
    <3>3. LET f == stream.sent[Len(stream.got) + 1]
          IN stream.arrived < f.at + Header + f.len
      BY <2>1, <2>2 DEF FramingInv, NothingLeftDecodable
    <3>4. QED
      BY <3>2, <3>3
  <2>3. CASE Len(stream.got) = n
    <3>1. stream'.sent[Len(stream.got) + 1] = e
      BY <1>1, <1>3, <2>3
    <3>2. stream.arrived \in Nat /\ stream.written \in Nat
          /\ stream.arrived <= stream.written /\ l \in Nat
      BY <1>1, Fields DEF FramingInv, Positions
    <3>3. stream.arrived < stream.written + Header + l
      BY <3>2 DEF Header
    <3>4. e.at = stream.written /\ e.len = l
      OBVIOUS
    <3>5. QED
      BY <3>1, <3>3, <3>4
  <2>4. QED
    BY <1>1, <1>10, <2>2, <2>3
<1>14. BufferBounded'
  BY <1>2 DEF FramingInv, BufferBounded, Buffered
<1>15. QED
  BY <1>4, <1>5, <1>9, <1>11, <1>12, <1>13, <1>14 DEF FramingInv

LEMMA DataKeeps ==
  ASSUME FramingAssumption, FramingInv, Data
  PROVE  FramingInv'
<1>1. PICK n \in stream.arrived + 1 .. stream.written :
        stream' = [stream EXCEPT !.arrived = n, !.looping = TRUE]
  BY DEF Data
<1>2. n \in Nat /\ stream.arrived <= n /\ n <= stream.written
  BY <1>1, Fields DEF FramingInv
<1>3. /\ stream'.sent = stream.sent /\ stream'.written = stream.written
      /\ stream'.used = stream.used /\ stream'.got = stream.got
      /\ stream'.arrived = n /\ stream'.looping = TRUE
  BY <1>1 DEF FramingInv, TypeOK
<1>4. TypeOK'
  BY <1>1, <1>2 DEF FramingInv, TypeOK
<1>5. Contiguous'
  BY <1>3 DEF FramingInv, Contiguous, Start
<1>6. Positions'
  BY <1>2, <1>3, Fields DEF FramingInv, Positions
<1>7. DecodedInOrder' /\ Aligned'
  BY <1>3 DEF FramingInv, DecodedInOrder, Aligned, Start
<1>8. NothingLeftDecodable' /\ BufferBounded'
  BY <1>3 DEF NothingLeftDecodable, BufferBounded
<1>9. QED
  BY <1>4, <1>5, <1>6, <1>7, <1>8 DEF FramingInv

\* A step that only ends the loop disturbs the two properties of a reader
\* between two data events, and nothing else.
LEMMA LoopEnds ==
  ASSUME FramingInv, NEW on \in BOOLEAN,
         stream' = [stream EXCEPT !.looping = FALSE, !.reading = on],
         on => NothingLeftDecodable' /\ BufferBounded'
  PROVE  FramingInv'
<1>1. /\ stream'.sent = stream.sent /\ stream'.written = stream.written
      /\ stream'.used = stream.used /\ stream'.got = stream.got
      /\ stream'.arrived = stream.arrived /\ stream'.reading = on
  BY DEF FramingInv, TypeOK
<1>2. TypeOK'
  BY DEF FramingInv, TypeOK
<1>3. Contiguous' /\ Positions' /\ DecodedInOrder' /\ Aligned'
  BY <1>1 DEF FramingInv, Contiguous, Start, Positions, DecodedInOrder, Aligned
<1>4. NothingLeftDecodable' /\ BufferBounded'
  BY <1>1 DEF NothingLeftDecodable, BufferBounded
<1>5. QED
  BY <1>2, <1>3, <1>4 DEF FramingInv

LEMMA PauseKeeps ==
  ASSUME FramingAssumption, FramingInv, Pause
  PROVE  FramingInv'
<1> DEFINE k == Len(stream.got) + 1
<1>1. TypeOK /\ Len(stream.got) <= Len(stream.sent)
  BY DEF FramingInv, DecodedInOrder
<1>2. /\ stream'.sent = stream.sent /\ stream'.used = stream.used
      /\ stream'.got = stream.got /\ stream'.arrived = stream.arrived
      /\ stream' = [stream EXCEPT !.looping = FALSE]
  BY <1>1 DEF Pause, TypeOK
<1>3. CASE Buffered < Header
  <2>1. BufferBounded'
    BY <1>1, <1>2, <1>3, Fields
    DEF BufferBounded, Buffered, Header, FramingAssumption
  <2>2. NothingLeftDecodable'
    <3>1. SUFFICES ASSUME Len(stream.got) < Len(stream.sent)
                   PROVE  stream.arrived < stream.sent[k].at + Header
                                             + stream.sent[k].len
      BY <1>2 DEF NothingLeftDecodable
    <3>2. k \in DOMAIN stream.sent
      BY <1>1, <3>1, Fields
    <3>3. stream.used = stream.sent[k].at
      BY <3>2 DEF FramingInv, Aligned, Start
    <3>4. /\ stream.arrived \in Nat /\ stream.used \in Nat
          /\ stream.sent[k].len \in Nat
      BY <1>1, <3>2, Fields
    <3>5. \A a, u, l \in Nat : a - u < Header => a < u + Header + l
      BY DEF Header
    <3>6. QED
      BY <1>3, <3>3, <3>4, <3>5, Zenon DEF Buffered
  <2>3. QED
    BY <1>1, <1>2, <2>1, <2>2, LoopEnds, Fields
<1>4. CASE Buffered >= Header
  <2>1. PICK h \in HeadersAt(stream.used) :
          ~TooLong(h) /\ Buffered < Header + h.len
    BY <1>1, <1>4, Fields DEF Pause, Buffered, Header
  <2>2. /\ k \in DOMAIN stream.sent
        /\ stream.used = stream.sent[k].at
        /\ h = [type |-> stream.sent[k].type, len |-> stream.sent[k].len]
    BY <1>1, <1>4, <2>1, NextHeader DEF FramingInv
  <2>3. /\ h.len = stream.sent[k].len /\ h.len \in Nat /\ Limit \in Nat
        /\ stream.arrived \in Nat /\ stream.used \in Nat
    BY <1>1, <2>2, Fields DEF FramingAssumption
  <2>4. stream.arrived - stream.used < Header + h.len /\ h.len <= Limit
    BY <2>1, <2>3 DEF Buffered, TooLong
  <2>5. BufferBounded'
    <3>1. stream.arrived - stream.used < Header + Limit
      <4>1. \A a, u, x, y \in Nat : a - u < Header + x /\ x <= y => a - u < Header + y
        BY DEF Header
      <4>2. QED
        BY <2>3, <2>4, <4>1
    <3>2. QED
      BY <1>2, <3>1 DEF BufferBounded, Buffered
  <2>6. NothingLeftDecodable'
    <3>1. \A a, u, l \in Nat : a - u < Header + l => a < u + Header + l
      BY DEF Header
    <3>2. stream.arrived < stream.used + Header + h.len
      BY <2>3, <2>4, <3>1, Zenon
    <3>3. QED
      BY <1>2, <2>2, <2>3, <3>2, Zenon DEF NothingLeftDecodable
  <2>7. QED
    BY <1>1, <1>2, <2>5, <2>6, LoopEnds, Fields
<1>5. QED
  BY <1>1, <1>3, <1>4, Fields DEF Buffered, Header

LEMMA HandleKeeps ==
  ASSUME FramingAssumption, FramingInv, NEW h \in Frame, NEW on \in BOOLEAN,
         Handle(h, on)
  PROVE  FramingInv'
<1> DEFINE n == Len(stream.got)
           k == n + 1
<1>1. /\ TypeOK /\ n <= Len(stream.sent) /\ n \in Nat
      /\ DOMAIN stream.got = 1 .. n
  BY Fields DEF FramingInv, DecodedInOrder
<1>2. h.len \in Nat /\ h.len \in Length
  BY DEF Frame, FramingAssumption
<1>3. Buffered >= Header + h.len /\ Buffered >= Header
  BY <1>1, <1>2, Fields DEF Handle, Buffered, Header
<1>4. /\ k \in DOMAIN stream.sent
      /\ stream.used = stream.sent[k].at
      /\ h = [type |-> stream.sent[k].type, len |-> stream.sent[k].len]
  BY <1>1, <1>3, NextHeader DEF FramingInv, Handle
<1>5. /\ stream'.sent = stream.sent /\ stream'.written = stream.written
      /\ stream'.arrived = stream.arrived
      /\ stream'.used = stream.used + Header + h.len
      /\ stream'.got = Append(stream.got, h)
      /\ stream'.looping = on /\ stream'.reading = on
  BY <1>1 DEF Handle, Take, TypeOK
<1>6. /\ stream'.got \in Seq(Frame) /\ Len(stream'.got) = k
      /\ DOMAIN stream'.got = 1 .. k /\ stream'.got[k] = h
      /\ \A i \in 1 .. n : stream'.got[i] = stream.got[i]
  BY <1>1, <1>5, Fields
<1>7. TypeOK'
  <2>1. stream.used + Header + h.len \in Nat
    BY <1>1, <1>2, Fields DEF Header
  <2>2. stream' = [stream EXCEPT !.used = stream.used + Header + h.len,
                                 !.got = stream'.got,
                                 !.looping = on, !.reading = on]
    BY <1>5 DEF Handle, Take
  <2>3. QED
    BY <1>1, <1>6, <2>1, <2>2 DEF TypeOK
<1>8. Contiguous'
  BY <1>5 DEF FramingInv, Contiguous, Start
<1>9. Positions'
  BY <1>1, <1>2, <1>3, <1>5, Fields
  DEF FramingInv, Positions, Buffered, Header
<1>10. DecodedInOrder'
  <2>1. Len(stream'.got) <= Len(stream'.sent)
    BY <1>1, <1>4, <1>5, <1>6, Fields
  <2>2. ASSUME NEW i \in 1 .. k
        PROVE  /\ stream'.got[i] = [type |-> stream'.sent[i].type,
                                    len |-> stream'.sent[i].len]
               /\ stream'.got[i].len <= Limit
    <3>1. CASE i = k
      <4>1. h.len <= Limit
        BY <1>2 DEF Handle, TooLong, FramingAssumption
      <4>2. QED
        BY <1>4, <1>5, <1>6, <3>1, <4>1
    <3>2. CASE i \in 1 .. n
      BY <1>1, <1>5, <1>6, <3>2 DEF FramingInv, DecodedInOrder
    <3>3. QED
      BY <1>1, <3>1, <3>2
  <2>3. QED
    BY <1>6, <2>1, <2>2 DEF DecodedInOrder
<1>11. Aligned'
  <2>1. Start(stream, k + 1) = stream.sent[k].at + Header + stream.sent[k].len
    BY <1>4 DEF FramingInv, Contiguous
  <2>2. stream'.used = Start(stream, k + 1)
    BY <1>4, <1>5, <2>1
  <2>3. QED
    BY <1>5, <1>6, <2>2 DEF Aligned, Start
<1>12. NothingLeftDecodable' /\ BufferBounded'
  BY <1>5 DEF NothingLeftDecodable, BufferBounded
<1>13. QED
  BY <1>7, <1>8, <1>9, <1>10, <1>11, <1>12 DEF FramingInv

LEMMA InitInv ==
  ASSUME FramingAssumption, Init
  PROVE  FramingInv
<1>1. stream = Empty
  BY DEF Init
<1>2. TypeOK
  BY <1>1 DEF TypeOK, Empty
<1>3. /\ DOMAIN stream.sent = {} /\ DOMAIN stream.got = {}
      /\ Len(stream.sent) = 0 /\ Len(stream.got) = 0
      /\ stream.written = 0 /\ stream.used = 0 /\ stream.arrived = 0
  BY <1>1 DEF Empty
<1>4. Contiguous /\ Aligned
  BY <1>3 DEF Contiguous, Aligned, Start
<1>5. Positions /\ DecodedInOrder /\ NothingLeftDecodable
  BY <1>3 DEF Positions, DecodedInOrder, NothingLeftDecodable
<1>6. BufferBounded
  BY <1>3 DEF BufferBounded, Buffered, Header, FramingAssumption
<1>7. QED
  BY <1>2, <1>4, <1>5, <1>6 DEF FramingInv

LEMMA NextInv ==
  ASSUME FramingAssumption, FramingInv, [Next]_stream
  PROVE  FramingInv'
<1>1. CASE \E t \in Type, l \in Length : Write(t, l)
  BY <1>1, WriteKeeps
<1>2. CASE Data
  BY <1>2, DataKeeps
<1>3. CASE Pause
  BY <1>3, PauseKeeps
<1>4. CASE \E h \in Frame : Refuse(h)
  <2>1. stream' = [stream EXCEPT !.looping = FALSE, !.reading = FALSE]
    BY <1>4 DEF Refuse
  <2>2. QED
    BY <2>1, LoopEnds
<1>5. CASE \E h \in Frame, on \in BOOLEAN : Handle(h, on)
  BY <1>5, HandleKeeps
<1>6. CASE UNCHANGED stream
  BY <1>6 DEF FramingInv, TypeOK, Contiguous, Start, Positions, DecodedInOrder,
       Aligned, NothingLeftDecodable, BufferBounded, Buffered
<1>7. QED
  BY <1>1, <1>2, <1>3, <1>4, <1>5, <1>6 DEF Next

\* Whatever the frames, the limit and the way the network cuts the stream, the
\* reader handles the frames that were written, in order, leaves none behind
\* and keeps its buffer bounded (the data handlers of server.js and index.js).
THEOREM FramingCorrect ==
  ASSUME FramingAssumption
  PROVE  Spec => []FramingInv
<1>1. Init => FramingInv
  BY InitInv
<1>2. FramingInv /\ [Next]_stream => FramingInv'
  BY NextInv
<1>3. QED
  BY <1>1, <1>2, PTL DEF Spec
=============================================================================
