------------------------------ MODULE Framing ------------------------------
(***************************************************************************)
(* One direction of a TCP connection between two nodes: frames written     *)
(* one after the other (encodeFrame), bytes that arrive in pieces of any   *)
(* size, and the reader's data handler, a loop that takes the complete     *)
(* frames out of its buffer.                                               *)
(*                                                                         *)
(* Bytes are counted and not looked at: the stream knows which frame       *)
(* starts at which byte, and a reader that looks for a header anywhere     *)
(* else finds any header at all.  One iteration of the loop is one step;   *)
(* the reader does nothing else while it is in the loop.                   *)
(***************************************************************************)
EXTENDS Naturals, Sequences

CONSTANTS
  Type,    \* the types of frames
  Length,  \* the lengths of payloads
  Limit    \* the longest payload the reader takes

\* What the theorems assume; true of numbers of bytes.
FramingAssumption == Limit \in Nat /\ Length \subseteq Nat

VARIABLE stream
  \* sent     the frames written, each with the byte it starts at
  \* written  how many bytes were written
  \* arrived  how many bytes the reader was given
  \* used     how many of them it took out of its buffer
  \* got      the frames it handled
  \* looping  it is in its data handler
  \* reading  it has not given up reading

Header == 5  \* one byte of type, four of length

Frame == [type : Type, len : Length]
Sent  == [type : Type, len : Length, at : Nat]

TypeOK ==
  stream \in [sent : Seq(Sent), written : Nat, arrived : Nat, used : Nat,
              got : Seq(Frame), looping : BOOLEAN, reading : BOOLEAN]

Empty == [sent |-> << >>, written |-> 0, arrived |-> 0, used |-> 0,
          got |-> << >>, looping |-> FALSE, reading |-> TRUE]

Init == stream = Empty

-----------------------------------------------------------------------------
\* encodeFrame and socket.write.
Write(t, l) ==
  stream' = [stream EXCEPT
               !.sent = Append(@, [type |-> t, len |-> l,
                                   at |-> stream.written]),
               !.written = @ + Header + l]

\* The data event: any part of what is on its way joins the buffer.
Data ==
  /\ ~stream.looping
  /\ stream.reading
  /\ \E n \in stream.arrived + 1 .. stream.written :
       stream' = [stream EXCEPT !.arrived = n, !.looping = TRUE]

Buffered == stream.arrived - stream.used

\* What can be read as a header at byte x.
HeadersAt(x) ==
  LET here == {i \in DOMAIN stream.sent : stream.sent[i].at = x}
  IN IF here = {} THEN Frame
     ELSE {[type |-> stream.sent[i].type, len |-> stream.sent[i].len] :
             i \in here}

\* Mutant of TooLong: one length too many.
TooLongByOne(h) == h.len > Limit + 1

TooLong(h) == h.len > Limit

\* The loop ends for want of a whole frame.
Pause ==
  /\ stream.looping
  /\ \/ Buffered < Header
     \/ \E h \in HeadersAt(stream.used) :
          ~TooLong(h) /\ Buffered < Header + h.len
  /\ stream' = [stream EXCEPT !.looping = FALSE]

\* A header announces too long a payload: the reader gives up, without
\* waiting for the payload.
Refuse(h) ==
  /\ stream.looping
  /\ Buffered >= Header
  /\ h \in HeadersAt(stream.used)
  /\ TooLong(h)
  /\ stream' = [stream EXCEPT !.looping = FALSE, !.reading = FALSE]

\* Mutant of Take: one frame per data event.
TakeOne(h, on) ==
  [stream EXCEPT !.used = @ + Header + h.len, !.got = Append(@, h),
                 !.looping = FALSE, !.reading = on]

\* A frame leaves the buffer; the reader looks for the next one, or is done.
Take(h, on) ==
  [stream EXCEPT !.used = @ + Header + h.len, !.got = Append(@, h),
                 !.looping = on, !.reading = on]

\* The buffer holds a whole frame.
Handle(h, on) ==
  /\ stream.looping
  /\ h \in HeadersAt(stream.used)
  /\ ~TooLong(h)
  /\ Buffered >= Header + h.len
  /\ stream' = Take(h, on)

Next ==
  \/ \E t \in Type, l \in Length : Write(t, l)
  \/ Data
  \/ Pause
  \/ \E h \in Frame : Refuse(h)
  \/ \E h \in Frame, on \in BOOLEAN : Handle(h, on)

Spec == Init /\ [][Next]_stream

-----------------------------------------------------------------------------
(***************************************************************************)
(* What the reader makes of the stream.                                    *)
(***************************************************************************)

\* The frames handled are the first ones written, whole, in their order, and
\* none of them longer than the limit, however the bytes were cut.
DecodedInOrder ==
  /\ Len(stream.got) <= Len(stream.sent)
  /\ \A i \in DOMAIN stream.got :
       /\ stream.got[i] = [type |-> stream.sent[i].type,
                           len |-> stream.sent[i].len]
       /\ stream.got[i].len <= Limit

\* Between two data events no whole frame stays in the buffer: the last frame
\* of a conversation is handled although no byte follows it.
NothingLeftDecodable ==
  stream.reading /\ ~stream.looping /\ Len(stream.got) < Len(stream.sent)
    => LET f == stream.sent[Len(stream.got) + 1]
       IN stream.arrived < f.at + Header + f.len

\* Between two data events the buffer holds less than one frame of the
\* longest kind: the reader's memory is bounded, whatever is announced.
BufferBounded ==
  stream.reading /\ ~stream.looping => Buffered < Header + Limit

(***************************************************************************)
(* The inductive invariant behind these properties.                        *)
(***************************************************************************)

\* The byte of stream s at which the k-th frame starts, or will start.
Start(s, k) == IF k \in DOMAIN s.sent THEN s.sent[k].at ELSE s.written

\* Frames follow each other without a gap.
Contiguous ==
  /\ Start(stream, 1) = 0
  /\ \A k \in DOMAIN stream.sent :
       Start(stream, k + 1) =
         stream.sent[k].at + Header + stream.sent[k].len
  /\ \A k \in DOMAIN stream.sent :
       /\ stream.sent[k].at < stream.written
       /\ \A j \in 1 .. k - 1 : stream.sent[j].at < stream.sent[k].at

\* The reader looks for the next header where it is.
Aligned == stream.used = Start(stream, Len(stream.got) + 1)

Positions ==
  stream.used <= stream.arrived /\ stream.arrived <= stream.written

FramingInv ==
  /\ TypeOK
  /\ Contiguous
  /\ Positions
  /\ DecodedInOrder
  /\ Aligned
  /\ NothingLeftDecodable
  /\ BufferBounded
=============================================================================
