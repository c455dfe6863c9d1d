--------------------------- MODULE WebSocketReader ---------------------------
(***************************************************************************)
(* The frame parser of the WebSockets: WebSocketReader of                  *)
(* aiohttp/_websocket/reader_py.py, fed with the bytes of a sequence of    *)
(* frames that the transport splits as it likes.                           *)
(*                                                                         *)
(* Abstractions.  A byte is a value that says what it stands for: the two  *)
(* bytes of a header, the two of an extended length (one such length       *)
(* stands for both), the two of a mask (for four), a byte of a payload.    *)
(* A masked byte is tagged with the mask byte it was combined with.  A     *)
(* deflated message is two bytes.                                          *)
(***************************************************************************)
EXTENDS Integers, Sequences, SequencesExt

CONSTANTS
  Streams,   \* the sequences of frames that are sent
  MaxMsgSize,\* max_msg_size, 0 for none
  Compress   \* whether permessage-deflate was agreed on

VARIABLES
  frames,  \* the frames that are sent
  sent,    \* how many of their bytes have been fed
  r        \* the reader

Short == 1  \* longest payload whose length is in the header (125)
Data == {"text", "binary", "continuation"}
Control == {"ping", "pong", "close"}
-----------------------------------------------------------------------------
(* What is sent.                                                           *)

Mask == <<"k1", "k2">>
Masked(p) == [i \in DOMAIN p |-> [key |-> Mask[1 + ((i - 1) % 2)], byte |-> p[i]]]
Unmasked(mask, p) ==
  [i \in DOMAIN p |-> IF p[i].key = mask[1 + ((i - 1) % 2)] THEN p[i].byte ELSE "garbled"]

\* The bytes of a frame.
Wire(f) ==
  LET n == Len(f.payload)
  IN  <<[fin |-> f.fin, rsv1 |-> f.rsv1, opcode |-> f.opcode],
        [mask |-> f.mask, length |-> IF n <= Short THEN n ELSE -1]>>
      \o (IF n <= Short THEN <<>> ELSE <<n \div 2, n % 2>>)
      \o (IF f.mask THEN Mask \o Masked(f.payload) ELSE f.payload)

Bytes(fs) == FoldLeft(LAMBDA b, f : b \o Wire(f), <<>>, fs)

\* Two messages can be deflated, each to a byte of its own and "end".
Original == [z |-> <<"a", "b", "c">>, zz |-> <<"a", "b", "c", "d", "e">>]

\* What decompress_sync() makes of it, at most one byte more than limit.
Inflated(p, limit) ==
  IF Len(p) # 2 \/ p[1] \notin DOMAIN Original \/ p[2] # "end" THEN <<"garbled">>
  ELSE LET m == Original[p[1]] IN IF limit \in 1..(Len(m) - 1) THEN SubSeq(m, 1, limit + 1) ELSE m
-----------------------------------------------------------------------------
(* _handle_frame()                                                         *)

Fail(s, code) == [s EXCEPT !.exc = code]
Put(s, msg) == [s EXCEPT !.queue = Append(@, msg)]
Invalid(p) == "invalid" \in {p[i] : i \in DOMAIN p}  \* not UTF-8

\* A text or binary message is complete.
Assembled(s, opcode, payload, compressed) ==
  LET merged == IF compressed THEN Inflated(payload, MaxMsgSize) ELSE payload
  IN  IF compressed /\ MaxMsgSize > 0 /\ Len(merged) > MaxMsgSize THEN Fail(s, "too big")
      ELSE IF opcode = "text" /\ Invalid(merged) THEN Fail(s, "invalid text")
      ELSE Put(s, [type |-> opcode, data |-> merged])

HandleData(s, fin, opcode, payload, compressed) ==
  LET hasPartial == s.partial # <<>>
      whole == s.partial \o payload
  IN  IF opcode = "continuation" /\ s.opcode = "none" THEN Fail(s, "protocol")
      ELSE IF ~fin
      THEN [s EXCEPT !.opcode = IF opcode = "continuation" THEN @ ELSE opcode, !.partial = whole]
      ELSE IF opcode = "continuation"
      THEN Assembled([s EXCEPT !.opcode = "none", !.partial = <<>>], s.opcode, whole, compressed)
      ELSE IF hasPartial THEN Fail(s, "protocol")
      ELSE Assembled(s, opcode, payload, compressed)

HandleClose(s, payload) ==
  CASE Len(payload) = 1 -> Fail(s, "protocol")
    [] payload = <<>> -> Put(s, [type |-> "close", data |-> <<>>])
    [] OTHER -> IF payload[1] = "bad code" THEN Fail(s, "protocol")
                ELSE IF Invalid(SubSeq(payload, 3, Len(payload))) THEN Fail(s, "invalid text")
                ELSE Put(s, [type |-> "close", data |-> payload])

HandleFrame(s, fin, opcode, payload, compressed) ==
  CASE opcode \in Data -> HandleData(s, fin, opcode, payload, compressed)
    [] opcode = "close" -> HandleClose(s, payload)
    [] OTHER -> Put(s, [type |-> opcode, data |-> payload])
-----------------------------------------------------------------------------
(* _feed_data(): one turn of its loop is one step of the parser, on the    *)
(* data that is left.  A step that has too little keeps it as _tail.       *)

Reader0 ==
  [state |-> "header", tail |-> <<>>, queue |-> <<>>, exc |-> "none", opcode |-> "none",
   partial |-> <<>>, fragments |-> <<>>, toRead |-> 0, frameFin |-> FALSE, frameOpcode |-> "none",
   compressed |-> "unset", hasMask |-> FALSE, mask |-> <<>>, lenFlag |-> 0]

More(s, data) == [s |-> s, data |-> data, wait |-> FALSE]
Wait(s, data) == [s |-> [s EXCEPT !.tail = data], data |-> <<>>, wait |-> TRUE]
Rest(data, n) == SubSeq(data, n + 1, Len(data))

\* rsv1 marks the first frame of a compressed message.
Compression(s, head) ==
  IF s.frameFin \/ s.compressed = "unset" THEN (IF head.rsv1 THEN "true" ELSE "false") ELSE s.compressed

ReadHeader(s, data) ==
  IF Len(data) < 2 THEN Wait(s, data)
  ELSE LET head == data[1]
           size == data[2]
           control == head.opcode \in Control
       IN  IF \/ head.rsv1 /\ ~Compress
              \/ head.opcode \notin Data \cup Control
              \/ control /\ ~head.fin
              \/ control /\ size.length = -1
              \/ head.rsv1 /\ ~s.frameFin /\ s.compressed # "unset"
           THEN More(Fail(s, "protocol"), <<>>)
           ELSE More([s EXCEPT !.compressed = Compression(s, head), !.frameFin = head.fin,
                               !.frameOpcode = head.opcode, !.hasMask = size.mask,
                               !.lenFlag = size.length, !.state = "length"], Rest(data, 2))

TooBig_Alone(s, n) ==  \* mutant: fragments are measured one by one
  MaxMsgSize > 0 /\ s.frameOpcode \in Data /\ n >= MaxMsgSize
TooBig(s, n) == MaxMsgSize > 0 /\ s.frameOpcode \in Data /\ n + Len(s.partial) >= MaxMsgSize

ReadLength(s, data) ==
  LET next(n, rest) ==
        IF TooBig(s, n) THEN More(Fail(s, "too big"), <<>>)
        ELSE More([s EXCEPT !.toRead = n, !.state = IF s.hasMask THEN "mask" ELSE "payload"], rest)
  IN  IF s.lenFlag # -1 THEN next(s.lenFlag, data)
      ELSE IF Len(data) < 2 THEN Wait(s, data)
      ELSE next(2 * data[1] + data[2], Rest(data, 2))

ReadMask(s, data) ==
  IF Len(data) < 2 THEN Wait(s, data)
  ELSE More([s EXCEPT !.mask = SubSeq(data, 1, 2), !.state = "payload"], Rest(data, 2))

ReadPayload_MasksParts(s, data) ==  \* mutant: each fragment is unmasked on its own
  LET n == IF s.toRead >= Len(data) THEN Len(data) ELSE s.toRead
      part == SubSeq(data, 1, n)
      got == s.fragments \o (IF s.hasMask THEN Unmasked(s.mask, part) ELSE part)
      done == [s EXCEPT !.toRead = 0, !.fragments = <<>>, !.state = "header"]
  IN  IF n < s.toRead THEN Wait([s EXCEPT !.toRead = @ - n, !.fragments = got], <<>>)
      ELSE More(HandleFrame(done, s.frameFin, s.frameOpcode, got, s.compressed = "true"), Rest(data, n))

ReadPayload(s, data) ==
  LET n == IF s.toRead >= Len(data) THEN Len(data) ELSE s.toRead
      got == s.fragments \o SubSeq(data, 1, n)
      payload == IF s.hasMask THEN Unmasked(s.mask, got) ELSE got
      done == [s EXCEPT !.toRead = 0, !.fragments = <<>>, !.state = "header"]
  IN  IF n < s.toRead THEN Wait([s EXCEPT !.toRead = @ - n, !.fragments = got], <<>>)
      ELSE More(HandleFrame(done, s.frameFin, s.frameOpcode, payload, s.compressed = "true"),
                Rest(data, n))

Turn(s, data) ==
  CASE s.state = "header" -> ReadHeader(s, data)
    [] s.state = "length" -> ReadLength(s, data)
    [] s.state = "mask" -> ReadMask(s, data)
    [] s.state = "payload" -> ReadPayload(s, data)

RECURSIVE Turns(_, _)
Turns(s, data) ==
  LET t == Turn(s, data)
  IN  IF t.wait \/ t.s.exc # "none" THEN t.s ELSE Turns(t.s, t.data)

\* feed_data(): nothing is read after a failure.
FeedData(s, data) ==
  IF s.exc # "none" THEN s ELSE Turns([s EXCEPT !.tail = <<>>], s.tail \o data)
-----------------------------------------------------------------------------
Init ==
  /\ frames \in Streams
  /\ sent = 0
  /\ r = Reader0

\* The transport delivers the next bytes.
Deliver ==
  LET wire == Bytes(frames)
  IN  \E n \in 1..(Len(wire) - sent) :
        /\ r' = FeedData(r, SubSeq(wire, sent + 1, sent + n))
        /\ sent' = sent + n
        /\ UNCHANGED frames

Next == Deliver
Spec == Init /\ [][Next]_<<frames, sent, r>>
-----------------------------------------------------------------------------
(* What the frames say (RFC 6455): a message is a frame that is not a      *)
(* continuation and the continuations up to the one with fin; control      *)
(* frames may come in between.                                             *)

\* The indexes of the data frames of the message that starts at i, as far as
\* they are there.
Ends(fs, i) == {j \in i..Len(fs) : fs[j].opcode \in Data /\ fs[j].fin}
Parts(fs, i) ==
  LET end == IF Ends(fs, i) = {} THEN Len(fs) ELSE Min(Ends(fs, i))
  IN  SelectSeq([k \in 1..end |-> k], LAMBDA k : k >= i /\ fs[k].opcode \in Data)

Joined(fs, i) == FoldLeft(LAMBDA p, k : p \o fs[k].payload, <<>>, Parts(fs, i))
Message(fs, i) ==
  [type |-> fs[i].opcode,
   data |-> IF fs[i].opcode \in Data /\ fs[i].rsv1 THEN Inflated(Joined(fs, i), 0)
            ELSE IF fs[i].opcode \in Data THEN Joined(fs, i) ELSE fs[i].payload]

\* The messages of fs in the order in which they are complete.
Completes(fs, i) == IF fs[i].opcode \in Data THEN Last(Parts(fs, i)) ELSE i
Starts(fs) ==
  {i \in DOMAIN fs : \/ fs[i].opcode \in Control
                     \/ fs[i].opcode \in Data \ {"continuation"} /\ Ends(fs, i) # {}}
Messages(fs) ==
  LET order == SetToSortSeq(Starts(fs), LAMBDA i, j : Completes(fs, i) < Completes(fs, j))
  IN  [k \in DOMAIN order |-> Message(fs, order[k])]

\* The frame i belongs to the message that starts at Origin.
Origin(fs, i) ==
  CHOOSE j \in 1..i : /\ fs[j].opcode \in Data \ {"continuation"}
                      /\ \A k \in (j + 1)..i : fs[k].opcode \in Control \cup {"continuation"}
Unfinished(fs, i) ==  \* a message is open before frame i
  \E j \in 1..(i - 1) : /\ fs[j].opcode \in Data /\ ~fs[j].fin
                        /\ \A k \in (j + 1)..(i - 1) : fs[k].opcode \in Control
Valid(fs) ==
  /\ \A i \in DOMAIN fs :
       /\ fs[i].opcode \in Control => fs[i].fin /\ ~fs[i].rsv1 /\ Len(fs[i].payload) <= Short
       /\ fs[i].opcode = "close" => fs[i].payload = <<>>
       /\ fs[i].opcode = "continuation" <=> fs[i].opcode \in Data /\ Unfinished(fs, i)
       /\ fs[i].opcode = "continuation" => ~fs[i].rsv1
       /\ fs[i].rsv1 => Compress
       /\ fs[i].opcode \in Data \ {"continuation"} /\ MaxMsgSize > 0 => Len(Joined(fs, i)) < MaxMsgSize
  /\ \A i \in Starts(fs) :
       LET data == Message(fs, i).data
       IN  /\ ~Invalid(data) /\ data # <<"garbled">>
           /\ fs[i].rsv1 /\ MaxMsgSize > 0 => Len(data) <= MaxMsgSize

\* A control frame between the fragments of a compressed message.
InterruptedCompression(fs) ==
  \E i \in DOMAIN fs : fs[i].opcode \in Control /\ Unfinished(fs, i) /\ fs[Origin(fs, i)].rsv1

\* The frames that have been delivered as a whole.
Complete ==
  LET lengths(n) == Len(Bytes(SubSeq(frames, 1, n)))
      n == CHOOSE n \in 0..Len(frames) : lengths(n) <= sent /\ (n < Len(frames) => lengths(n + 1) > sent)
  IN  SubSeq(frames, 1, n)
-----------------------------------------------------------------------------
(* Properties.                                                             *)

\* However the bytes are split, a valid stream gives exactly the messages of
\* its complete frames, joined, unmasked and inflated, and no error.
MessagesIntact ==
  Valid(frames) /\ ~InterruptedCompression(frames) => r.exc = "none" /\ r.queue = Messages(Complete)

\* No message is longer than max_msg_size, whatever is sent, and the bytes
\* that are kept of an unfinished one are fewer than that.
SizeLimited ==
  MaxMsgSize > 0 => /\ \A i \in DOMAIN r.queue : Len(r.queue[i].data) <= MaxMsgSize
                    /\ Len(r.partial) < MaxMsgSize

\* "Decompress process must to be done after all packets received"
\* (reader_py.py): also when a ping comes in between.  The code breaks it.
FragmentsInflated == Valid(frames) => r.exc = "none" /\ r.queue = Messages(Complete)
=============================================================================
