---------------------------- MODULE StreamWriter ----------------------------
(***************************************************************************)
(* StreamWriter (http_writer.py): the bytes of one HTTP message, as the    *)
(* calls of its owner put them on the wire.  A writer is a record; each    *)
(* operator is a method and yields the writer after the call.              *)
(*                                                                         *)
(* The wire is a sequence of pieces: a "head"; "data" and "chunk" pieces   *)
(* of n bytes, which carry the first "of" bytes of content that were not   *)
(* carried yet; and the "last" chunk.  A compressed piece has n = 1.       *)
(* drain() is the flow control of WebSocketWriter and not repeated here.   *)
(***************************************************************************)
EXTENDS Integers, Sequences, FiniteSets, SequencesExt

NONE == -1
NoHead == [is |-> "none"]

NewWriter == [chunked |-> FALSE, compress |-> FALSE, held |-> 0, length |-> NONE,
              buf |-> NoHead, sent |-> FALSE, eof |-> FALSE, wire |-> <<>>]

Least(a, b) == IF a <= b THEN a ELSE b

Buffered(w) == w.buf # NoHead /\ ~w.sent

(* One transport.write(): the buffered head goes first, in the same write. *)
Emit(w, pieces) ==
  IF Buffered(w)
  THEN [w EXCEPT !.wire = @ \o <<w.buf>> \o pieces, !.buf = NoHead, !.sent = TRUE]
  ELSE [w EXCEPT !.wire = @ \o pieces]

Framing(w, n, content) ==
  IF n = 0 THEN <<>>
  ELSE <<[is |-> IF w.chunked THEN "chunk" ELSE "data", n |-> n, of |-> content]>>
LastChunk == <<[is |-> "last"]>>
Terminator(w) == IF w.chunked THEN LastChunk ELSE <<>>

EnableChunking(w) == [w EXCEPT !.chunked = TRUE]
EnableCompression(w) == [w EXCEPT !.compress = TRUE]
SetLength(w, n) == [w EXCEPT !.length = n]
WriteHeaders(w, head) == [w EXCEPT !.buf = head, !.sent = FALSE]
SendHeaders(w) == IF Buffered(w) THEN Emit(w, <<>>) ELSE w

(* write() of n bytes; "out" says whether the compressor, if there is one, *)
(* yields a block now or keeps what it was given.                          *)
WriteCompressed(w, n, out) ==
  IF out THEN Emit([w EXCEPT !.held = 0], Framing(w, 1, w.held + n))
         ELSE [w EXCEPT !.held = @ + n]
Clamped(w, n) == IF w.length = NONE THEN n ELSE Least(w.length, n)
WritePlain_Unclamped(w, n) == Emit(w, Framing(w, n, n))
WritePlain(w, n) ==
  LET k == Clamped(w, n) IN
  IF k = 0 /\ n > 0 THEN w
  ELSE Emit([w EXCEPT !.length = IF @ = NONE THEN NONE ELSE @ - k], Framing(w, k, k))
Write(w, n, out) == IF w.compress THEN WriteCompressed(w, n, out) ELSE WritePlain(w, n)

(* write_eof() with n more bytes.  The compressor's flush is never empty.  *)
(* What is given here is not held against the length.                      *)
LastPieces_NoTerminator(w, n) ==
  IF w.compress THEN Framing(w, 1, w.held + n) ELSE Framing(w, n, n)
LastPieces(w, n) ==
  IF w.compress THEN Framing(w, 1, w.held + n) \o Terminator(w)
                ELSE Framing(w, n, n) \o Terminator(w)
EofWritten_KeepsHeld(w, n) == IF w.eof THEN w ELSE Emit(w, LastPieces(w, n))
EofWritten(w, n) == IF w.eof THEN w ELSE Emit([w EXCEPT !.held = 0], LastPieces(w, n))
WriteEof(w, n) == [EofWritten(w, n) EXCEPT !.eof = TRUE]

(* set_eof(): the message has no body, or its body is written already.     *)
SetEof(w) ==
  IF w.eof THEN w
  ELSE [(IF Buffered(w) \/ w.sent THEN Emit(w, Terminator(w)) ELSE w) EXCEPT !.eof = TRUE]

-----------------------------------------------------------------------------
(* How a peer reads the wire, whatever wrote it.                           *)

BodyOf(wire_) == Tail(wire_)
SizeOf(pieces) == FoldSeq(LAMBDA p, n : (IF p.is \in {"data", "chunk"} THEN p.n ELSE 0) + n, 0, pieces)
ContentOf(pieces) == FoldSeq(LAMBDA p, n : (IF p.is \in {"data", "chunk"} THEN p.of ELSE 0) + n, 0, pieces)
All(pieces, kinds) == \A i \in 1..Len(pieces) : pieces[i].is \in kinds

(* Nothing on the wire contradicts the head it follows.                    *)
Begun(wire_) ==
  \/ wire_ = <<>>
  \/ /\ Head(wire_).is = "head"
     /\ LET h == Head(wire_)
            b == BodyOf(wire_) IN
        CASE h.empty -> b = <<>>
          [] ~h.empty /\ h.te -> /\ h.cl = NONE
                                 /\ All(b, {"chunk", "last"})
                                 /\ \A i \in 1..Len(b) : b[i].is = "last" => i = Len(b)
          [] ~h.empty /\ ~h.te /\ h.cl # NONE -> All(b, {"data"}) /\ SizeOf(b) <= h.cl
          [] OTHER -> All(b, {"data"})

(* The message is whole.                                                   *)
Whole(wire_) ==
  /\ wire_ # <<>> /\ Begun(wire_)
  /\ LET h == Head(wire_)
         b == BodyOf(wire_) IN
     CASE h.empty -> TRUE
       [] ~h.empty /\ h.te -> b # <<>> /\ b[Len(b)].is = "last"
       [] ~h.empty /\ ~h.te /\ h.cl # NONE -> SizeOf(b) = h.cl
       [] OTHER -> TRUE
=============================================================================
