----------------------------- MODULE BodyStream -----------------------------
(***************************************************************************)
(* Receiving a response body: the payload half of the HTTP parser          *)
(* (HttpPayloadParser of http_parser.py and its twin in _http_parser.pyx), *)
(* the decompressor in front of the stream (DeflateBuffer), StreamReader   *)
(* with its water marks (streams.py), the pausing of the transport         *)
(* (BaseProtocol, ResponseHandler) and the sock_read timer, with the       *)
(* application's read calls at one end and the peer at the other.          *)
(*                                                                         *)
(* The handlers call each other re-entrantly (a read resumes the parser,   *)
(* which feeds the stream, which pauses the parser), so protocol, parser   *)
(* and stream are one record and every handler is an operator from record  *)
(* to record; an action applies what one turn of the event loop runs.      *)
(*                                                                         *)
(* Abstractions: bytes are counted, not represented; the wire is a         *)
(* sequence of tokens ("size", "byte", "crlf", "last"), and a line cut in  *)
(* two by the network counts as not arrived.  A compressed byte inflates   *)
(* to Ratio bytes.  Malformed input is left out.                           *)
(***************************************************************************)
EXTENDS Integers, Sequences, FiniteSets, SequencesExt

CONSTANTS
  Modes,     \* [parser, kind, codec] records
  Bodies,    \* bodies, as the sequences of their HTTP chunk sizes
  Limit,     \* read_bufsize
  Ratio,     \* bytes a compressed byte inflates to
  ReadSizes, \* arguments of read() and readexactly()
  Ops        \* the read calls the application makes

ASSUME BodyAssumption ==
  /\ Modes \subseteq [parser : {"python", "extension"}, kind : {"chunked", "length", "eof"},
                      codec : {"identity", "zlib", "zstd"}]
  /\ Limit \in Nat \ {0} /\ Ratio \in Nat \ {0}
  /\ ReadSizes \subseteq Nat \ {0}
  /\ Ops \subseteq {"readany", "read", "readall", "readexactly", "readchunk"}
  /\ \A b \in Bodies : b \in Seq(Nat \ {0}) /\ b # <<>>

VARIABLES
  mode,    \* the member of Modes this response is of
  wire,    \* the tokens of its body
  sizes,   \* the member of Bodies it carries
  st,      \* protocol, parser and stream
  pc,      \* the application's task: "idle", "waiting" in a read call
  op,      \* the read call it waits in
  need,    \* bytes that call still asks for
  flag     \* what the last call told of chunk ends, if it was readchunk()

vars == <<mode, wire, sizes, st, pc, op, need, flag>>

Unlimited == 1000  \* sys.maxsize
HigherOf(a, b) == IF a > b THEN a ELSE b
LowerOf(a, b) == IF a < b THEN a ELSE b

\* StreamReader.__init__: limits on the number of HTTP chunks in the buffer.
HighChunks == HigherOf(4, Limit \div 16)
LowChunks_One == 1          \* mutant: no room for the current position
LowChunks == HighChunks \div 2

Compressed == mode.codec # "identity"
Inflated(n) == IF Compressed THEN Ratio * n ELSE n
ChunkTokens(n) == <<"size">> \o [i \in 1..n |-> "byte"] \o <<"crlf">>
Bytes(body) ==
  LET upTo[i \in 0..Len(body)] == IF i = 0 THEN 0 ELSE upTo[i - 1] + body[i]
  IN  upTo[Len(body)]
Chunks(body) ==
  LET upTo[i \in 0..Len(body)] == IF i = 0 THEN <<>> ELSE upTo[i - 1] \o ChunkTokens(body[i])
  IN  upTo[Len(body)]

Wire(kind, body) ==
  IF kind = "chunked" THEN Append(Chunks(body), "last") ELSE [i \in 1..Bytes(body) |-> "byte"]

Init ==
  /\ mode \in Modes /\ sizes \in Bodies
  /\ wire = Wire(mode.kind, sizes)
  /\ st = [conn |-> "open",        \* transport: "open", "closed" or "reset"
           tpaused |-> FALSE,      \* transport.pause_reading() is in effect
           rpaused |-> FALSE,      \* _reading_paused of the protocol
           timer |-> TRUE,         \* _read_timeout_handle
           ppaused |-> FALSE,      \* _paused of the parser
           pending |-> FALSE,      \* the parser stopped with input left
           eofPending |-> FALSE,   \* _eof_pending
           arrived |-> 0,          \* tokens given to data_received
           parsed |-> 0,           \* tokens the parser has consumed
           phase |-> IF mode.kind = "chunked" THEN "size" ELSE "data",
           held |-> 0,             \* output the decompressor still holds
           more |-> FALSE,         \* _more_data_available
           low |-> Limit,          \* _low_water; _high_water is twice that
           buf |-> <<>>,           \* _buffer, as the lengths of its blocks
           size |-> 0, cursor |-> 0, total |-> 0,
           splits |-> <<>>,        \* _http_chunk_splits
           eof |-> FALSE, exc |-> "none",
           fut |-> "none"]         \* _waiter
  /\ pc = "idle" /\ op = "none" /\ need = 0 /\ flag = "none"
----------------------------------------------------------------------------
(* StreamReader, the producer's side, and the pausing of the transport.    *)

Wake(s, state) == IF s.fut = "pending" THEN [s EXCEPT !.fut = state] ELSE s

\* ResponseHandler.pause_reading()
PauseReading(s) ==
  [s EXCEPT !.rpaused = TRUE, !.ppaused = TRUE, !.tpaused = TRUE, !.timer = FALSE]

\* StreamReader.feed_data() with n > 0 bytes
PauseIfHigh(s) == IF s.size > 2 * s.low THEN PauseReading(s) ELSE s
StreamFeed(s, n) ==
  PauseIfHigh([Wake(s, "set") EXCEPT !.buf = Append(@, n), !.size = @ + n, !.total = @ + n])

\* feed_eof(): wakes the reader, resumes the transport but not the parser,
\* which is done, and runs the callback that drops the timer.
StreamFeedEof(s) ==
  [Wake(s, "set") EXCEPT !.eof = TRUE, !.rpaused = FALSE, !.tpaused = FALSE,
                         !.timer = FALSE, !.pending = FALSE]

\* end_http_chunk_receiving()
EndChunk_AtCursor(s) ==             \* mutant: the reader's position, not the stream's
  IF s.total = s.cursor THEN s
  ELSE Wake([s EXCEPT !.splits = Append(@, s.cursor + 1)], "set")
PauseIfMany(s) == IF Len(s.splits) > HighChunks THEN PauseReading(s) ELSE s
EndChunk(s) ==
  IF s.total = (IF s.splits = <<>> THEN 0 ELSE Last(s.splits)) THEN s
  ELSE Wake(PauseIfMany([s EXCEPT !.splits = Append(@, s.total)]), "set")

\* DeflateBuffer.feed_data(), or the stream's when the body is not compressed.
\* zlib and brotli know that nothing is left only from an empty output.
Inflate(s, out) ==
  IF out = 0 THEN [s EXCEPT !.more = Compressed /\ s.held > 0]
  ELSE StreamFeed([s EXCEPT !.held = @ - out,
         !.more = Compressed /\ (s.held > out \/ mode.codec = "zlib")], out)
OutputBlock(s) ==
  IF ~Compressed \/ s.low >= Unlimited THEN s.held ELSE LowerOf(s.held, HigherOf(Limit, s.low))
InflateBlock(s) == Inflate(s, OutputBlock(s))
PayloadFeed(s, n) == InflateBlock([s EXCEPT !.held = @ + Inflated(n)])
----------------------------------------------------------------------------
(* The payload parser.                                                     *)

\* Body bytes that have arrived and come next on the wire.
Run(s) ==
  LET n == s.arrived - s.parsed
      stop == {k \in 1..n : wire[s.parsed + k] # "byte"}
  IN  IF stop = {} THEN n ELSE (CHOOSE k \in stop : \A j \in stop : k <= j) - 1

Consume(s, n) == [s EXCEPT !.parsed = @ + n]
AtToken(s, token) == s.parsed < s.arrived /\ wire[s.parsed + 1] = token
ChunkOpen(s) == wire[s.parsed + 1] = "byte"
LengthReached(s) == mode.kind = "length" /\ s.parsed = Len(wire)

\* A loop is a function of the number of its turns, enough for it to come to
\* rest: a turn after that changes nothing.

\* while self._more_data_available: stop at a pause, or inflate further.  All but
\* the last two turns inflate something.
Stop(s) == [s EXCEPT !.ppaused = FALSE, !.pending = TRUE]
DrainTurn(s) ==
  IF ~s.more \/ s.pending THEN s ELSE IF s.ppaused THEN Stop(s) ELSE PayloadFeed(s, 0)
Drain(s) ==
  LET after[n \in 0..s.held + 2] == IF n = 0 THEN s ELSE DrainTurn(after[n - 1])
  IN  after[s.held + 2]

\* HttpPayloadParser.feed_data(), Content-Length or until EOF
ParseBlock_NoDrain(s) ==            \* mutant: complete with output still held
  LET n == s.arrived - s.parsed
      fed == PayloadFeed(Consume(s, n), n)
  IN  IF LengthReached(fed) \/ fed.eofPending THEN StreamFeedEof(fed) ELSE Drain(fed)
CompleteBlock(s) ==
  IF ~s.pending /\ (LengthReached(s) \/ s.eofPending) THEN StreamFeedEof(s) ELSE s
ParseBlock(s) ==
  LET n == s.arrived - s.parsed
  IN  CompleteBlock(Drain(PayloadFeed(Consume(s, n), n)))

\* The chunk ends with the piece that was fed, or it is open.
ChunkOver(s) == mode.kind = "chunked" /\ ~ChunkOpen(s)

\* HttpPayloadParser.feed_data(), chunked: a pause is noticed before the next
\* piece of data, whether or not it is still in effect.
AfterPiece(s) ==
  IF s.pending THEN s
  ELSE IF ChunkOver(s) THEN [EndChunk(s) EXCEPT !.phase = "crlf"]
  ELSE [s EXCEPT !.ppaused = FALSE]
ChunkTurn(s) ==
  CASE s.phase = "size" /\ AtToken(s, "size") -> [Consume(s, 1) EXCEPT !.phase = "data"]
    [] s.phase = "size" /\ AtToken(s, "last") -> StreamFeedEof(Consume(s, 1))
    [] s.phase = "crlf" /\ AtToken(s, "crlf") -> [Consume(s, 1) EXCEPT !.phase = "size"]
    [] s.phase = "data" /\ s.ppaused -> Stop(s)
    [] s.phase = "data" /\ ~s.ppaused ->
         AfterPiece(Drain(PayloadFeed(Consume(s, Run(s)), Run(s))))
    [] OTHER -> s

\* cb_on_body() of the extension: a pause is noticed after each piece.
AfterFeed(s) == IF s.ppaused THEN Stop(s) ELSE s
OnBody(s, n) == AfterFeed(Drain(PayloadFeed(s, n)))

\* llhttp_execute() and its callbacks, on what has arrived.
AfterBody(s) ==
  IF s.pending THEN s
  ELSE IF LengthReached(s) THEN StreamFeedEof(s)
  ELSE IF ChunkOver(s) THEN [s EXCEPT !.phase = "crlf"] ELSE s
ExecuteTurn(s) ==
  CASE s.phase = "size" /\ AtToken(s, "size") -> [Consume(s, 1) EXCEPT !.phase = "data"]
    [] s.phase = "size" /\ AtToken(s, "last") -> StreamFeedEof(EndChunk(Consume(s, 1)))
    [] s.phase = "crlf" /\ AtToken(s, "crlf") ->
         [EndChunk(Consume(s, 1)) EXCEPT !.phase = "size"]
    [] s.phase = "data" ->
         AfterBody(IF Run(s) = 0 THEN s ELSE OnBody(Consume(s, Run(s)), Run(s)))
    [] OTHER -> s

\* The loop of either parser: every turn but the first consumes a token.
ParseTurn(s) ==
  IF s.pending \/ s.eof THEN s
  ELSE IF mode.parser = "extension" THEN ExecuteTurn(s) ELSE ChunkTurn(s)
Turns(s) == s.arrived - s.parsed + 1
Parse(s) ==
  LET after[n \in 0..Turns(s)] == IF n = 0 THEN s ELSE ParseTurn(after[n - 1])
  IN  after[Turns(s)]

ExtensionGo(s) ==
  IF s.pending THEN s ELSE IF s.eofPending THEN StreamFeedEof(s) ELSE Parse(s)
ExtensionFeed(s) == ExtensionGo(IF s.more THEN OnBody(s, 0) ELSE s)

\* HttpParser.feed_data().  With no new data the Python parser goes on only if
\* it stopped with input left.
ParserFeed(s, new) ==
  LET clear == [s EXCEPT !.pending = FALSE]
  IN  CASE s.eof -> s
        [] ~s.eof /\ mode.parser = "extension" -> ExtensionFeed(clear)
        [] ~s.eof /\ mode.parser = "python" /\ ~new /\ ~s.pending -> s
        [] OTHER -> IF mode.kind = "chunked" THEN Parse(clear) ELSE ParseBlock(clear)

\* ResponseHandler.resume_reading(): what the parser kept comes first, and may
\* pause again; the timer is restarted if reading was paused before.
Reenter(s) ==
  IF s.conn = "open" THEN ParserFeed([s EXCEPT !.rpaused = FALSE], FALSE)
  ELSE [s EXCEPT !.rpaused = FALSE]
ResumeTransport(s, paused) ==
  [s EXCEPT !.tpaused = @ /\ s.rpaused, !.timer = paused \/ @]

ResumeReading_Always(s) ==          \* mutant: the transport is resumed all the same
  [Reenter(s) EXCEPT !.rpaused = FALSE, !.tpaused = FALSE, !.timer = s.rpaused \/ @]
ResumeReading_NoTimer(s) ==         \* mutant: the timer that the pause dropped stays dropped
  ResumeTransport(Reenter(s), FALSE)
ResumeReading_NoParser(s) ==        \* mutant: what the parser kept waits for new data
  [s EXCEPT !.rpaused = FALSE, !.tpaused = FALSE, !.timer = s.rpaused \/ @]
ResumeReading(s) == ResumeTransport(Reenter(s), s.rpaused)
----------------------------------------------------------------------------
(* StreamReader, the consumer's side.                                      *)

\* set_read_chunk_size(n)
SetReadChunkSize(s, n) == [s EXCEPT !.low = HigherOf(@, n)]

\* _read_nowait_chunk(n); n = -1 takes the whole first block.
ReadNowaitChunk_KeepsSize(s, n) ==  \* mutant
  LET k == IF n = -1 THEN Head(s.buf) ELSE LowerOf(n, Head(s.buf))
  IN  ResumeReading([s EXCEPT !.buf = Tail(@), !.cursor = @ + k])
ResumeIfLow(s) ==
  IF s.size < s.low /\ Len(s.splits) < LowChunks THEN ResumeReading(s) ELSE s
Rest(buf, k) == IF k < Head(buf) THEN <<Head(buf) - k>> \o Tail(buf) ELSE Tail(buf)
\* The chunk ends that are not behind pos: while chunk_splits[0] < pos, popleft().
From(splits, pos) ==
  SubSeq(splits, 1 + Cardinality({i \in DOMAIN splits : \A j \in 1..i : splits[j] < pos}), Len(splits))
ReadNowaitChunk(s, n) ==
  LET k == IF n = -1 THEN Head(s.buf) ELSE LowerOf(n, Head(s.buf))
  IN  ResumeIfLow([s EXCEPT !.buf = Rest(@, k), !.size = @ - k, !.cursor = @ + k,
                            !.splits = From(@, s.cursor + k)])

\* _read_nowait(-1) takes the blocks that are there when it starts,
\* _read_nowait(n) goes on into blocks that arrive on the way.
ReadBlocks(s, count) ==
  LET after[n \in 0..count] == IF n = 0 THEN s ELSE ReadNowaitChunk(after[n - 1], -1)
  IN  after[count]

ReadTurn(s, end) ==
  IF s.cursor = end \/ s.buf = <<>> THEN s ELSE ReadNowaitChunk(s, end - s.cursor)
ReadUpTo(s, end) ==
  LET after[n \in 0..end - s.cursor] == IF n = 0 THEN s ELSE ReadTurn(after[n - 1], end)
  IN  after[end - s.cursor]
ReadBytes(s, n) == ReadUpTo(s, s.cursor + n)

\* How a read call goes on: the new record, the bytes still needed, and
\* "wait" or how it ends.  Every inner call begins by raising the exception
\* that was set since it was last asked for, a loop inside a call does not.
Outcome(s, n, how) == [st |-> s, need |-> n, how |-> how]
Wait(s, n) == Outcome(s, n, IF s.conn = "open" THEN "wait" ELSE "error")
Failed(s) == s.exc # "none"

ReadAny(s) ==
  IF s.buf # <<>> THEN Outcome(ReadBlocks(s, Len(s.buf)), 0, "data")
  ELSE IF s.eof THEN Outcome(s, 0, "eof") ELSE Wait(s, 0)

Read(s, n) ==
  IF s.buf # <<>> THEN Outcome(ReadBytes(s, n), 0, "data")
  ELSE IF s.eof THEN Outcome(s, 0, "eof") ELSE Wait(s, n)

\* Each turn but the last takes at least a byte of what is on its way.
AllTurn(s) == IF s.buf = <<>> THEN s ELSE ReadBlocks(s, Len(s.buf))
Drained(s) ==
  LET rest == Inflated(Len(wire)) - s.cursor
      after[n \in 0..rest] == IF n = 0 THEN s ELSE AllTurn(after[n - 1])
  IN  after[rest]
ReadAll(s) ==
  IF s.buf # <<>> /\ Failed(s) THEN Outcome(AllTurn(s), 0, "error")
  ELSE LET t == Drained(s) IN IF t.eof THEN Outcome(t, 0, "eof") ELSE Wait(t, 0)

\* readexactly() reads until it has n bytes or finds the buffer empty.
ReadExactly(s, n) ==
  LET t == IF s.buf = <<>> THEN s ELSE ReadBytes(SetReadChunkSize(s, n), n)
      left == n - (t.cursor - s.cursor)
  IN  IF left = 0 THEN Outcome(t, 0, "data")
      ELSE IF s.buf # <<>> /\ Failed(s) THEN Outcome(t, 0, "error")
      ELSE IF t.eof THEN Outcome(t, 0, "incomplete") ELSE Wait(t, left)

\* readchunk(): up to the next chunk end that is known, or one block.
ReadChunk(s) ==
  LET ends   == From(s.splits, s.cursor)
      popped == [s EXCEPT !.splits = IF ends = <<>> THEN ends ELSE Tail(ends)]
  IN  CASE Failed(s) -> Outcome(s, 0, "error")
        [] ~Failed(s) /\ ends # <<>> ->
             Outcome(ReadBytes(popped, Head(ends) - s.cursor), 0, "end of chunk")
        [] ~Failed(s) /\ ends = <<>> /\ s.buf # <<>> ->
             Outcome(ReadNowaitChunk(popped, -1), 0, "part of chunk")
        [] OTHER -> IF s.eof THEN Outcome(popped, 0, "eof") ELSE Wait(popped, 0)

Go(call, s, n) ==
  CASE call = "readany" -> ReadAny(s)
    [] call = "read" -> Read(s, n)
    [] call = "readall" -> ReadAll(s)
    [] call = "readexactly" -> ReadExactly(s, n)
    [] call = "readchunk" -> ReadChunk(s)
----------------------------------------------------------------------------
(* Actions.                                                                *)

EndCall(s) ==
  /\ st' = [s EXCEPT !.fut = "none"]
  /\ pc' = "idle" /\ op' = "none" /\ need' = 0

\* The call goes on from record s until it ends or waits for data.
Proceed(call, s, n) ==
  \E out \in {Go(call, s, n)} :
    /\ flag' = IF call = "readchunk" THEN out.how ELSE "none"
    /\ IF out.how = "wait"
       THEN /\ st' = [out.st EXCEPT !.fut = "pending"]
            /\ pc' = "waiting" /\ op' = call /\ need' = out.need
       ELSE EndCall(out.st)

\* A read call; on a stream with an exception it raises and changes nothing.
Call(call, n) ==
  /\ pc = "idle" /\ st.exc = "none"
  /\ LET s == CASE call = "readall" -> SetReadChunkSize(st, Unlimited)
                [] call \in {"read", "readexactly"} -> SetReadChunkSize(st, n)
                [] OTHER -> st
     IN Proceed(call, s, n)
  /\ UNCHANGED <<mode, wire, sizes>>

\* The waiter's future is done: look again, or raise.
Resumed ==
  /\ pc = "waiting" /\ st.fut \in {"set", "exc"}
  /\ IF st.fut = "set" THEN Proceed(op, [st EXCEPT !.fut = "none"], need)
     ELSE EndCall(st) /\ flag' = "none"
  /\ UNCHANGED <<mode, wire, sizes>>

CancelRead ==
  /\ pc = "waiting"
  /\ EndCall(st) /\ flag' = "none"
  /\ UNCHANGED <<mode, wire, sizes>>

\* data_received() with the next n tokens: the timer is restarted first.
Receive(n) ==
  /\ st.conn = "open" /\ ~st.tpaused /\ st.exc = "none"
  /\ st.arrived + n <= Len(wire)
  /\ st' = ParserFeed([st EXCEPT !.arrived = @ + n, !.timer = TRUE], TRUE)
  /\ UNCHANGED <<mode, wire, sizes, pc, op, need, flag>>

\* connection_lost(): feed_eof() of the parser completes a body that ends with
\* the connection, unless a pause keeps it from inflating the rest; any other
\* body fails.  The parser is dropped in any case.
ConnectionLost(how) ==
  /\ st.conn = "open" /\ st.exc = "none" /\ ~st.eof
  /\ how = "closed" => ~st.tpaused  \* EOF is read like data
  /\ LET gone == [st EXCEPT !.timer = FALSE]
         last == Drain([gone EXCEPT !.eofPending = TRUE, !.pending = FALSE])
         fed  == IF mode.kind # "eof" THEN [Wake(gone, "exc") EXCEPT !.exc = "payload"]
                 ELSE IF last.pending THEN last
                 ELSE [StreamFeedEof(last) EXCEPT !.eofPending = FALSE]
     IN st' = [fed EXCEPT !.conn = how, !.rpaused = FALSE, !.tpaused = FALSE, !.timer = FALSE]
  /\ UNCHANGED <<mode, wire, sizes, pc, op, need, flag>>

\* _on_read_timeout()
ReadTimeout ==
  /\ st.timer /\ st.exc = "none"
  /\ st' = [Wake(st, "exc") EXCEPT !.exc = "timeout", !.timer = FALSE]
  /\ UNCHANGED <<mode, wire, sizes, pc, op, need, flag>>

Next ==
  \/ \E call \in Ops, n \in ReadSizes : Call(call, n)
  \/ Resumed
  \/ CancelRead
  \/ \E n \in 1..Len(wire) : Receive(n)
  \/ \E how \in {"closed", "reset"} : ConnectionLost(how)
  \/ ReadTimeout

Spec == Init /\ [][Next]_vars
----------------------------------------------------------------------------
(* Properties                                                              *)

\* Type correctness, with the byte counts that belong together: what was fed
\* is what was read plus what is buffered.
TypeOK ==
  /\ mode \in Modes
  /\ pc \in {"idle", "waiting"} /\ need \in Nat
  /\ op \in Ops \cup {"none"}
  /\ st.buf \in Seq(Nat \ {0}) /\ st.size = Bytes(st.buf)
  /\ st.total = st.cursor + st.size
  /\ st.parsed <= st.arrived /\ st.arrived <= Len(wire)
  /\ st.fut = "none" <=> pc = "idle"

\* The body can still grow.
Receiving == st.conn = "open" /\ ~st.eof /\ st.exc = "none"

\* A full buffer stops the transport, however reads, re-entrant resumes and
\* chunk ends interleave, and inflating never overshoots by more than a block.
Backpressure ==
  Receiving =>
    /\ st.size > 2 * st.low \/ Len(st.splits) > HighChunks => st.tpaused
    /\ Compressed /\ st.low < Unlimited => st.size <= 2 * st.low + HigherOf(Limit, st.low)

\* EOF is signalled only after the last byte, inflated, is in the stream.
EofExact ==
  st.eof =>
    /\ st.held = 0
    /\ mode.kind # "eof" => st.total = Inflated(Bytes(sizes))
    /\ mode.kind = "eof" => st.total = Inflated(st.arrived)

\* A body that ends with the connection is complete when the peer closes it in
\* order, although the parser cannot inflate any more later.  Except: the Python
\* parser with zstd, which learns from an output that nothing is left, does not
\* look at a pause then, and stops at that pause when the connection ends.
CleanCloseComplete ==
  /\ st.conn = "closed" /\ mode.kind = "eof"
  /\ ~(mode.parser = "python" /\ mode.codec = "zstd")
  => st.eof \/ Failed(st)

\* Positions in the body where an HTTP chunk ends.
ChunkEnd == {Inflated(Bytes(SubSeq(sizes, 1, i))) : i \in DOMAIN sizes}

\* readchunk() never returns data of two chunks at once, and says "end of
\* chunk" only where one ends, also when mixed with other read calls.
EndsChunks ==
  mode.kind = "chunked" /\ flag' # "none" =>
    /\ \A e \in ChunkEnd : ~(st.cursor < e /\ e < st'.cursor)
    /\ flag' = "end of chunk" => st'.cursor \in ChunkEnd
ChunkEnds == [][EndsChunks]_vars

\* sock_read bounds every wait for the peer: while the transport is read for
\* this body, the timer runs.
TimerGuards == Receiving /\ ~st.tpaused => st.timer

\* The end of a body is told when it is complete and not before, also when the
\* peer ends it by closing, and waiting for it is bounded by the timer.
EndIsExact == TypeOK /\ EofExact /\ CleanCloseComplete /\ TimerGuards

\* Nothing is withheld from a reader that waits: all that has arrived has been
\* parsed, inflated and read, and the transport is open for more.  Otherwise a
\* peer that has sent everything and a reader that wants it wait for each other.
NothingWithheld ==
  pc = "waiting" /\ st.fut = "pending" /\ ~Failed(st) =>
    /\ Receiving /\ ~st.tpaused
    /\ st.parsed = st.arrived /\ st.held = 0 /\ st.size = 0

\* "The read timeout is now only rescheduled when resuming a transport that
\* was actually paused" (CHANGES/12953.bugfix.rst), so that no timer is left
\* on a connection that has gone back to the pool.  The code breaks it when the
\* resume itself completes the body.
NoTimerAfterEof == st.eof => ~st.timer
=============================================================================
