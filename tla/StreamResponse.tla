--------------------------- MODULE StreamResponse ---------------------------
(***************************************************************************)
(* One response of the server, from the handler to the wire: the framing   *)
(* chosen by StreamResponse, Response and FileResponse.prepare()           *)
(* (web_response.py, web_fileresponse.py), what the handler writes, and    *)
(* finish_response() / handle_error() of the RequestHandler.               *)
(*                                                                         *)
(* resp.kind: "stream" is a StreamResponse the handler may prepare and     *)
(* write itself; "bytes" a Response with a bytes body (or none, NONE);     *)
(* "payload" a Response with a Payload of known or unknown size; "file" a  *)
(* FileResponse.  Sizes are small numbers; a compressed body has size 1.   *)
(***************************************************************************)
EXTENDS StreamWriter, HttpParser

CONSTANTS
  Setups,       \* pairs of a request [v11, method, keep] and of a response
                \* that a handler may build for it
  MaxWrites,    \* bound: calls of write() and chunks of a payload
  HookFails     \* a signal handler of on_response_prepare may raise

VARIABLES
  req,          \* the request
  resp,         \* the StreamResponse object in use
  w,            \* request._payload_writer: one StreamWriter per request
  at,           \* "handler", "finish", "body", "eof", "over", "broken"
  n,            \* calls of write() so far
  wrote,        \* content handed to the writer for this response
  honest,       \* the handler kept to what it declared
  up            \* the transport can be written to
vars == <<req, resp, w, at, n, wrote, honest, up>>

Empty(q, status) == status \in {204, 304} \/ q.method = "HEAD"
                    \/ (q.method = "CONNECT" /\ status \in 200..299)
RemovesLength(q, status) == status \in {204, 304}
                            \/ (q.method = "CONNECT" /\ status \in 200..299)

-----------------------------------------------------------------------------
(* FileResponse: which part of the file answers the request.               *)

(* http_range: "bytes=a-b", "bytes=a-", "bytes=-b"; [start, stop) with     *)
(* NONE for what is not given, or "bad".  A suffix is a negative start.    *)
BadRange == [bad |-> TRUE, start |-> NONE, stop |-> NONE, tail |-> FALSE]
HttpRange_Exclusive(r) ==
  IF r.is = "absent" THEN [BadRange EXCEPT !.bad = FALSE]
  ELSE [bad |-> FALSE, start |-> IF r.a = NONE THEN 0 - r.b ELSE r.a,
        stop |-> IF r.a = NONE THEN NONE ELSE r.b, tail |-> r.a = NONE /\ r.b > 0]
HttpRange(r) ==
  CASE r.is = "absent" -> [BadRange EXCEPT !.bad = FALSE]
    [] r.a = NONE /\ r.b = NONE -> BadRange
    [] r.a = NONE /\ r.b # NONE -> [bad |-> FALSE, start |-> 0 - r.b, stop |-> NONE, tail |-> r.b > 0]
    [] r.a # NONE /\ r.b # NONE /\ r.a >= r.b + 1 -> BadRange
    [] OTHER -> [bad |-> FALSE, start |-> r.a, stop |-> IF r.b = NONE THEN NONE ELSE r.b + 1, tail |-> FALSE]

(* _make_response: the outcome of the conditional headers.  "same" stands  *)
(* for the file's own tag or time, "past"/"later" for times around it.     *)
Conditional(c) ==
  CASE c.match = "other" -> 412
    [] c.match = "none" /\ c.unmod = "past" -> 412
    [] ~(c.match = "other") /\ c.nonematch = "same" -> 304
    [] c.nonematch = "none" /\ c.mod \in {"same", "later"} -> 304
    [] OTHER -> 200

(* _prepare_open_file: status, offset and count of what is sent.           *)
Part(f) ==
  LET h == HttpRange(f.range)
      start == IF h.tail THEN (IF h.start + f.size < 0 THEN 0 ELSE h.start + f.size) ELSE h.start
      stop == IF h.stop = NONE THEN f.size ELSE Least(h.stop, f.size)
      whole == [status |-> 200, start |-> 0, count |-> f.size]
      unsatisfiable == [status |-> 416, start |-> 0, count |-> 0] IN
  CASE f.ifrange = "past" \/ f.range.is = "absent" -> whole
    [] f.ifrange # "past" /\ h.bad -> unsatisfiable
    [] f.ifrange # "past" /\ ~h.bad /\ start >= f.size -> unsatisfiable
    [] OTHER -> [status |-> 206, start |-> start, count |-> stop - start]

Outcome(f) ==
  CASE f.is = "missing" -> [status |-> 404, start |-> 0, count |-> 0]
    [] f.is = "special" -> [status |-> 403, start |-> 0, count |-> 0]
    [] f.is = "regular" /\ Conditional(f.cond) # 200 -> [status |-> Conditional(f.cond), start |-> 0, count |-> 0]
    [] OTHER -> Part(f)

(* FileResponse.prepare(): the response as the inherited prepare() finds   *)
(* it.  Only an opened file sets a length, and 412 declares length 0.      *)
Filed(r) ==
  IF r.kind # "file" THEN r
  ELSE LET o == Outcome(r.file) IN
       [r EXCEPT !.status = o.status,
                 !.cl = IF o.status \in {200, 206} THEN o.count
                        ELSE IF o.status = 412 THEN 0 ELSE r.cl,
                 !.lengthCheck = o.status # 304,
                 !.compress = @ /\ ~(r.file.encoded /\ o.status \in {200, 206}),
                 !.body = IF o.status \in {200, 206} THEN o.count ELSE 0]

-----------------------------------------------------------------------------
(* prepare().                                                              *)

(* Response._start: a body of known size declares it.                      *)
Declared(q, r) ==
  CASE r.kind \notin {"bytes", "payload"} -> r.cl
    [] r.kind \in {"bytes", "payload"} /\ r.cl # NONE ->
         IF RemovesLength(q, r.status) THEN NONE ELSE r.cl
    [] r.kind = "payload" /\ r.cl = NONE -> IF r.chunked THEN NONE ELSE r.size
    [] OTHER -> IF r.chunked THEN NONE
                ELSE IF r.body > 0 \/ (r.status # 304 /\ q.method # "HEAD")
                     THEN (IF r.body = NONE THEN 0 ELSE r.body) ELSE NONE

(* _start_compression: a bytes body is compressed as a whole, beforehand;  *)
(* anything else by the writer.                                            *)
WholeBody(r) == r.kind = "bytes" /\ ~r.chunked
Compressed(r) ==
  CASE ~r.compress -> r
    [] r.compress /\ WholeBody(r) -> [r EXCEPT !.body = 1, !.cl = 1]
    [] OTHER -> [r EXCEPT !.cl = NONE]

ContentLength(r) ==
  IF r.kind \in {"stream", "file"} \/ r.cl # NONE THEN r.cl
  ELSE IF r.chunked \/ r.kind = "payload" THEN NONE
  ELSE IF r.body = NONE THEN 0 ELSE r.body

Sized_Always(r, length) == TRUE
Sized(r, length) == r.chunked \/ ~r.lengthCheck \/ length # NONE

(* _prepare_headers: the response, the writer and the head after it.       *)
Prepared(q, r0, w0) ==
  LET r1 == Compressed([r0 EXCEPT !.cl = Declared(q, r0)])
      empty == Empty(q, r1.status)
      length == IF r1.chunked \/ ~r1.lengthCheck THEN NONE ELSE ContentLength(r1)
      chunks == ~empty /\ (r1.chunked \/ (r1.lengthCheck /\ length = NONE /\ q.v11))
      keep == IF r1.keep = "auto" THEN q.keep ELSE r1.keep = "yes"
      announced == keep /\ (Sized(r1, length) \/ q.v11 \/ empty)
      cl == IF empty /\ RemovesLength(q, r1.status) THEN NONE ELSE r1.cl
      w1 == IF r1.compress /\ ~WholeBody(r1) THEN EnableCompression(w0) ELSE w0
      w2 == IF chunks THEN EnableChunking(w1) ELSE w1 IN
  [resp |-> [r1 EXCEPT !.cl = cl, !.started = TRUE, !.empty = empty, !.keep = IF keep THEN "yes" ELSE "no"],
   writer |-> IF r1.chunked \/ ~r1.lengthCheck THEN w2 ELSE SetLength(w2, length),
   head |-> [is |-> "head", te |-> chunks, cl |-> cl, empty |-> empty,
             conn |-> IF announced /\ ~q.v11 THEN "keep-alive" ELSE IF ~announced /\ q.v11 THEN "close" ELSE "absent"]]

(* What makes prepare() raise before the hook: an assertion of Response,   *)
(* and chunked encoding towards HTTP/1.0, when compression is on already.  *)
Refused(q, r) == \/ r.compress /\ WholeBody(r) /\ r.body = NONE
                 \/ r.chunked /\ ~q.v11
RefusedWriter(q, r, w0) ==
  IF r.compress /\ ~WholeBody(r) THEN EnableCompression(w0) ELSE w0

Immediate(r) == r.kind \in {"stream", "file"}
Headed(q, r, w0) ==
  LET p == Prepared(q, r, w0)
      w1 == WriteHeaders(p.writer, p.head) IN
  IF Immediate(r) THEN SendHeaders(w1) ELSE w1

-----------------------------------------------------------------------------
Init ==
  /\ \E s \in Setups : req = s.req /\ resp = s.resp
  /\ w = NewWriter /\ at = "handler" /\ n = 0 /\ wrote = 0
  /\ honest = TRUE /\ up = TRUE

Lose == up /\ up' = FALSE /\ UNCHANGED <<req, resp, w, at, n, wrote, honest>>

(* handle_error(): the response to an exception of the handler.  Once      *)
(* something was sent there is no response, the connection is broken.      *)
ErrorResponse == [kind |-> "bytes", status |-> 500, chunked |-> FALSE, compress |-> FALSE,
                  cl |-> NONE, keep |-> "no", body |-> 1, size |-> NONE, started |-> FALSE,
                  done |-> FALSE, empty |-> FALSE, lengthCheck |-> TRUE]
HandlerRaises(w1) ==
  /\ w' = w1 /\ wrote' = 0 /\ n' = 0
  /\ IF w1.wire = <<>> THEN at' = "finish" /\ resp' = ErrorResponse
                       ELSE at' = "broken" /\ UNCHANGED resp
HandlerFails == at = "handler" /\ HandlerRaises(w) /\ UNCHANGED <<req, honest, up>>

(* The handler prepares a StreamResponse itself.                           *)
HandlerPrepares ==
  /\ at = "handler" /\ resp.kind = "stream" /\ ~resp.started
  /\ \/ /\ Refused(req, resp) /\ HandlerRaises(RefusedWriter(req, resp, w))
     \/ /\ ~Refused(req, resp) /\ HookFails /\ HandlerRaises(Prepared(req, resp, w).writer)
     \/ /\ ~Refused(req, resp) /\ ~up /\ at' = "broken" /\ UNCHANGED <<resp, w, n, wrote>>
     \/ /\ ~Refused(req, resp) /\ up
        /\ resp' = Prepared(req, resp, w).resp /\ w' = Headed(req, resp, w)
        /\ UNCHANGED <<at, n, wrote>>
  /\ UNCHANGED <<req, honest, up>>

(* StreamResponse.write().  A handler that writes where the protocol has   *)
(* no body breaks the message itself.                                      *)
HandlerWrites ==
  /\ at = "handler" /\ resp.kind = "stream" /\ resp.started /\ ~resp.done /\ n < MaxWrites
  /\ \E size \in 1..2, out \in BOOLEAN :
       LET w1 == Write(w, size, out) IN
       IF ~up /\ w1.wire # w.wire THEN at' = "broken" /\ UNCHANGED <<resp, w, n, wrote, honest>>
       ELSE /\ w' = w1 /\ wrote' = wrote + (IF w.compress THEN size ELSE Clamped(w, size))
            /\ n' = n + 1 /\ honest' = (honest /\ ~resp.empty) /\ UNCHANGED <<resp, at>>
  /\ UNCHANGED <<req, up>>

(* StreamResponse.write_eof(data) by the handler.                          *)
HandlerEnds ==
  /\ at = "handler" /\ resp.kind = "stream" /\ resp.started /\ ~resp.done
  /\ \E size \in 0..1 :
       LET w1 == WriteEof(w, size) IN
       IF ~up /\ w1.wire # w.wire THEN at' = "broken" /\ UNCHANGED <<resp, w, n, wrote, honest>>
       ELSE /\ w' = w1 /\ wrote' = wrote + size /\ resp' = [resp EXCEPT !.done = TRUE]
            /\ honest' = (honest /\ (size > 0 => ~resp.empty /\ (w.length = NONE \/ size <= w.length)))
            /\ UNCHANGED <<n, at>>
  /\ UNCHANGED <<req, up>>

HandlerReturns == at = "handler" /\ at' = "finish" /\ UNCHANGED <<req, resp, w, n, wrote, honest, up>>

(* finish_response(): prepare(), unless that is done.  What it raises ends *)
(* the connection; nobody answers.                                         *)
FinishPrepares ==
  /\ at = "finish" /\ ~resp.started
  /\ LET r == Filed(resp) IN
     \/ /\ \/ Refused(req, r)
           \/ HookFails
           \/ ~up /\ Immediate(r)
        /\ at' = "broken" /\ UNCHANGED <<resp, w>>
     \/ /\ ~Refused(req, r) /\ (up \/ ~Immediate(r))
        /\ resp' = Prepared(req, r, w).resp /\ w' = Headed(req, r, w)
        /\ at' = "body"
  /\ UNCHANGED <<req, n, wrote, honest, up>>
FinishPrepared == at = "finish" /\ resp.started /\ at' = "body" /\ UNCHANGED <<req, resp, w, n, wrote, honest, up>>

(* The body that finish_response() writes before the end of the message:   *)
(* the chunks of a payload, and those of a file where sendfile() is not    *)
(* used.  sendfile() writes to the transport behind the writer's back.     *)
Left == resp.body - wrote
HasBody == ~resp.empty /\ resp.kind \in {"payload", "file"} /\ Left > 0
BodyChunk ==
  /\ at = "body" /\ HasBody
  /\ \E size \in 1..2, out \in BOOLEAN :
       LET w1 == Write(w, size, out) IN
       /\ size <= Left
       /\ IF ~up /\ w1.wire # w.wire THEN at' = "broken" /\ UNCHANGED <<w, wrote>>
          ELSE w' = w1 /\ wrote' = wrote + size /\ UNCHANGED at
  /\ UNCHANGED <<req, resp, n, honest, up>>
SendFile ==
  /\ at = "body" /\ HasBody /\ resp.kind = "file" /\ wrote = 0 /\ resp.file.sendfile /\ ~resp.compress
  /\ IF up THEN /\ w' = [w EXCEPT !.wire = Append(@, [is |-> "data", n |-> Left, of |-> Left])]
                /\ wrote' = resp.body /\ at' = "eof"
           ELSE at' = "broken" /\ UNCHANGED <<w, wrote>>
  /\ UNCHANGED <<req, resp, n, honest, up>>
BodyDone == at = "body" /\ ~HasBody /\ at' = "eof" /\ UNCHANGED <<req, resp, w, n, wrote, honest, up>>

(* write_eof() of finish_response(): a bytes body goes with the end.       *)
Finish ==
  /\ at = "eof"
  /\ LET size == IF resp.kind = "bytes" /\ ~resp.empty /\ resp.body # NONE THEN resp.body ELSE 0
         w1 == WriteEof(w, size) IN
     IF resp.done THEN at' = "over" /\ UNCHANGED <<resp, w, wrote>>
     ELSE IF ~up /\ w1.wire # w.wire THEN at' = "broken" /\ UNCHANGED <<resp, w, wrote>>
     ELSE w' = w1 /\ resp' = [resp EXCEPT !.done = TRUE] /\ wrote' = wrote + size /\ at' = "over"
  /\ UNCHANGED <<req, n, honest, up>>

Next == \/ Lose \/ HandlerFails \/ HandlerPrepares \/ HandlerWrites \/ HandlerEnds \/ HandlerReturns
        \/ FinishPrepares \/ FinishPrepared \/ BodyChunk \/ SendFile \/ BodyDone \/ Finish
Spec == Init /\ [][Next]_vars

-----------------------------------------------------------------------------
(* The fields of the writer, the response and the handler stay in range; a *)
(* response that is over left nothing in the compressor or the head buffer *)
(* (http_writer.py:276-352, web_response.py:471-485).                      *)
TypeOK ==
  /\ at \in {"handler", "finish", "body", "eof", "over", "broken"}
  /\ n \in 0..MaxWrites /\ wrote \in Nat /\ w.held \in Nat /\ w.length \in Nat \cup {NONE}
  /\ {honest, up, w.chunked, w.compress, w.sent, w.eof} \subseteq BOOLEAN
  /\ at = "over" => w.eof /\ resp.done /\ ~Buffered(w) /\ w.held = 0

(* At no moment does the wire contradict its own head: there is one head,  *)
(* no byte after a head that has no body, none beyond Content-Length, no   *)
(* bare byte in a chunked body and nothing after the last chunk, whichever *)
(* of prepare(), write(), write_eof() and the error path wrote it          *)
(* (http_writer.py:195-203, web_response.py:390-409).                      *)
NeverContradicts == honest => Begun(w.wire)

(* A response that is over is whole: the peer can tell its end, and it     *)
(* carries everything that was written, in whatever encoding - unless the  *)
(* handler declared more than it wrote (finish_response,                   *)
(* web_protocol.py:799; Response.write_eof, web_response.py:678).          *)
Framed ==
  at = "over" /\ honest /\ (Head(w.wire).cl # NONE => wrote >= Head(w.wire).cl \/ Head(w.wire).empty)
    => /\ Whole(w.wire)
       /\ ~Head(w.wire).empty => ContentOf(BodyOf(w.wire)) = wrote

(* The client's parser reads the head as it was meant: it does not refuse  *)
(* it, expects a body where the server writes one, with the same framing,  *)
(* and does not go on with the connection when the body ends with it       *)
(* (web_response.py:402-431, http_parser.py:420-516, 720-733).             *)
ClientAgrees ==
  w.wire # <<>> /\ req.method # "CONNECT" =>
    LET h == Head(w.wire)
        m == [v11 |-> req.v11, host |-> TRUE, te |-> IF h.te THEN "chunked" ELSE "absent", cl |-> h.cl, conn |-> h.conn]
        type == ResponsePayload(m, resp.status, req.method, TRUE)
    IN  /\ ~HeadersRefused(m)
        /\ type = (IF h.empty \/ h.cl = 0 THEN "none" ELSE IF h.te THEN "chunked" ELSE IF h.cl # NONE THEN "length" ELSE "eof")
        /\ ~ResponseCloses(m, resp.status) => type # "eof"

(* A range that can be satisfied gets 206 and exactly its bytes, any other *)
(* 416 (http_range, web_request.py:581; web_fileresponse.py:295-368).      *)
Positions(f) ==
  {p \in 0..(f.size - 1) :
     IF f.range.a = NONE THEN p >= f.size - f.range.b
     ELSE p >= f.range.a /\ (f.range.b = NONE \/ p <= f.range.b)}
Asked(f) == f.is = "regular" /\ Conditional(f.cond) = 200 /\ f.ifrange # "past" /\ f.range.is = "range"
Served(f) == Part(f).start..(Part(f).start + Part(f).count - 1)
RangeKept(f) ==
  IF Positions(f) = {} THEN resp.status = 416 /\ wrote = 0
  ELSE /\ resp.status = 206 /\ Served(f) = Positions(f)
       /\ ~resp.empty => wrote = Cardinality(Positions(f))
ZeroSuffix(f) == f.range.a = NONE /\ f.range.b = 0
RangeExact == at = "over" /\ resp.kind = "file" /\ Asked(resp.file) /\ ~ZeroSuffix(resp.file) => RangeKept(resp.file)

(* The same without the exception of "bytes=-0": a suffix of no bytes      *)
(* cannot be satisfied either (the comment at web_fileresponse.py:353).    *)
ZeroSuffixUnsatisfiable == at = "over" /\ resp.kind = "file" /\ Asked(resp.file) => RangeKept(resp.file)

=============================================================================
