--------------------------- MODULE RequestFraming ---------------------------
(***************************************************************************)
(* The body of a client's request on the wire: the headers that            *)
(* ClientRequest derives from its arguments, update_body() by a            *)
(* middleware, what Payload.write_with_length() reads, and the StreamWriter*)
(* that carries it (client_reqrep.py, payload.py).  Digest authentication  *)
(* hashes a body before it is sent, and sends a request a second time.     *)
(*                                                                         *)
(* A body is [kind, total, first, stored, pos, start, cached, spent]:      *)
(*   "none"; "bytes"; "buffer", a BytesIO; "file", "text" and "pipe", files*)
(*   of which the last cannot be sought; "stream", an async iterable.      *)
(* It has "total" bytes, of which those from "first" on are to be sent;    *)
(* pos is where it is read next, start the _start_position of a file,      *)
(* stored the size of a text file on the disk.                             *)
(***************************************************************************)
EXTENDS StreamWriter, HttpParser

CONSTANTS
  Arguments,  \* [method, v11, chunked, compress, cl, expect, body]
  Bodies,     \* what a middleware may give to update_body()
  CHUNK,      \* DEFAULT_CHUNK_SIZE
  MaxUpdates, \* bound: calls of update_body()
  MaxSends    \* bound: times the request is sent

VARIABLES
  req,   \* the ClientRequest: its arguments and headers, te and cl
  body,  \* the Payload
  at,    \* "built", "refused", "expect", "body", "over"
  left,  \* write_with_length(): bytes that may still be sent, or NONE
  avail, \* what the first read found the payload to have, or NONE
  taken, \* what was read
  w,     \* the StreamWriter of this send
  owed,  \* the bytes this send should carry, or NONE
  updates, sends

vars == <<req, body, at, left, avail, taken, w, owed, updates, sends>>

GetMethods == {"GET", "HEAD"}
Files == {"file", "text", "pipe"}
Truthy(chunked) == chunked = "yes"
-----------------------------------------------------------------------------
(* Payload                                                                 *)

Told(b) == IF b.kind = "pipe" THEN b ELSE [b EXCEPT !.start = IF @ = NONE THEN b.pos ELSE @]
SizeOfBody(b) ==
  CASE b.kind = "none" -> 0
    [] b.kind = "bytes" -> b.total
    [] b.kind = "buffer" -> b.total - b.first
    [] b.kind \in {"file", "text"} -> b.stored - Told(b).start
    [] OTHER -> NONE

\* _set_or_restore_start_position()
Restored_Never(b) == Told(b)
Restored(b) ==
  IF b.kind = "pipe" THEN [b EXCEPT !.spent = TRUE]
  ELSE IF b.start = NONE THEN Told(b) ELSE [b EXCEPT !.pos = b.start]

\* as_bytes(): a stream is kept.
AsBytes(b) ==
  CASE b.kind \in Files \cup {"buffer"} -> [Restored(b) EXCEPT !.pos = b.total]
    [] b.kind = "stream" /\ ~b.spent -> [b EXCEPT !.cached = TRUE, !.pos = 0]
    [] OTHER -> b

\* What write_with_length() has to send; NONE when the body was consumed and
\* cannot be read again, which only ClientSession's redirects look at.
Owed(b) == IF b.spent /\ ~b.cached THEN NONE ELSE b.total - b.first
-----------------------------------------------------------------------------
(* ClientRequest.__init__() and update_body().                             *)

HasData(b) == b.kind # "none" /\ ~(b.kind = "bytes" /\ b.total = 0)
Encoded(a) == IF HasData(a.body) /\ a.compress THEN [a EXCEPT !.chunked = "yes"] ELSE [a EXCEPT !.compress = FALSE]

\* _update_body_from_data()
WithBody(r, b) ==
  IF Truthy(r.chunked) \/ r.cl # NONE THEN r
  ELSE IF b.kind = "none" THEN (IF r.method \in GetMethods THEN r ELSE [r EXCEPT !.cl = 0])
  ELSE IF SizeOfBody(b) # NONE THEN [r EXCEPT !.cl = SizeOfBody(b)] ELSE [r EXCEPT !.chunked = "yes"]
Measured(b) == IF b.kind \in Files THEN Told(b) ELSE b

\* _update_transfer_encoding()
Framed_(r, b) == b.kind # "none" \/ r.method \notin GetMethods
TransferRefused(r, b) == Framed_(r, b) /\ Truthy(r.chunked) /\ (r.cl # NONE \/ r.te)
WithTransfer(r, b) == [r EXCEPT !.te = @ \/ (Framed_(r, b) /\ Truthy(r.chunked))]

Built(r, b) ==
  LET q == WithBody(r, b)
  IN  /\ body' = Measured(b)
      /\ IF TransferRefused(q, b) THEN at' = "refused" /\ req' = q
         ELSE at' = "built" /\ req' = WithTransfer(q, b)

Init ==
  \E a \in Arguments :
    LET r == [method |-> a.method, v11 |-> a.v11, chunked |-> Encoded(a).chunked, compress |-> Encoded(a).compress,
              cl |-> a.cl, te |-> FALSE, expect |-> a.expect, limit |-> a.cl]
        q == WithBody(r, a.body)
    IN  /\ body = Measured(a.body)
        /\ at = (IF TransferRefused(q, a.body) THEN "refused" ELSE "built")
        /\ req = (IF TransferRefused(q, a.body) THEN q ELSE WithTransfer(q, a.body))
        /\ left = NONE /\ avail = NONE /\ taken = 0 /\ w = NewWriter /\ owed = 0 /\ updates = 0 /\ sends = 0

\* update_body() by a middleware: the length of the old body goes.
UpdateBody(b) ==
  /\ at \in {"built", "over"} /\ updates < MaxUpdates /\ sends < MaxSends
  /\ Built([req EXCEPT !.cl = NONE, !.te = @ /\ ~Truthy(req.chunked), !.limit = NONE], b)
  /\ updates' = updates + 1
  /\ UNCHANGED <<left, avail, taken, w, owed, sends>>

\* DigestAuthMiddleware hashes the body.
Hash ==
  /\ at \in {"built", "over"} /\ sends < MaxSends
  /\ body' = AsBytes(body)
  /\ UNCHANGED <<req, at, left, avail, taken, w, owed, updates, sends>>
-----------------------------------------------------------------------------
(* _send() and _write_bytes().                                             *)

Writer(r) ==
  LET z == IF r.compress THEN EnableCompression(NewWriter) ELSE NewWriter
  IN  WriteHeaders(IF r.chunked # "unset" THEN EnableChunking(z) ELSE z,
                   [is |-> "head", te |-> r.te, cl |-> r.cl, empty |-> FALSE])

\* Nothing is written for an empty body, unless the transport is paused or the
\* server's 100 is awaited.
Send ==
  /\ at \in {"built", "over"} /\ sends < MaxSends
  /\ sends' = sends + 1
  /\ owed' = (IF req.limit = NONE THEN Owed(body) ELSE Least(req.limit, Owed(body)))
  /\ \/ /\ SizeOfBody(body) # 0 \/ req.expect
        /\ at' = (IF req.expect THEN "expect" ELSE "write")
        /\ w' = (IF req.expect THEN SendHeaders(Writer(req)) ELSE Writer(req))
     \/ /\ SizeOfBody(body) = 0 /\ ~req.expect
        /\ \/ at' = "over" /\ w' = SetEof(Writer(req))
           \/ at' = "write" /\ w' = Writer(req)  \* writing is paused
  /\ UNCHANGED <<req, body, left, avail, taken, updates>>

Continue == at = "expect" /\ at' = "write" /\ UNCHANGED <<req, body, left, avail, taken, w, owed, updates, sends>>

\* The beginning of write_with_length().
Start ==
  /\ at = "write" /\ at' = "body"
  /\ left' = req.cl /\ taken' = 0
  /\ IF body.kind \in Files \cup {"buffer"}
     THEN body' = Restored(body) /\ avail' = (IF body.kind = "buffer" THEN NONE ELSE SizeOfBody(body))
     ELSE avail' = NONE /\ body' = IF body.kind = "stream" /\ body.cached THEN [body EXCEPT !.pos = 0] ELSE body
  /\ UNCHANGED <<req, w, owed, updates, sends>>

\* write_eof()
Ended(x) == at' = "over" /\ w' = WriteEof(x, 0)

\* BytesPayload
WriteBytes ==
  /\ at = "body" /\ body.kind \in {"none", "bytes"}
  /\ \E out \in BOOLEAN : Ended(Write(w, IF left = NONE THEN body.total ELSE Least(left, body.total), out))
  /\ UNCHANGED <<req, body, left, avail, taken, owed, updates, sends>>

\* One piece of n bytes, cut to what is left; the read may have gone further.
Wrote(n, out) ==
  /\ left' = (IF left = NONE THEN NONE ELSE left - n) /\ taken' = taken + n
  /\ body' = [body EXCEPT !.pos = @ + n]
  /\ LET x == Write(w, IF left = NONE THEN n ELSE Least(left, n), out)
         stop == (avail # NONE /\ taken + n >= avail) \/ (left # NONE /\ left - n <= 0)
     IN  IF stop THEN Ended(x) ELSE at' = at /\ w' = x
Drained == Ended(w) /\ UNCHANGED <<body, left, taken>>

\* IOBasePayload: _read_and_available_len() at first, then _read().
Wanted ==
  LET bound == IF left \in {NONE, 0} THEN CHUNK ELSE Least(left, CHUNK)
  IN  IF taken = 0 /\ avail \notin {NONE, 0} THEN Least(bound, avail) ELSE bound
WriteFile ==
  /\ at = "body" /\ body.kind \in Files
  /\ LET n == Least(Wanted, body.total - body.pos)
     IN  IF n = 0 THEN Drained ELSE \E out \in BOOLEAN : Wrote(n, out)
  /\ UNCHANGED <<req, avail, owed, updates, sends>>

\* BytesIOPayload
WriteBuffer ==
  /\ at = "body" /\ body.kind = "buffer"
  /\ LET n == Least(CHUNK, body.total - body.pos)
     IN  IF n = 0 THEN Drained ELSE \E out \in BOOLEAN : Wrote(n, out)
  /\ UNCHANGED <<req, avail, owed, updates, sends>>

\* AsyncIterablePayload: it is read to its end, whatever may be sent.
WriteStream ==
  /\ at = "body" /\ body.kind = "stream"
  /\ IF body.pos = body.total
     THEN /\ body' = [body EXCEPT !.spent = ~body.cached] /\ Ended(w) /\ UNCHANGED <<left, taken>>
     ELSE \E n \in 1..(body.total - body.pos), out \in BOOLEAN :
            LET k == IF left = NONE THEN n ELSE Least(left, n)
            IN  /\ body' = [body EXCEPT !.pos = @ + n] /\ taken' = taken + n /\ at' = at
                /\ left' = (IF left = NONE THEN NONE ELSE left - k)
                /\ w' = (IF left = 0 THEN w ELSE Write(w, k, out))
  /\ UNCHANGED <<req, avail, owed, updates, sends>>

Next ==
  \/ \E b \in Bodies : UpdateBody(b)
  \/ Hash \/ Send \/ Continue \/ Start \/ WriteBytes \/ WriteFile \/ WriteBuffer \/ WriteStream

Spec == Init /\ [][Next]_vars
-----------------------------------------------------------------------------
(* Properties.                                                             *)

Message == [v11 |-> req.v11, host |-> TRUE, te |-> IF Head(w.wire).te THEN "chunked" ELSE "absent",
            cl |-> Head(w.wire).cl, conn |-> "absent"]

Sent == at = "over" /\ sends > 0 /\ w.wire # <<>> /\ owed # NONE

\* A body goes in chunks only below a head that says so.  The code breaks it:
\* the writer is made chunked whenever "chunked" is not None.
ChunksAnnounced == Sent /\ ~All(BodyOf(w.wire), {"data"}) => Head(w.wire).te

\* A request that is sent, its body not consumed before, arrives: the server's parser does not refuse its
\* head, finds the end of its body where the client ended it, and reads the
\* bytes that the body has, the first time and when it is sent again, whatever
\* arguments and middlewares made of it.
BodyArrives ==
  Sent /\ ChunksAnnounced =>
    LET b == BodyOf(w.wire)
        type == RequestPayload(Message, req.method)
    IN  /\ ~RequestRefused(Message)
        /\ type = "none" => b = <<>>
        /\ type = "length" => All(b, {"data"}) /\ SizeOf(b) = req.cl
        /\ type = "chunked" => /\ All(b, {"chunk", "last"})
                               /\ \A i \in 1..Len(b) : b[i].is = "last" <=> i = Len(b)
        /\ type # "upgraded" /\ ContentOf(b) = owed
=============================================================================
