----------------------------- MODULE HttpParser -----------------------------
(***************************************************************************)
(* What HttpRequestParser and HttpResponseParser (http_parser.py) make of  *)
(* the head of a message: whether it is refused, where its body ends, and  *)
(* whether another message follows it.  Of a head only the fields that     *)
(* decide this are kept:                                                   *)
(*   v11    whether it is of HTTP/1.1 (or 1.0)                             *)
(*   host   it has a Host header                                           *)
(*   te     Transfer-Encoding: "absent", "chunked" or "other"              *)
(*   cl     Content-Length, NoLength if it is absent                       *)
(*   conn   Connection: "absent", "close" or "keep-alive"                  *)
(* BodyStream takes over where the body begins.                            *)
(***************************************************************************)
EXTENDS Integers

NoLength == -1

Informational == 100..199
EmptyBodyStatus == {204, 304} \cup Informational
EmptyBodyMethods == {"HEAD"}

\* parse_headers(): a body has one framing; of a request's transfer codings
\* chunked must be the last.
HeadersRefused(h) == h.te # "absent" /\ h.cl # NoLength
RequestRefused(h) == HeadersRefused(h) \/ h.te = "other" \/ (h.v11 /\ ~h.host)
Chunked(h) == h.te = "chunked"

\* should_close of a request and of a response with that status.
RequestCloses(h) ==
  \/ h.conn = "close"
  \/ h.conn = "absent" /\ ~h.v11
ResponseCloses(h, status) ==
  \/ h.conn = "close"
  \/ /\ h.conn = "absent"
     /\ \/ ~h.v11
        \/ status \notin EmptyBodyStatus /\ h.cl = NoLength /\ h.te = "absent"

\* HttpPayloadParser.__init__()
PayloadType(h) == IF Chunked(h) THEN "chunked" ELSE IF h.cl # NoLength THEN "length" ELSE "eof"

\* feed_data(): which payload follows the head.  "upgraded" is the end of HTTP.
RequestPayload(h, method) ==
  IF method \notin EmptyBodyMethods /\ (h.cl > 0 \/ Chunked(h)) THEN PayloadType(h)
  ELSE IF method = "CONNECT" THEN "upgraded" ELSE "none"

\* The client's parser does not know the method: the response to HEAD is read
\* without a body (skip_payload).
ResponsePayload(h, status, method, readUntilEof) ==
  IF method = "HEAD" \/ status \in EmptyBodyStatus THEN "none"
  ELSE IF h.cl > 0 \/ Chunked(h) THEN PayloadType(h)
  ELSE IF h.cl = NoLength /\ readUntilEof THEN "eof" ELSE "none"
=============================================================================
