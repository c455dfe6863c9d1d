-------------------------- MODULE MCStreamResponse --------------------------
(* Responses and requests for the runs of StreamResponse.                  *)
EXTENDS StreamResponse

NoConditions == [match |-> "none", nonematch |-> "none", unmod |-> "none", mod |-> "none"]
Conditions == [match : {"none", "same", "other"}, nonematch : {"none", "same", "other"},
               unmod : {"none", "past", "later"}, mod : {"none", "past", "same", "later"}]
Ranges == {[is |-> "absent", a |-> NONE, b |-> NONE]}
          \cup {[is |-> "range", a |-> a, b |-> b] : a \in {NONE, 0, 1, 2, 3}, b \in {NONE, 0, 1, 2, 3}}
ValidRange(r) == r.is = "range" /\ ~(r.a = NONE /\ r.b = NONE) /\ (r.a # NONE /\ r.b # NONE => r.a <= r.b)

NoFile == [is |-> "missing", size |-> 0, range |-> [is |-> "absent", a |-> NONE, b |-> NONE], ifrange |-> "none",
           cond |-> NoConditions, encoded |-> FALSE, sendfile |-> FALSE]
Base == [kind |-> "stream", status |-> 200, chunked |-> FALSE, compress |-> FALSE, cl |-> NONE, keep |-> "auto",
         body |-> NONE, size |-> NONE, started |-> FALSE, done |-> FALSE, empty |-> FALSE, lengthCheck |-> TRUE,
         file |-> NoFile]

(* enable_chunked_encoding() and a Content-Length exclude each other.      *)
Streams == {[Base EXCEPT !.status = s, !.chunked = c, !.compress = z, !.cl = l, !.keep = k] :
              s \in {200, 204}, c \in BOOLEAN, z \in BOOLEAN, l \in {NONE, 0, 2}, k \in {"auto", "no"}}
Plain == {[Base EXCEPT !.kind = "bytes", !.status = s, !.chunked = c, !.compress = z, !.body = b] :
              s \in {200, 304}, c \in BOOLEAN, z \in BOOLEAN, b \in {NONE, 2}}
Payloads == {[Base EXCEPT !.kind = "payload", !.status = s, !.chunked = c, !.compress = z, !.body = 3, !.size = l] :
              s \in {200, 204}, c \in BOOLEAN, z \in BOOLEAN, l \in {NONE, 3}}
RangeFiles == {[NoFile EXCEPT !.is = "regular", !.size = s, !.range = r, !.ifrange = i, !.sendfile = sf, !.encoded = e] :
              s \in {0, 2, 3}, r \in {x \in Ranges : x.is = "absent" \/ ValidRange(x) \/ (x.a = 2 /\ x.b = 1)},
              i \in {"none", "past", "later"}, sf \in BOOLEAN, e \in BOOLEAN}
OtherFiles == {[NoFile EXCEPT !.is = i] : i \in {"missing", "special"}}
              \cup {[NoFile EXCEPT !.is = "regular", !.size = 1, !.cond = c] : c \in Conditions}
Files == {[Base EXCEPT !.kind = "file", !.compress = z, !.file = f] : z \in BOOLEAN, f \in RangeFiles \cup OtherFiles}

Requests == [v11 : BOOLEAN, method : {"GET", "HEAD", "CONNECT"}, keep : BOOLEAN]
FileRequests == {q \in Requests : q.method # "CONNECT" /\ q.v11 = q.keep}
AllSetups == {[req |-> q, resp |-> r] : q \in Requests, r \in {x \in Streams \cup Plain \cup Payloads : ~(x.chunked /\ x.cl # NONE)}}
             \cup {[req |-> q, resp |-> r] : q \in FileRequests, r \in Files}

(* Compressing on the fly a response that has no body, and chunked and     *)
(* compressed towards HTTP/1.0, put bytes where the head has none.         *)
CarefulSetups == {s \in AllSetups :
   /\ s.resp.compress => ~Empty(s.req, Filed(s.resp).status)
   /\ s.resp.compress /\ s.resp.chunked => s.req.v11}
=============================================================================
