-------------------------- MODULE MCRequestFraming --------------------------
EXTENDS RequestFraming
Body(kind, total, first) ==
  [kind |-> kind, total |-> total, first |-> first, stored |-> total, pos |-> first, start |-> NONE, cached |-> FALSE, spent |-> FALSE]
NoBody == Body("none", 0, 0)
SomeBodies ==
  {NoBody, Body("file", 4, 1), Body("file", 2, 2), Body("buffer", 4, 1), Body("buffer", 3, 0), Body("pipe", 3, 0)}
  \cup {Body("bytes", n, 0) : n \in {0, 3}} \cup {Body("stream", n, 0) : n \in {0, 3}}
\* A length is declared for a body that has so much.
All_ == [method : {"GET", "POST"}, v11 : BOOLEAN, chunked : {"unset", "no", "yes"}, compress : BOOLEAN,
         cl : {NONE, 1, 3}, expect : BOOLEAN, body : SomeBodies]
Careful == {a \in All_ :
  /\ a.cl # NONE => a.cl <= a.body.total - a.body.first}
CRLFText == {[a EXCEPT !.body = [Body("text", 3, 0) EXCEPT !.stored = 4]] : a \in {x \in Careful : x.body = Body("file", 4, 1)}}
=============================================================================
