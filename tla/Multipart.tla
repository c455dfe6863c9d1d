------------------------------ MODULE Multipart ------------------------------
(***************************************************************************)
(* Multipart bodies (aiohttp/multipart.py): what MultipartWriter writes,   *)
(* and how MultipartReader and BodyPartReader find the parts again in      *)
(* pieces of any size.  A body is a sequence of symbols: "C" and "L" are   *)
(* CR and LF, "-" stands for the two dashes of a boundary, "b" and "c" for *)
(* the boundaries of the body and of a body within it; a header line is    *)
(* one symbol.  Compression, transfer encodings, the charset of a form and *)
(* the limits of sizes are left out.                                       *)
(***************************************************************************)
EXTENDS Integers, Sequences, FiniteSets, SequencesExt

CONSTANTS
  Messages,    \* the bodies: sequences of parts
  Sizes,       \* sizes of read_chunk()
  MayBeCut,    \* whether the connection may be lost before the end
  LeavesLines  \* whether a part that is read by lines may be left before its end

VARIABLES
  message,  \* the parts that were written
  cut,      \* whether the end is missing
  content,  \* the StreamReader: left (what is still to be read), have (how much
            \* of it has arrived), fed (feed_eof() has been called)
  readers,  \* MultipartReaders, the innermost last: boundary, bof (_at_bof), unread
  part,     \* the BodyPartReader in use
  chunk,    \* what _read_chunk_from_stream() has gathered
  size,     \* its argument
  pc,       \* "next", "part", "fill" (inside read_chunk), "done", "error"
  got       \* parts that were read to their end: their data, or Skipped

vars == <<message, cut, content, readers, part, chunk, size, pc, got>>

CRLF == <<"C", "L">>
Outer == <<"-", "b">>
Inner == <<"-", "c">>
Skipped == <<"skipped">>
-----------------------------------------------------------------------------
(* MultipartWriter.write().                                                *)

\* A part is [body, length (it has a Content-Length), within, crlf]: within the
\* parts of a body in it; crlf says that an empty line follows that, as this
\* writer has it; RFC 2046 does not ask for it.
LengthLine == <<"len0", "len1", "len2", "len3", "len4">>
Header(p) == IF p.within # <<>> THEN <<"multipart">> ELSE IF p.length THEN <<LengthLine[Len(p.body) + 1]>> ELSE <<"header">>
Written(b, p, body, end) == b \o CRLF \o Header(p) \o CRLF \o CRLF \o body \o end
Closed(b) == b \o <<"-">> \o CRLF

Leaves(parts) == FlattenSeq([i \in DOMAIN parts |-> IF parts[i].within = <<>> THEN <<parts[i]>> ELSE parts[i].within])
Flat(b, parts) == FlattenSeq([i \in DOMAIN parts |-> Written(b, parts[i], parts[i].body, CRLF)]) \o Closed(b)
Wire(parts) ==
  FlattenSeq([i \in DOMAIN parts |->
      IF parts[i].within = <<>> THEN Written(Outer, parts[i], parts[i].body, CRLF)
      ELSE Written(Outer, parts[i], Flat(Inner, parts[i].within), IF parts[i].crlf THEN CRLF ELSE <<>>)]) \o Closed(Outer)
-----------------------------------------------------------------------------
(* Reading lines.                                                          *)

\* StreamReader.read(n), after some of the rest has arrived, or all and the end:
\* at most n of it, and it waits for the first.
Arrivals(c) ==
  {[c EXCEPT !.have = Len(c.left), !.fed = TRUE]}
  \cup {[c EXCEPT !.have = have] : have \in {h \in c.have..Len(c.left) : h > 0 /\ ~c.fed}}
Read(c, n) ==
  LET k == IF n < c.have THEN n ELSE c.have
  IN  [data |-> SubSeq(c.left, 1, k), c |-> [c EXCEPT !.left = SubSeq(@, k + 1, Len(@)), !.have = @ - k]]
Reads(c, n) == {Read(a, n) : a \in Arrivals(c)}
AtEof(c) == c.fed /\ c.left = <<>>
Unread(c, data) == [c EXCEPT !.left = data \o @, !.have = @ + Len(data)]

\* readline(): it waits for the line end, or for the end.
LineOf(s) == IF Contains(s, "L") THEN SubSeq(s, 1, CHOOSE n \in DOMAIN s : s[n] = "L" /\ "L" \notin ToSet(SubSeq(s, 1, n - 1))) ELSE s
Line(c) == LineOf(c.left)
After(c, line) == [c EXCEPT !.left = SubSeq(@, Len(line) + 1, Len(@)), !.have = IF @ > Len(line) THEN @ - Len(line) ELSE 0]
RECURSIVE Stripped(_)
Stripped(line) == IF line # <<>> /\ Last(line) \in {"C", "L"} THEN Stripped(Front(line)) ELSE line

\* MultipartReader._readline(): what was put back comes first, the last of it.
Taken(s) ==
  IF s.unread # <<>> THEN [s EXCEPT !.line = Last(s.unread), !.unread = Front(@)]
  ELSE [s EXCEPT !.line = Line(s.c), !.c = After(s.c, Line(s.c))]
State(r) == [unread |-> r.unread, c |-> content, line |-> <<>>, found |-> "part"]

\* _read_until_first_boundary()
RECURSIVE FirstBoundary(_, _)
FirstBoundary(b, s) ==
  LET t == Taken(s)
      line == Stripped(t.line)
  IN  IF t.line = <<>> THEN [t EXCEPT !.found = "error"]
      ELSE IF line = b THEN t ELSE IF line = b \o <<"-">> THEN [t EXCEPT !.found = "end"] ELSE FirstBoundary(b, t)

\* _read_boundary(): after the last boundary an epilogue and a line are read.
NextBoundary(b, s) ==
  LET t == Taken(s)
      epilogue == Taken(t)
      next == Taken(epilogue)
      back == IF next.line # <<>> /\ next.line[1] = "-" THEN <<next.line>> ELSE <<next.line, epilogue.line>>
  IN  IF Stripped(t.line) = b THEN t
      ELSE IF Stripped(t.line) # b \o <<"-">> THEN [t EXCEPT !.found = "error"]
      ELSE [next EXCEPT !.found = "end", !.unread = @ \o back]

\* _read_headers(): from the content, whatever was put back.
RECURSIVE Headers(_)
Headers(c) ==
  LET line == Line(c)
      rest == Headers(After(c, line))
  IN  IF Stripped(line) = <<>> THEN [lines |-> {}, c |-> After(c, line)]
      ELSE [rest EXCEPT !.lines = @ \cup {Stripped(line)}]
-----------------------------------------------------------------------------
Reader(b) == [boundary |-> b, bof |-> TRUE, unread |-> <<>>]
Length(lines) == LET ns == {n \in DOMAIN LengthLine : <<LengthLine[n]>> \in lines} IN IF ns = {} THEN -1 ELSE (CHOOSE n \in ns : TRUE) - 1
Part(b, lines) ==
  [boundary |-> b, first |-> TRUE, prev |-> <<>>, eofs |-> 0, over |-> FALSE, length |-> Length(lines), count |-> 0,
   unread |-> <<>>, data |-> <<>>, byLine |-> FALSE, left |-> FALSE]

Init ==
  /\ message \in Messages
  /\ \E n \in 0..Len(Wire(message)) :
       /\ n > 0 => MayBeCut
       /\ cut = (n > 0)
       /\ content = [left |-> SubSeq(Wire(message), 1, Len(Wire(message)) - n), have |-> 0, fed |-> FALSE]
  /\ readers = <<Reader(Outer)>> /\ part = Part(Outer, {}) /\ chunk = <<>> /\ size = 0
  /\ pc = "next" /\ got = <<>>

Fails == pc' = "error" /\ UNCHANGED <<message, cut, content, readers, part, chunk, size, got>>

\* MultipartReader.next() of the innermost reader, when the last part is over.
Next_ ==
  LET r == Last(readers)
      n == Len(readers)
      s == IF r.bof THEN FirstBoundary(r.boundary, State(r)) ELSE NextBoundary(r.boundary, State(r))
      h == Headers(s.c)
      here == [r EXCEPT !.bof = FALSE, !.unread = s.unread]
  IN  /\ pc = "next" /\ s.found # "error"
      /\ IF s.found = "end"
         THEN /\ content' = s.c /\ part' = part
              /\ IF n = 1 THEN pc' = "done" /\ readers' = <<here>>
                 \* the outer reader goes on, with what was put back
                 ELSE pc' = "next" /\ readers' = [Front(readers) EXCEPT ![n - 1].unread = @ \o s.unread]
         ELSE /\ content' = h.c
              /\ IF <<"multipart">> \in h.lines
                 THEN pc' = "next" /\ part' = part /\ readers' = Append([readers EXCEPT ![n] = here], Reader(Inner))
                 ELSE pc' = "part" /\ part' = Part(r.boundary, h.lines) /\ readers' = [readers EXCEPT ![n] = here]
      /\ UNCHANGED <<message, cut, chunk, size, got>>

NextFails ==
  LET r == Last(readers)
      s == IF r.bof THEN FirstBoundary(r.boundary, State(r)) ELSE NextBoundary(r.boundary, State(r))
  IN  pc = "next" /\ s.found = "error" /\ Fails

\* The end of a part: next() takes over what the part has put back.
Finished(p, c) ==
  /\ pc' = "next" /\ content' = c /\ part' = p /\ chunk' = <<>>
  /\ got' = Append(got, IF p.left THEN Skipped ELSE p.data)
  /\ readers' = [readers EXCEPT ![Len(readers)].unread = @ \o p.unread]

\* The end of read_chunk(): after the last one there is a line end.
Ends(p, result, c) ==
  LET count == p.count + Len(result)
      q == [p EXCEPT !.count = count, !.data = @ \o result, !.over = (@ \/ count = p.length)]
  IN  IF ~q.over THEN pc' = "part" /\ content' = c /\ part' = q /\ chunk' = <<>> /\ UNCHANGED <<readers, got>>
      ELSE IF Line(c) = CRLF THEN Finished(q, After(c, CRLF))
      ELSE pc' = "error" /\ content' = c /\ part' = q /\ chunk' = <<>> /\ UNCHANGED <<readers, got>>

\* _read_chunk_from_length()
ReadLength(n) ==
  /\ pc = "part" /\ part.length > 0
  /\ \E x \in Reads(content, IF n < part.length - part.count THEN n ELSE part.length - part.count) :
       Ends([part EXCEPT !.over = AtEof(x.c)], x.data, x.c)
  /\ UNCHANGED <<message, cut, size>>

\* _read_chunk_from_stream(): the first piece gets the line end back that the
\* headers took.
ReadStream(n) ==
  /\ pc = "part" /\ part.length <= 0
  /\ pc' = "fill" /\ size' = n
  /\ IF part.first
     THEN \E x \in Reads(content, n) : part' = [part EXCEPT !.prev = CRLF \o x.data] /\ content' = x.c
     ELSE UNCHANGED <<part, content>>
  /\ UNCHANGED <<message, cut, readers, chunk, got>>

\* Where the delimiter begins in a window, from some place on; 0 if nowhere.
Find(window, sub, from) ==
  LET at == {i \in from..(Len(window) - Len(sub) + 1) : SubSeq(window, i, i + Len(sub) - 1) = sub}
  IN  IF at = {} THEN 0 ELSE CHOOSE i \in at : \A j \in at : i <= j

\* The window of the last chunk and this one is searched, with the part of the
\* last one that a delimiter may have begun in.
SearchFrom_ThisChunk(p) == IF p.first THEN 1 ELSE Len(p.prev) + 1  \* mutant
SearchFrom(p) == IF p.first \/ Len(p.prev) < Len(p.boundary) + 2 THEN 1 ELSE Len(p.prev) - Len(p.boundary) - 1
Scan(p, all, c) ==
  LET sub == CRLF \o p.boundary
      gathered == IF Len(all) > size THEN SubSeq(all, 1, size) ELSE all
      window == p.prev \o gathered
      idx == Find(window, sub, SearchFrom(p))
      prev == IF idx > 0 THEN SubSeq(p.prev, 1, IF idx - 1 < Len(p.prev) THEN idx - 1 ELSE Len(p.prev)) ELSE p.prev
      next == IF idx > 0 THEN SubSeq(window, Len(prev) + 1, idx - 1) ELSE gathered
      result == IF p.first THEN SubSeq(prev, 3, Len(prev)) ELSE prev
  IN  Ends([p EXCEPT !.first = FALSE, !.prev = next, !.over = (idx > 0 /\ next = <<>>)], result,
           Unread(c, (IF idx > 0 THEN SubSeq(window, idx, Len(window)) ELSE <<>>) \o SubSeq(all, Len(gathered) + 1, Len(all))))

Fill ==
  /\ pc = "fill"
  /\ \E x \in Reads(content, size) :
       LET all == chunk \o x.data
           eofs == part.eofs + IF AtEof(x.c) THEN 1 ELSE 0
           p == [part EXCEPT !.eofs = eofs]
       IN  IF eofs > 2  \* "Reading after EOF"
           THEN pc' = "error" /\ content' = x.c /\ part' = p /\ chunk' = <<>> /\ UNCHANGED <<readers, got>>
           ELSE IF eofs = 0 /\ Len(all) < Len(part.boundary) + 2
           THEN chunk' = all /\ content' = x.c /\ part' = p /\ UNCHANGED <<pc, readers, got>>
           ELSE Scan(p, all, x.c)
  /\ UNCHANGED <<message, cut, size>>

\* readline(): it looks one line ahead.
ReadLine ==
  /\ pc = "part" /\ ~part.left /\ (part.byLine \/ (part.count = 0 /\ part.first))
  /\ LET ahead == part.unread # <<>>
         line == IF ahead THEN Head(part.unread) ELSE Line(content)
         rest == IF ahead THEN content ELSE After(content, line)
         next == Line(rest)
         p == [part EXCEPT !.byLine = TRUE, !.unread = IF ahead THEN Tail(@) ELSE @]
     IN  IF IsPrefix(p.boundary, line)
         THEN IF Stripped(line) \in {p.boundary, p.boundary \o <<"-">>}
              THEN Finished([p EXCEPT !.unread = Append(@, line)], rest)
              ELSE part' = [p EXCEPT !.data = @ \o line] /\ content' = rest /\ UNCHANGED <<pc, chunk, readers, got>>
         ELSE /\ part' = [p EXCEPT !.unread = Append(@, next),
                                   !.data = @ \o IF IsPrefix(p.boundary, next) THEN SubSeq(line, 1, Len(line) - 2) ELSE line]
              /\ content' = After(rest, next) /\ UNCHANGED <<pc, chunk, readers, got>>
  /\ UNCHANGED <<message, cut, size>>

\* next() before the end of a part: release() reads the rest of it.
Leave ==
  /\ pc = "part" /\ ~part.left
  /\ part.byLine => LeavesLines \/ part.unread = <<<<>>>>  \* or readline() has met the end
  /\ part' = [part EXCEPT !.left = TRUE]
  /\ UNCHANGED <<message, cut, content, readers, chunk, size, pc, got>>

ReadChunk == \E n \in Sizes : (part.byLine => part.left) /\ (ReadLength(n) \/ ReadStream(n))

Stop == pc \in {"done", "error"} /\ UNCHANGED vars
Next == Next_ \/ NextFails \/ ReadChunk \/ Fill \/ ReadLine \/ Leave \/ Stop

Spec == Init /\ [][Next]_vars
-----------------------------------------------------------------------------
(* Properties.                                                             *)

\* However the bytes arrive, the parts that are read are the parts that were
\* written, in their order, and nothing is lost or left over at the end; a body
\* that is not cut is read without an error.
PartsIntact ==
  LET leaves == Leaves(message)
  IN  /\ Len(got) <= Len(leaves)
      /\ \A i \in DOMAIN got : got[i] \in {Skipped, leaves[i].body}
      /\ pc = "done" => Len(got) = Len(leaves)
      /\ pc = "error" => cut

\* "this handles the old behavior gracefully" (multipart.py): a body within a
\* body need not be followed by an empty line.  The headers of the part that
\* follows are put back with its boundary, and read from the content.
NoEpilogueNeeded == PartsIntact
=============================================================================
