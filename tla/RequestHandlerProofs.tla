------------------------ MODULE RequestHandlerProofs ------------------------
(***************************************************************************)
(* Proofs about RequestHandler, for every script, queue and buffer limit   *)
(* and either parser: responses come in the order of the requests, nobody  *)
(* leaves a connection open that is not served, and whoever waits for the  *)
(* peer has been given all that it sent.                                   *)
(*                                                                         *)
(* The state is one record, so what an operator does to it is stated once, *)
(* as the fields it may change (Same) and what they become; the proofs     *)
(* about the actions use only that.                                        *)
(***************************************************************************)
EXTENDS RequestHandler, QueueLemmas

(* ------------------------- the inductive invariant ---------------------- *)

Fields ==
  {"tr", "attached", "tpaused", "rpaused", "qpaused", "arrived", "parsed", "heads", "done", "todo",
   "inflight", "ppaused", "stop", "failed", "new", "msgs", "buf", "eof", "exc", "wake", "waiter",
   "pc", "cur", "h", "keep", "keepalive", "timer", "moved", "closing", "force", "inprog", "hw",
   "task", "cancel", "answered", "shut"}

Shape(s) == DOMAIN s = Fields /\ s = [f \in Fields |-> s[f]]

\* Nothing has changed but the fields of F.
Same(t, s, F) == \A f \in Fields \ F : t[f] = s[f]

TransportTyped(s) ==
  /\ s.tr \in {"open", "closed", "lost"}
  /\ s.attached \in BOOLEAN /\ s.tpaused \in BOOLEAN /\ s.rpaused \in BOOLEAN /\ s.qpaused \in BOOLEAN
ParserTyped(s) ==
  /\ s.arrived \in Nat /\ s.parsed \in Nat /\ s.heads \in Nat /\ s.done \in Nat /\ s.todo \in Nat
  /\ s.inflight \in Nat /\ s.ppaused \in BOOLEAN /\ s.stop \in BOOLEAN /\ s.failed \in BOOLEAN
QueuesTyped(s) == s.new \in Seq(Requests) /\ s.msgs \in Seq(Requests) /\ s.answered \in Seq(Requests)
BodiesTyped(s) ==
  /\ s.buf \in [Requests -> Nat] /\ s.eof \in [Requests -> BOOLEAN] /\ s.wake \in BOOLEAN
  /\ s.exc \in [Requests -> {"none", "access", "lost", "cancel"}]
StartTyped(s) ==
  /\ s.waiter \in {"none", "pending", "set", "cancelled"}
  /\ s.pc \in {"waiter", "handler", "linger", "ended"} /\ s.cur \in Requests \cup {0}
  /\ s.h \in {"none", "running", "reading", "writing", "ok", "reset", "error", "cancelled"}
FlagsTyped(s) ==
  /\ s.keep \in BOOLEAN /\ s.keepalive \in BOOLEAN /\ s.timer \in BOOLEAN /\ s.moved \in BOOLEAN
  /\ s.closing \in BOOLEAN /\ s.force \in BOOLEAN /\ s.inprog \in BOOLEAN
  /\ s.hw \in {"none", "pending", "set", "cancelled"} /\ s.task \in BOOLEAN /\ s.cancel \in BOOLEAN
  /\ s.shut \in {"no", "pre", "graceful", "cancel", "wait", "done"}
Typed(s) ==
  /\ Shape(s) /\ TransportTyped(s) /\ ParserTyped(s) /\ QueuesTyped(s) /\ BodiesTyped(s)
  /\ StartTyped(s) /\ FlagsTyped(s)

Busy == {"running", "reading", "writing"}
Malformed(r) == script[r].bad

\* Where start() and the request's task are together.
Phases(s) ==
  /\ s.pc = "waiter" <=> s.waiter # "none"
  /\ s.pc \in {"handler", "linger"} <=> s.cur # 0
  /\ s.pc = "handler" <=> s.h # "none"
  /\ s.inprog <=> s.h \in Busy

\* How far the parser is: between two requests, or in the body of one.
Position(s) ==
  /\ s.done <= s.heads /\ s.heads <= s.done + 1 /\ s.heads <= Len(script)
  /\ s.parsed + s.todo = Sent[s.heads] /\ s.parsed <= s.arrived /\ s.arrived <= Wire
  /\ s.heads = s.done => s.todo = 0
  /\ s.todo > 0 => script[s.heads].body > 0

\* A body has its end when the parser is through with it, or has nothing in it.
Bodies(s) ==
  /\ \A r \in Requests : r <= s.done => s.eof[r]
  /\ \A r \in Requests : r > s.done => (s.eof[r] <=> script[r].body = 0)

\* The reader of a body is behind.
Behind(s) ==
  /\ s.rpaused => s.heads > s.done /\ ~s.eof[s.heads] /\ s.buf[s.heads] > 0
  /\ parser = "extension" => ~s.ppaused

\* Paused for each of the two reasons, and only for them.
PausedFor(s) == s.attached /\ (s.rpaused \/ s.qpaused) => s.tpaused
OnlyFor(s) == s.attached /\ s.tpaused => s.rpaused \/ s.qpaused

\* A parser in a body that does not wait for its reader has seen all that came.
\* One between two requests has too, unless the queue is full or the parser
\* counts more requests in it than there are.
Resumed(s) ==
  ~s.closing /\ ~s.force /\ ~s.failed =>
    /\ s.heads > s.done => (s.rpaused \/ s.parsed = s.arrived) /\ ~s.eof[s.heads]
    /\ s.heads = s.done /\ s.parsed < s.arrived => s.qpaused \/ s.inflight > Len(s.msgs)

\* The parser counts every request in the queue, or is about to.
Counts(s) ==
  ~s.failed =>
    /\ parser = "python" => Len(s.msgs) + Len(s.new) <= s.inflight
    /\ parser = "extension" => Len(s.msgs) + Len(s.new) <= s.inflight + (s.heads - s.done)
Full(s) == s.qpaused => Len(s.msgs) > MaxQueue \div 2

\* The queue goes on where start() is, b requests into the script; only a
\* malformed request may come early, and more than once.
Queued(s, b) ==
  /\ \A j \in 1..Len(s.msgs) :
       \/ s.msgs[j] = b + j
       \/ Malformed(s.msgs[j]) /\ (b + j <= s.msgs[j] \/ (j > 1 /\ Malformed(s.msgs[j - 1])))
  /\ ~s.failed => s.heads = b + Len(s.msgs)
  /\ s.failed => Len(s.msgs) > 0 /\ Malformed(s.msgs[Len(s.msgs)])

\* A parser that has failed is at the malformed request, and starts no other.
Failed(s) == s.failed => s.heads \in Requests /\ Malformed(s.heads)

\* Requests that start() has taken off the queue, as long as it takes more.
Taken(s) == Len(s.answered) + IF s.h \in Busy THEN 1 ELSE 0
Clean(s) == \A i \in 1..Len(s.answered) : s.answered[i] = i /\ ~Malformed(i)
Live(s) ==
  /\ s.pc # "ended" /\ s.h \notin {"reset", "error", "cancelled"}
  /\ Clean(s) /\ (s.cur # 0 => ~Malformed(s.cur))

Answers(s) ==
  \A i \in 1..Len(s.answered) :
    s.answered[i] = i \/ (Malformed(s.answered[i]) /\ i = Len(s.answered) /\ i <= s.answered[i])

\* The request that is handled comes next.
Handled(s) ==
  /\ s.pc = "waiter" => Clean(s)
  /\ s.h \in Busy =>
       /\ Clean(s)
       /\ \/ s.cur = Len(s.answered) + 1 /\ ~Malformed(s.cur)
          \/ Malformed(s.cur) /\ Len(s.answered) + 1 <= s.cur /\ s.h = "writing" /\ ~s.keep
  /\ s.h = "ok" =>
       \/ s.cur = Len(s.answered) /\ Clean(s) /\ ~Malformed(s.cur)
       \/ Malformed(s.cur) /\ ~s.keep
  /\ s.pc = "linger" => s.cur = Len(s.answered) /\ Clean(s) /\ ~Malformed(s.cur)

Upcoming(s) == Live(s) => Queued(s, Taken(s))

\* Who waits for a request.
Waiting(s) ==
  /\ s.waiter = "pending" => Len(s.msgs) = 0 /\ (~s.closing /\ ~s.force => s.heads = s.done)
  /\ s.waiter = "set" => Len(s.msgs) > 0

\* Who has left the transport open.
Open(s) ==
  s.tr = "open" =>
    /\ s.attached /\ s.shut # "done" /\ ~s.cancel
    /\ s.force \/ s.waiter = "cancelled" \/ s.pc = "ended" => s.shut # "no"

\* What the parser leaves, whoever called it.
Parsed(s) ==
  /\ Typed(s) /\ s.new = <<>> /\ ~s.stop
  /\ Position(s) /\ Bodies(s) /\ Behind(s) /\ PausedFor(s) /\ Resumed(s) /\ Counts(s) /\ Failed(s)

Sound(s) ==
  /\ Parsed(s) /\ OnlyFor(s) /\ Full(s)
  /\ Phases(s) /\ Answers(s) /\ Handled(s) /\ Upcoming(s) /\ Waiting(s) /\ Open(s)

Inv == parser \in Parsers /\ script \in Scripts /\ Sound(c)

(* ------------------------------ the script ------------------------------ *)

\* What the constants and a script give.
Given ==
  /\ parser \in {"python", "extension"} /\ MaxQueue \in Nat \ {0} /\ Limit \in Nat \ {0}
  /\ Len(script) \in Nat /\ Requests = 1..Len(script)
  /\ \A r \in Requests : /\ script[r].body \in Nat /\ script[r].bad \in BOOLEAN
                         /\ Malformed(r) => r = Len(script) /\ script[r].body = 0
  /\ Sent \in [0..Len(script) -> Nat] /\ Sent[0] = 0
  /\ \A r \in Requests : Sent[r] = Sent[r - 1] + 1 + script[r].body

\* What is sent is a number, which grows with each request.
LEMMA SentType ==
  ASSUME script \in Seq([body : Nat, last : BOOLEAN, bad : BOOLEAN])
  PROVE  /\ Sent \in [0..Len(script) -> Nat]
         /\ Sent[0] = 0
         /\ \A i \in 1..Len(script) : Sent[i] = Sent[i - 1] + 1 + script[i].body
<1> DEFINE F == [i \in 1..Len(script) |-> [x \in Nat |-> x + 1 + script[i].body]]
           Eq(g) == g = [i \in 0..Len(script) |-> IF i = 0 THEN 0 ELSE g[i - 1] + 1 + script[i].body]
<1>0. Len(script) \in Nat /\ 0 \in Nat
  OBVIOUS
<1>1. \A i \in 1..Len(script) : script[i].body \in Nat
  <2> DEFINE R == [body : Nat, last : BOOLEAN, bad : BOOLEAN]
  <2>1. \A r \in R : r.body \in Nat
    OBVIOUS
  <2>2. \A i \in 1..Len(script) : script[i] \in R
    BY ElementOfSeq
  <2> QED BY <2>1, <2>2
<1>2. \A i \in 1..Len(script) : \A x \in Nat : F[i][x] = x + 1 + script[i].body
  OBVIOUS
<1>7. F \in [1..Len(script) -> [Nat -> Nat]]
  BY <1>1
<1> HIDE DEF F
<1>13. PICK g : Follows(g, 0, F, Len(script), Nat)
  BY <1>0, <1>7, BoundedRecursion DEF Steps
<1>3. g \in [0..Len(script) -> Nat] /\ g[0] = 0 /\ \A i \in 1..Len(script) : g[i] = F[i][g[i - 1]]
  BY <1>13 DEF Follows
<1>4. Eq(g)
  <2>1. ASSUME NEW i \in 0..Len(script) PROVE g[i] = IF i = 0 THEN 0 ELSE g[i - 1] + 1 + script[i].body
    <3>1. CASE i = 0
      BY <1>3, <3>1
    <3>2. CASE i # 0
      <4>1. i \in 1..Len(script) /\ i - 1 \in 0..Len(script) /\ g[i - 1] \in Nat
        BY <1>0, <1>3, <3>2
      <4>2. g[i] = F[i][g[i - 1]] /\ F[i][g[i - 1]] = g[i - 1] + 1 + script[i].body
        BY <1>2, <1>3, <4>1
      <4> QED BY <3>2, <4>2
    <3> QED BY <3>1, <3>2
  <2>2. g = [i \in 0..Len(script) |-> g[i]]
    BY <1>3
  <2> QED BY <2>1, <2>2
<1>5. Eq(Sent)
  <2>1. Sent = CHOOSE f : Eq(f)
    BY DEF Sent
  <2> HIDE DEF Eq
  <2> QED BY <1>4, <2>1
<1> HIDE DEF Eq
<1>6. \A i \in 0..Len(script) : Sent[i] \in Nat
  <2> DEFINE S == {i \in Nat : Sent[i] \in Nat}
  <2>1. 0 \in S
    BY <1>0, <1>5 DEF Eq
  <2>2. ASSUME NEW n \in 0..Len(script), n # Len(script), n \in S PROVE n + 1 \in S
    <3>1. n + 1 \in 1..Len(script) /\ n + 1 \in 0..Len(script) /\ (n + 1) - 1 = n
      BY <1>0, <2>2
    <3>2. Sent[n + 1] = Sent[n] + 1 + script[n + 1].body
      BY <1>5, <3>1 DEF Eq
    <3> QED BY <1>1, <2>2, <3>1, <3>2
  <2> HIDE DEF S
  <2>3. 0..Len(script) \subseteq S
    BY <1>0, <2>1, <2>2, BoundedInduction
  <2> QED BY <2>3 DEF S
<1>8. Sent = [i \in 0..Len(script) |-> Sent[i]]
  BY <1>5 DEF Eq
<1>9. Sent \in [0..Len(script) -> Nat]
  BY <1>6, <1>8
<1>10. Sent[0] = 0
  BY <1>0, <1>5 DEF Eq
<1>11. \A i \in 1..Len(script) : i \in 0..Len(script) /\ i # 0
  BY <1>0
<1>12. \A i \in 1..Len(script) : Sent[i] = Sent[i - 1] + 1 + script[i].body
  BY <1>5, <1>11 DEF Eq
<1> QED BY <1>9, <1>10, <1>12

\* The assumption on the constants gives all that is used of a script.
LEMMA ScriptFacts ==
  ASSUME parser \in Parsers, script \in Scripts
  PROVE  Given
<1>1. /\ script \in Seq([body : Nat, last : BOOLEAN, bad : BOOLEAN])
      /\ \A i \in DOMAIN script : script[i].last \/ script[i].bad => i = Len(script)
      /\ \A i \in DOMAIN script : script[i].bad => script[i].body = 0
      /\ parser \in {"python", "extension"} /\ MaxQueue \in Nat \ {0} /\ Limit \in Nat \ {0}
  BY ServerAssumption
<1>2. Len(script) \in Nat /\ Requests = 1..Len(script)
  BY <1>1 DEF Requests
<1>3. \A r \in Requests : script[r].body \in Nat /\ script[r].bad \in BOOLEAN
  <2> DEFINE R == [body : Nat, last : BOOLEAN, bad : BOOLEAN]
  <2>1. \A r \in R : r.body \in Nat /\ r.bad \in BOOLEAN
    OBVIOUS
  <2>2. \A i \in 1..Len(script) : script[i] \in R
    BY <1>1, ElementOfSeq
  <2> QED BY <1>2, <2>1, <2>2
<1>4. \A r \in Requests : Malformed(r) => r = Len(script) /\ script[r].body = 0
  BY <1>1 DEF Requests, Malformed
<1> HIDE DEF Malformed
<1> QED BY <1>1, <1>2, <1>3, <1>4, SentType DEF Given

(* ------------------------------- the record ----------------------------- *)

\* The typed groups are the type of the record, in parts.
LEMMA TypedIsConnection ==
  ASSUME NEW s
  PROVE  Typed(s) <=> s \in Connections
<1> USE DEF Connections, Shape, Fields, TransportTyped, ParserTyped, QueuesTyped, BodiesTyped,
            StartTyped, FlagsTyped
<1>1. Typed(s) => s \in Connections
  BY DEF Typed
<1>2. ASSUME s \in Connections PROVE Typed(s)
  <2>1. Shape(s) /\ TransportTyped(s) BY <1>2
  <2>2. ParserTyped(s) /\ QueuesTyped(s) BY <1>2
  <2>3. BodiesTyped(s) /\ StartTyped(s) BY <1>2
  <2>4. FlagsTyped(s) BY <1>2
  <2> QED BY <2>1, <2>2, <2>3, <2>4 DEF Typed
<1> QED BY <1>1, <1>2

(* ------------------- pausing the transport, and a body ------------------ *)

\* Pausing the transport, if there is one.
LEMMA PauseFields ==
  ASSUME NEW s, Shape(s), TransportTyped(s)
  PROVE  LET t == PauseTransport(s)
         IN  /\ Shape(t) /\ Same(t, s, {"tpaused"}) /\ t.tpaused \in BOOLEAN
             /\ t.tpaused <=> s.tpaused \/ s.attached
<1> USE DEF PauseTransport
<1>1. CASE s.attached
  <2>1. Shape(PauseTransport(s)) BY <1>1 DEF Shape
  <2>2. Same(PauseTransport(s), s, {"tpaused"}) BY <1>1 DEF Shape, Same
  <2>3. PauseTransport(s).tpaused = TRUE BY <1>1 DEF Shape, Fields
  <2> QED BY <1>1, <2>1, <2>2, <2>3
<1>2. CASE ~s.attached
  BY <1>2 DEF Same, TransportTyped
<1> QED BY <1>1, <1>2

\* Resuming it needs both reasons gone.
LEMMA ResumeFields ==
  ASSUME NEW s, Shape(s), TransportTyped(s)
  PROVE  LET t == ResumeTransport(s)
         IN  /\ Shape(t) /\ Same(t, s, {"tpaused"}) /\ t.tpaused \in BOOLEAN
             /\ t.tpaused <=> s.tpaused /\ (s.attached => s.rpaused \/ s.qpaused)
<1> USE DEF ResumeTransport
<1>1. CASE s.attached /\ ~s.rpaused /\ ~s.qpaused
  <2>1. Shape(ResumeTransport(s)) BY <1>1 DEF Shape
  <2>2. Same(ResumeTransport(s), s, {"tpaused"}) BY <1>1 DEF Shape, Same
  <2>3. ResumeTransport(s).tpaused = FALSE BY <1>1 DEF Shape, Fields
  <2> QED BY <1>1, <2>1, <2>2, <2>3
<1>2. CASE ~(s.attached /\ ~s.rpaused /\ ~s.qpaused)
  BY <1>2 DEF Same, TransportTyped
<1> QED BY <1>1, <1>2

\* What FeedBody and AfterPiece do together: the parser stops only when the
\* reader is too far behind.
Piece(s, n) == AfterPiece(FeedBody(s, n))

\* A piece of body: the stream grows, and pauses the transport when it is over its limit.
LEMMA PieceFields ==
  ASSUME Given, NEW s, Typed(s), ~s.stop, s.heads \in Requests, NEW n \in 0..s.todo,
         parser = "extension" => ~s.ppaused
  PROVE  LET t == Piece(s, n)
         IN  /\ Shape(t)
             /\ Same(t, s, {"parsed", "todo", "buf", "wake", "rpaused", "ppaused", "tpaused", "stop"})
             /\ t.parsed = s.parsed + n /\ t.todo = s.todo - n
             /\ t.buf \in [Requests -> Nat] /\ t.buf[s.heads] = s.buf[s.heads] + n
             /\ t.wake \in BOOLEAN /\ t.rpaused \in BOOLEAN /\ t.tpaused \in BOOLEAN
             /\ t.ppaused \in BOOLEAN /\ t.stop \in BOOLEAN
             /\ parser = "extension" => ~t.ppaused
             /\ t.stop => t.rpaused
             /\ \/ t.rpaused /\ t.buf[s.heads] > 0 /\ (t.tpaused <=> s.tpaused \/ s.attached)
                \/ (t.rpaused <=> s.rpaused) /\ (t.tpaused <=> s.tpaused)
<1> DEFINE fed == [s EXCEPT !.parsed = @ + n, !.todo = @ - n, !.buf[s.heads] = @ + n,
                            !.wake = @ \/ s.cur = s.heads]
           over == [fed EXCEPT !.rpaused = TRUE, !.ppaused = TRUE]
           After(x) == [x EXCEPT !.ppaused = FALSE, !.stop = TRUE]
<1>0. /\ s.parsed \in Nat /\ s.todo \in Nat /\ s.buf \in [Requests -> Nat] /\ s.wake \in BOOLEAN
      /\ s.rpaused \in BOOLEAN /\ s.ppaused \in BOOLEAN /\ s.stop = FALSE /\ s.tpaused \in BOOLEAN
      /\ s.attached \in BOOLEAN /\ s.qpaused \in BOOLEAN /\ Shape(s) /\ s.tr \in {"open", "closed", "lost"}
  BY DEF Typed, ParserTyped, BodiesTyped, TransportTyped
<1>1. /\ Shape(fed) /\ Same(fed, s, {"parsed", "todo", "buf", "wake"})
      /\ fed.parsed = s.parsed + n /\ fed.todo = s.todo - n
      /\ fed.wake = (s.wake \/ s.cur = s.heads)
      /\ fed.buf = [s.buf EXCEPT ![s.heads] = @ + n]
  <2>1. Shape(fed) BY <1>0 DEF Shape
  <2>2. Same(fed, s, {"parsed", "todo", "buf", "wake"}) BY <1>0 DEF Shape, Same
  <2>3. fed.parsed = s.parsed + n /\ fed.todo = s.todo - n BY <1>0 DEF Shape, Fields
  <2>4. fed.wake = (s.wake \/ s.cur = s.heads) BY <1>0 DEF Shape, Fields
  <2>5. fed.buf = [s.buf EXCEPT ![s.heads] = @ + n] BY <1>0 DEF Shape, Fields
  <2> HIDE DEF fed
  <2> QED BY <2>1, <2>2, <2>3, <2>4, <2>5
<1>2. fed.buf \in [Requests -> Nat] /\ fed.buf[s.heads] = s.buf[s.heads] + n
  <2> HIDE DEF fed
  <2> QED BY <1>0, <1>1
<1>3. FeedBody(s, n) = IF fed.buf[s.heads] > 2 * Limit THEN PauseTransport(over) ELSE fed
  BY DEF FeedBody
<1> HIDE DEF fed
<1>4. fed.wake \in BOOLEAN /\ TransportTyped(fed)
      /\ fed.tpaused = s.tpaused /\ fed.rpaused = s.rpaused /\ fed.ppaused = s.ppaused
      /\ fed.attached = s.attached /\ fed.stop = s.stop
  BY <1>0, <1>1 DEF Same, Fields, TransportTyped
<1>5. CASE ~(fed.buf[s.heads] > 2 * Limit)
  <2>1. FeedBody(s, n) = fed /\ AfterPiece(fed) = fed
    BY <1>0, <1>3, <1>4, <1>5 DEF AfterPiece
  <2>2. Same(fed, s, {"parsed", "todo", "buf", "wake", "rpaused", "ppaused", "tpaused", "stop"})
    BY <1>1 DEF Same
  <2> QED BY <1>0, <1>1, <1>2, <1>4, <2>1, <2>2 DEF Piece
<1>6. CASE fed.buf[s.heads] > 2 * Limit
  <2>1. /\ Shape(over) /\ Same(over, fed, {"rpaused", "ppaused"})
        /\ over.rpaused = TRUE /\ over.ppaused = TRUE
    <3>1. Shape(over) BY <1>1 DEF Shape
    <3>2. Same(over, fed, {"rpaused", "ppaused"}) BY <1>1 DEF Shape, Same
    <3>3. over.rpaused = TRUE /\ over.ppaused = TRUE BY <1>1 DEF Shape, Fields
    <3> HIDE DEF over
    <3> QED BY <3>1, <3>2, <3>3
  <2> HIDE DEF over
  <2>2. TransportTyped(over) /\ over.attached = fed.attached /\ over.tpaused = fed.tpaused
    BY <1>4, <2>1 DEF Same, Fields, TransportTyped
  <2> DEFINE p == PauseTransport(over)
  <2>3. /\ Shape(p) /\ Same(p, over, {"tpaused"}) /\ p.tpaused \in BOOLEAN
        /\ p.tpaused <=> s.tpaused \/ s.attached
    BY <1>4, <2>1, <2>2, PauseFields
  <2> HIDE DEF p
  <2>4. p.rpaused = TRUE /\ p.ppaused = TRUE /\ p.stop = FALSE
        /\ p.parsed = s.parsed + n /\ p.todo = s.todo - n /\ p.buf = fed.buf /\ p.wake = fed.wake
    BY <1>0, <1>1, <1>4, <2>1, <2>3 DEF Same, Fields
  <2>5. Same(p, s, {"parsed", "todo", "buf", "wake", "rpaused", "ppaused", "tpaused", "stop"})
    BY <1>1, <2>1, <2>3 DEF Same
  <2>6. FeedBody(s, n) = p
    BY <1>3, <1>6 DEF p
  <2>7. p.buf[s.heads] > 0
    BY <1>2, <1>6, <2>4 DEF Given
  <2>8. CASE parser = "extension"
    <3>1. Piece(s, n) = After(p)
      BY <2>4, <2>6, <2>8 DEF Piece, AfterPiece
    <3>2. Shape(After(p)) BY <2>3 DEF Shape
    <3>3. Same(After(p), p, {"ppaused", "stop"}) BY <2>3 DEF Shape, Same
    <3>4. After(p).ppaused = FALSE /\ After(p).stop = TRUE BY <2>3 DEF Shape, Fields
    <3> HIDE DEF After
    <3>5. After(p).rpaused = TRUE /\ After(p).tpaused = p.tpaused
          /\ After(p).parsed = p.parsed /\ After(p).todo = p.todo /\ After(p).buf = p.buf /\ After(p).wake = p.wake
      BY <2>4, <3>3 DEF Same, Fields
    <3>6. Same(After(p), s, {"parsed", "todo", "buf", "wake", "rpaused", "ppaused", "tpaused", "stop"})
      BY <2>5, <3>3 DEF Same
    <3> QED BY <1>2, <1>4, <2>3, <2>4, <2>7, <3>1, <3>2, <3>4, <3>5, <3>6
  <2>9. CASE parser # "extension"
    <3>1. Piece(s, n) = p
      BY <2>6, <2>9 DEF Piece, AfterPiece
    <3> QED BY <1>2, <1>4, <2>3, <2>4, <2>5, <2>7, <2>9, <3>1
  <2> QED BY <2>8, <2>9
<1> QED BY <1>5, <1>6

\* The end of a request: its stream has its end, and a reader is behind no more.
LEMMA CompleteFields ==
  ASSUME Given, NEW s, Typed(s), ~s.stop, s.heads \in Requests, s.eof[s.heads] => ~s.rpaused
  PROVE  LET t == MessageComplete(s)
         IN  /\ Shape(t)
             /\ Same(t, s, {"eof", "rpaused", "wake", "tpaused", "done", "inflight", "stop"})
             /\ t.eof \in [Requests -> BOOLEAN] /\ t.eof[s.heads]
             /\ \A r \in Requests : r # s.heads => t.eof[r] = s.eof[r]
             /\ ~t.rpaused /\ t.wake \in BOOLEAN /\ t.done = s.done + 1
             /\ parser = "python" => t.inflight = s.inflight
             /\ parser # "python" => t.inflight = s.inflight + 1
             /\ t.rpaused \in BOOLEAN /\ t.tpaused \in BOOLEAN /\ t.stop \in BOOLEAN
             /\ t.stop => t.inflight >= MaxQueue
             /\ \/ ~s.rpaused /\ (t.tpaused <=> s.tpaused)
                \/ t.tpaused <=> s.tpaused /\ (s.attached => s.qpaused)
<1> DEFINE ended == [s EXCEPT !.eof[s.heads] = TRUE, !.rpaused = FALSE,
                              !.wake = @ \/ s.cur = s.heads]
           fed == FeedEof(s)
           Done(x) == [x EXCEPT !.done = @ + 1]
           Count(x) == [x EXCEPT !.inflight = @ + 1, !.stop = s.inflight + 1 >= MaxQueue]
<1>0. /\ s.done \in Nat /\ s.inflight \in Nat /\ s.eof \in [Requests -> BOOLEAN] /\ s.wake \in BOOLEAN
      /\ s.rpaused \in BOOLEAN /\ s.stop = FALSE /\ s.tpaused \in BOOLEAN /\ Shape(s)
      /\ s.attached \in BOOLEAN /\ s.qpaused \in BOOLEAN /\ s.tr \in {"open", "closed", "lost"}
  BY DEF Typed, ParserTyped, BodiesTyped, TransportTyped
<1>1. /\ Shape(fed) /\ Same(fed, s, {"eof", "rpaused", "wake", "tpaused"})
      /\ fed.eof \in [Requests -> BOOLEAN] /\ fed.eof[s.heads]
      /\ \A r \in Requests : r # s.heads => fed.eof[r] = s.eof[r]
      /\ fed.rpaused = FALSE /\ fed.wake \in BOOLEAN /\ fed.tpaused \in BOOLEAN
      /\ \/ ~s.rpaused /\ (fed.tpaused <=> s.tpaused)
         \/ fed.tpaused <=> s.tpaused /\ (s.attached => s.qpaused)
  <2>1. CASE s.eof[s.heads]
    <3>1. fed = s BY <2>1 DEF FeedEof
    <3> HIDE DEF fed
    <3> QED BY <1>0, <2>1, <3>1 DEF Same
  <2>2. CASE ~s.eof[s.heads]
    <3>1. fed = ResumeTransport(ended) BY <2>2 DEF FeedEof
    <3> HIDE DEF fed
    <3>2. Shape(ended) BY <1>0 DEF Shape
    <3>3. Same(ended, s, {"eof", "rpaused", "wake"}) BY <1>0 DEF Shape, Same
    <3>4. ended.eof = [s.eof EXCEPT ![s.heads] = TRUE] BY <1>0 DEF Shape, Fields
    <3>5. ended.rpaused = FALSE /\ ended.wake = (s.wake \/ s.cur = s.heads)
      BY <1>0 DEF Shape, Fields
    <3> HIDE DEF ended
    <3>6. TransportTyped(ended) /\ ended.attached = s.attached /\ ended.qpaused = s.qpaused
          /\ ended.tpaused = s.tpaused
      BY <1>0, <3>3, <3>5 DEF Same, Fields, TransportTyped
    <3>7. /\ Shape(fed) /\ Same(fed, ended, {"tpaused"}) /\ fed.tpaused \in BOOLEAN
          /\ fed.tpaused <=> s.tpaused /\ (s.attached => s.qpaused)
      BY <3>1, <3>2, <3>5, <3>6, ResumeFields
    <3>8. fed.eof = ended.eof /\ fed.rpaused = FALSE /\ fed.wake = ended.wake
      BY <3>5, <3>7 DEF Same, Fields
    <3>9. Same(fed, s, {"eof", "rpaused", "wake", "tpaused"})
      BY <3>3, <3>7 DEF Same
    <3>10. fed.eof \in [Requests -> BOOLEAN] /\ fed.eof[s.heads]
           /\ \A r \in Requests : r # s.heads => fed.eof[r] = s.eof[r]
      BY <1>0, <3>4, <3>8
    <3> QED BY <3>5, <3>7, <3>8, <3>9, <3>10
  <2> QED BY <2>1, <2>2
<1>2. MessageComplete(s) = IF parser = "python" THEN Done(fed) ELSE Count(Done(fed))
  BY DEF MessageComplete
<1> HIDE DEF fed
<1> DEFINE d == Done(fed)
<1>3. /\ Shape(d) /\ Same(d, fed, {"done"}) /\ d.done = s.done + 1
  <2>1. Shape(d) BY <1>1 DEF Shape
  <2>2. Same(d, fed, {"done"}) BY <1>1 DEF Shape, Same
  <2>3. d.done = fed.done + 1 BY <1>1 DEF Shape, Fields
  <2>4. fed.done = s.done BY <1>1 DEF Same, Fields
  <2> HIDE DEF d
  <2> QED BY <2>1, <2>2, <2>3, <2>4
<1> HIDE DEF d
<1>4. d.eof = fed.eof /\ d.rpaused = FALSE /\ d.wake = fed.wake /\ d.tpaused = fed.tpaused
      /\ d.inflight = s.inflight /\ d.stop = FALSE
  BY <1>0, <1>1, <1>3 DEF Same, Fields
<1>5. CASE parser = "python"
  <2>1. MessageComplete(s) = d BY <1>2, <1>5 DEF d
  <2>2. Same(d, s, {"eof", "rpaused", "wake", "tpaused", "done", "inflight", "stop"})
    BY <1>1, <1>3 DEF Same
  <2>4. d.eof \in [Requests -> BOOLEAN] /\ d.eof[s.heads]
        /\ \A r \in Requests : r # s.heads => d.eof[r] = s.eof[r]
    BY <1>1, <1>4
  <2> QED BY <1>1, <1>3, <1>4, <1>5, <2>1, <2>2, <2>4
<1>6. CASE parser # "python"
  <2> DEFINE t == Count(d)
  <2>1. MessageComplete(s) = t BY <1>2, <1>6 DEF d
  <2>2. Shape(t) BY <1>3 DEF Shape
  <2>3. Same(t, d, {"inflight", "stop"}) BY <1>3 DEF Shape, Same
  <2>4. t.inflight = d.inflight + 1 /\ t.stop = (s.inflight + 1 >= MaxQueue) BY <1>3 DEF Shape, Fields
  <2> HIDE DEF t
  <2>5. t.eof = fed.eof /\ t.rpaused = FALSE /\ t.wake = fed.wake /\ t.tpaused = fed.tpaused
        /\ t.done = s.done + 1
    BY <1>3, <1>4, <2>3 DEF Same, Fields
  <2>6. Same(t, s, {"eof", "rpaused", "wake", "tpaused", "done", "inflight", "stop"})
    BY <1>1, <1>3, <2>3 DEF Same
  <2>7. t.inflight = s.inflight + 1 BY <1>4, <2>4
  <2>8. t.stop \in BOOLEAN BY <2>4
  <2>9. t.stop => t.inflight >= MaxQueue BY <2>4, <2>7
  <2> QED BY <1>1, <1>6, <2>1, <2>2, <2>5, <2>6, <2>7, <2>8, <2>9
<1> QED BY <1>5, <1>6

\* A head: the next request begins, or the parser fails.
LEMMA HeadFields ==
  ASSUME Given, NEW s, Typed(s), ~s.stop, s.heads + 1 \in Requests
  PROVE  LET t == MessageHead(s)
             r == s.heads + 1
         IN  /\ Shape(t) /\ Same(t, s, {"parsed", "heads", "todo", "new", "failed", "stop", "inflight"})
             /\ t.parsed = s.parsed + 1 /\ t.heads = r /\ t.todo = script[r].body
             /\ Malformed(r) => t.new = <<r>> /\ t.failed /\ t.stop /\ t.inflight = s.inflight
             /\ ~Malformed(r) =>
                  /\ t.new = Append(s.new, r) /\ t.failed = s.failed /\ ~t.stop
                  /\ parser = "python" => t.inflight = s.inflight + 1
                  /\ parser # "python" => t.inflight = s.inflight
             /\ t.failed \in BOOLEAN /\ t.stop \in BOOLEAN
<1> DEFINE r == s.heads + 1
           head == [s EXCEPT !.parsed = @ + 1, !.heads = r, !.todo = script[r].body]
           Bad(x) == [x EXCEPT !.new = <<r>>, !.failed = TRUE, !.stop = TRUE]
           Good(x) == [x EXCEPT !.new = Append(@, r), !.inflight = @ + IF parser = "python" THEN 1 ELSE 0]
<1>0. s.failed \in BOOLEAN /\ s.stop = FALSE /\ Shape(s) /\ s.inflight \in Nat
  BY DEF Typed, ParserTyped
<1>1. MessageHead(s) = IF Malformed(r) THEN Bad(head) ELSE Good(head)
  BY DEF MessageHead, Malformed
<1>2. Shape(head) BY <1>0 DEF Shape
<1>3. Same(head, s, {"parsed", "heads", "todo"}) BY <1>0 DEF Shape, Same
<1>4. head.parsed = s.parsed + 1 /\ head.heads = r /\ head.todo = script[r].body
  BY <1>0 DEF Shape, Fields
<1> HIDE DEF head
<1>5. head.new = s.new /\ head.failed = s.failed /\ head.stop = FALSE /\ head.inflight = s.inflight
  BY <1>0, <1>3 DEF Same, Fields
<1>6. CASE Malformed(r)
  <2> DEFINE t == Bad(head)
  <2>1. MessageHead(s) = t BY <1>1, <1>6
  <2>2. Shape(t) BY <1>2 DEF Shape
  <2>3. Same(t, head, {"new", "failed", "stop"}) BY <1>2 DEF Shape, Same
  <2>4. t.new = <<r>> /\ t.failed = TRUE /\ t.stop = TRUE BY <1>2 DEF Shape, Fields
  <2> HIDE DEF t
  <2>5. t.parsed = s.parsed + 1 /\ t.heads = r /\ t.todo = script[r].body /\ t.inflight = s.inflight
    BY <1>4, <1>5, <2>3 DEF Same, Fields
  <2>6. Same(t, s, {"parsed", "heads", "todo", "new", "failed", "stop", "inflight"})
    BY <1>3, <2>3 DEF Same
  <2> QED BY <1>6, <2>1, <2>2, <2>4, <2>5, <2>6
<1>7. CASE ~Malformed(r)
  <2> DEFINE t == Good(head)
  <2>1. MessageHead(s) = t BY <1>1, <1>7
  <2>2. Shape(t) BY <1>2 DEF Shape
  <2>3. Same(t, head, {"new", "inflight"}) BY <1>2 DEF Shape, Same
  <2>4. t.new = Append(s.new, r) /\ t.inflight = s.inflight + IF parser = "python" THEN 1 ELSE 0
    BY <1>2, <1>5 DEF Shape, Fields
  <2> HIDE DEF t
  <2>5. t.parsed = s.parsed + 1 /\ t.heads = r /\ t.todo = script[r].body
        /\ t.failed = s.failed /\ t.stop = FALSE
    BY <1>4, <1>5, <2>3 DEF Same, Fields
  <2>6. Same(t, s, {"parsed", "heads", "todo", "new", "failed", "stop", "inflight"})
    BY <1>3, <2>3 DEF Same
  <2>7. /\ parser = "python" => t.inflight = s.inflight + 1
        /\ parser # "python" => t.inflight = s.inflight
    BY <1>0, <2>4
  <2> QED BY <1>0, <1>7, <2>1, <2>2, <2>4, <2>5, <2>6, <2>7
<1> QED BY <1>6, <1>7

(* ------------------------- the turns of a parser ------------------------ *)

ByParser ==
  {"parsed", "heads", "done", "todo", "inflight", "ppaused", "stop", "failed", "new", "buf", "eof",
   "wake", "rpaused", "tpaused"}

\* What the parser has found since u.
News(t, u) ==
  /\ ~t.failed => /\ t.heads = u.heads + Len(t.new)
                  /\ \A j \in 1..Len(t.new) : t.new[j] = u.heads + j
  /\ t.failed => t.heads > u.heads /\ t.new = <<t.heads>> /\ Malformed(t.heads) /\ t.stop
Stopped(t) ==
  t.stop => \/ t.failed
            \/ t.heads = t.done /\ t.inflight >= MaxQueue
            \/ t.heads > t.done /\ t.rpaused

\* A state between two turns of the parser that began in u.
Parsing(t, u) ==
  /\ Typed(t) /\ Same(t, u, ByParser)
  /\ u.heads <= t.heads /\ u.done <= t.done
  /\ Position(t) /\ Bodies(t) /\ Behind(t) /\ PausedFor(t) /\ Counts(t)
  /\ OnlyFor(u) => OnlyFor(t)
  /\ News(t, u) /\ Stopped(t)

\* There is nothing for the parser to do.
Idle(t) ==
  \/ t.stop
  \/ t.heads > t.done /\ t.todo > 0 /\ t.parsed = t.arrived
  \/ t.heads = t.done /\ (t.parsed = t.arrived \/ QueueFull(t))

\* A turn that parses a piece keeps what the parser guarantees.
LEMMA TurnPiece ==
  ASSUME Given, NEW u, NEW t, Parsing(t, u), ~t.stop, t.heads > t.done, t.todo > 0,
         NEW n \in 1..t.todo, t.parsed + n <= t.arrived
  PROVE  Parsing(Piece(t, n), u) /\ Turns(Piece(t, n)) < Turns(t)
<1> DEFINE w == Piece(t, n)
<1>0. /\ Typed(t) /\ Same(t, u, ByParser) /\ u.heads <= t.heads /\ u.done <= t.done
      /\ Position(t) /\ Bodies(t) /\ Behind(t) /\ PausedFor(t) /\ Counts(t)
      /\ (OnlyFor(u) => OnlyFor(t)) /\ News(t, u) /\ Stopped(t)
  BY DEF Parsing
<1>1. /\ t.arrived \in Nat /\ t.parsed \in Nat /\ t.heads \in Nat /\ t.done \in Nat /\ t.todo \in Nat
      /\ t.inflight \in Nat /\ t.rpaused \in BOOLEAN /\ t.tpaused \in BOOLEAN /\ t.buf \in [Requests -> Nat]
  BY <1>0 DEF Typed, ParserTyped, TransportTyped, BodiesTyped
<1>2. t.heads \in Requests /\ script[t.heads].body > 0 /\ ~t.eof[t.heads] /\ t.heads = t.done + 1
  <2>1. t.heads \in Requests /\ script[t.heads].body > 0 /\ t.heads = t.done + 1
    BY <1>0, <1>1, SMTT(30) DEF Given, Position
  <2> QED BY <1>0, <1>1, <2>1 DEF Bodies
<1>3. /\ Shape(w)
      /\ Same(w, t, {"parsed", "todo", "buf", "wake", "rpaused", "ppaused", "tpaused", "stop"})
      /\ w.parsed = t.parsed + n /\ w.todo = t.todo - n
      /\ w.buf \in [Requests -> Nat] /\ w.buf[t.heads] = t.buf[t.heads] + n
      /\ w.wake \in BOOLEAN /\ w.rpaused \in BOOLEAN /\ w.tpaused \in BOOLEAN
      /\ w.ppaused \in BOOLEAN /\ w.stop \in BOOLEAN
      /\ (parser = "extension" => ~w.ppaused)
      /\ (w.stop => w.rpaused)
      /\ \/ w.rpaused /\ w.buf[t.heads] > 0 /\ (w.tpaused <=> t.tpaused \/ t.attached)
         \/ (w.rpaused <=> t.rpaused) /\ (w.tpaused <=> t.tpaused)
  <2>1. n \in 0..t.todo /\ (parser = "extension" => ~t.ppaused)
    BY <1>0 DEF Behind
  <2> QED BY <1>0, <1>2, <2>1, PieceFields
<1> HIDE DEF w
<1>4. /\ w.heads = t.heads /\ w.done = t.done /\ w.arrived = t.arrived /\ w.inflight = t.inflight
      /\ w.attached = t.attached /\ w.qpaused = t.qpaused /\ w.eof = t.eof /\ w.failed = t.failed
      /\ w.new = t.new /\ w.msgs = t.msgs
  BY <1>3 DEF Same, Fields
<1>5. Typed(w)
  <2>1. TransportTyped(w) BY <1>0, <1>3 DEF Typed, TransportTyped, Same, Fields
  <2>2. ParserTyped(w)
    <3>1. w.parsed \in Nat /\ w.todo \in Nat BY <1>1, <1>3
    <3> QED BY <1>0, <1>3, <3>1 DEF Typed, ParserTyped, Same, Fields
  <2>3. QueuesTyped(w) BY <1>0, <1>3 DEF Typed, QueuesTyped, Same, Fields
  <2>4. BodiesTyped(w) BY <1>0, <1>3 DEF Typed, BodiesTyped, Same, Fields
  <2>5. StartTyped(w) BY <1>0, <1>3 DEF Typed, StartTyped, Same, Fields
  <2>6. FlagsTyped(w) BY <1>0, <1>3 DEF Typed, FlagsTyped, Same, Fields
  <2> QED BY <1>3, <2>1, <2>2, <2>3, <2>4, <2>5, <2>6 DEF Typed
<1>6. Same(w, u, ByParser)
  BY <1>0, <1>3 DEF Same, ByParser
<1>7. Position(w)
  <2>1. Sent[t.heads] \in Nat /\ Wire \in Nat /\ t.heads \in 0..Len(script)
    BY <1>2 DEF Given, Wire
  <2>2. w.parsed + w.todo = Sent[w.heads] /\ w.parsed <= w.arrived /\ w.arrived <= Wire
    BY <1>0, <1>1, <1>3, <1>4, <2>1 DEF Position
  <2> QED BY <1>0, <1>1, <1>2, <1>3, <1>4, <2>2 DEF Position
<1>8. Bodies(w)
  BY <1>0, <1>4 DEF Bodies
<1>9. Behind(w)
  <2>1. w.rpaused => w.buf[t.heads] > 0
    BY <1>0, <1>1, <1>2, <1>3 DEF Behind
  <2> QED BY <1>1, <1>2, <1>3, <1>4, <2>1 DEF Behind
<1>10. PausedFor(w)
  BY <1>0, <1>3, <1>4 DEF PausedFor
<1>11. OnlyFor(u) => OnlyFor(w)
  BY <1>0, <1>3, <1>4 DEF OnlyFor
<1>12. Counts(w)
  BY <1>0, <1>4 DEF Counts
<1>13. News(w, u)
  BY <1>0, <1>4 DEF News
<1>14. Stopped(w)
  BY <1>2, <1>1, <1>3, <1>4 DEF Stopped
<1>15. Turns(w) < Turns(t)
  BY <1>1, <1>3, <1>4 DEF Turns
<1>16. u.heads <= w.heads /\ u.done <= w.done
  BY <1>0, <1>4
<1> QED BY <1>5, <1>6, <1>7, <1>8, <1>9, <1>10, <1>11, <1>12, <1>13, <1>14, <1>15, <1>16 DEF Parsing, w

\* So does one that completes a request,
LEMMA TurnComplete ==
  ASSUME Given, NEW u, u.heads \in Nat, u.done \in Nat, NEW t, Parsing(t, u), ~t.stop, t.heads > t.done,
         t.todo = 0
  PROVE  Parsing(MessageComplete(t), u) /\ Turns(MessageComplete(t)) < Turns(t)
<1> DEFINE w == MessageComplete(t)
<1>0. /\ Typed(t) /\ Same(t, u, ByParser) /\ u.heads <= t.heads /\ u.done <= t.done
      /\ Position(t) /\ Bodies(t) /\ Behind(t) /\ PausedFor(t) /\ Counts(t)
      /\ (OnlyFor(u) => OnlyFor(t)) /\ News(t, u) /\ Stopped(t)
  BY DEF Parsing
<1>1. /\ t.arrived \in Nat /\ t.parsed \in Nat /\ t.heads \in Nat /\ t.done \in Nat /\ t.todo \in Nat
      /\ t.inflight \in Nat /\ t.rpaused \in BOOLEAN /\ t.tpaused \in BOOLEAN
  BY <1>0 DEF Typed, ParserTyped, TransportTyped
<1>2. t.heads \in Requests /\ t.heads = t.done + 1
  BY <1>0, <1>1 DEF Given, Position
<1>3. /\ Shape(w)
      /\ Same(w, t, {"eof", "rpaused", "wake", "tpaused", "done", "inflight", "stop"})
      /\ w.eof \in [Requests -> BOOLEAN] /\ w.eof[t.heads]
      /\ (\A r \in Requests : r # t.heads => w.eof[r] = t.eof[r])
      /\ ~w.rpaused /\ w.wake \in BOOLEAN /\ w.done = t.done + 1
      /\ (parser = "python" => w.inflight = t.inflight)
      /\ (parser # "python" => w.inflight = t.inflight + 1)
      /\ w.rpaused \in BOOLEAN /\ w.tpaused \in BOOLEAN /\ w.stop \in BOOLEAN
      /\ (w.stop => w.inflight >= MaxQueue)
      /\ \/ ~t.rpaused /\ (w.tpaused <=> t.tpaused)
         \/ w.tpaused <=> t.tpaused /\ (t.attached => t.qpaused)
  <2>1. t.eof[t.heads] => ~t.rpaused
    BY <1>0 DEF Behind
  <2> QED BY <1>0, <1>2, <2>1, CompleteFields
<1> HIDE DEF w
<1>4. /\ w.heads = t.heads /\ w.parsed = t.parsed /\ w.todo = t.todo /\ w.arrived = t.arrived
      /\ w.attached = t.attached /\ w.qpaused = t.qpaused /\ w.buf = t.buf /\ w.failed = t.failed
      /\ w.new = t.new /\ w.msgs = t.msgs /\ w.ppaused = t.ppaused
  BY <1>3 DEF Same, Fields
<1>5. Typed(w)
  <2>1. TransportTyped(w) BY <1>0, <1>3 DEF Typed, TransportTyped, Same, Fields
  <2>2. ParserTyped(w)
    <3>1. w.done \in Nat /\ w.inflight \in Nat BY <1>1, <1>3
    <3> QED BY <1>0, <1>3, <3>1 DEF Typed, ParserTyped, Same, Fields
  <2>3. QueuesTyped(w) BY <1>0, <1>3 DEF Typed, QueuesTyped, Same, Fields
  <2>4. BodiesTyped(w) BY <1>0, <1>3 DEF Typed, BodiesTyped, Same, Fields
  <2>5. StartTyped(w) BY <1>0, <1>3 DEF Typed, StartTyped, Same, Fields
  <2>6. FlagsTyped(w) BY <1>0, <1>3 DEF Typed, FlagsTyped, Same, Fields
  <2> QED BY <1>3, <2>1, <2>2, <2>3, <2>4, <2>5, <2>6 DEF Typed
<1>6. Same(w, u, ByParser)
  BY <1>0, <1>3 DEF Same, ByParser
<1>7. Position(w)
  BY <1>0, <1>1, <1>2, <1>3, <1>4 DEF Position
<1>8. Bodies(w)
  <2>1. \A r \in Requests : r \in Nat /\ (r <= w.done <=> r <= t.done \/ r = t.heads)
    BY <1>1, <1>2, <1>3, SMTT(30) DEF Given
  <2>2. ASSUME NEW r \in Requests, r <= w.done PROVE w.eof[r]
    BY <1>0, <1>3, <2>1, <2>2 DEF Bodies
  <2>3. ASSUME NEW r \in Requests, r > w.done PROVE w.eof[r] <=> script[r].body = 0
    <3>1. r # t.heads /\ r > t.done
      BY <1>1, <1>2, <1>3, <2>1, <2>3
    <3> QED BY <1>0, <1>3, <3>1 DEF Bodies
  <2> QED BY <2>2, <2>3 DEF Bodies
<1>9. Behind(w)
  BY <1>0, <1>3, <1>4 DEF Behind
<1>10. PausedFor(w)
  BY <1>0, <1>3, <1>4 DEF PausedFor
<1>11. OnlyFor(u) => OnlyFor(w)
  <2>1. OnlyFor(t) => OnlyFor(w)
    <3> SUFFICES ASSUME OnlyFor(t), w.attached, w.tpaused, ~w.qpaused PROVE FALSE
      BY <1>3 DEF OnlyFor
    <3>1. t.tpaused /\ t.rpaused /\ t.attached /\ ~t.qpaused
      BY <1>3, <1>4 DEF OnlyFor
    <3> QED BY <1>0, <1>1, <1>3, <1>4, <3>1
  <2> QED BY <1>0, <2>1
<1>12. Counts(w)
  <2>1. Len(t.msgs) \in Nat /\ Len(t.new) \in Nat
    BY <1>0, LenProperties DEF Typed, QueuesTyped
  <2>2. t.failed <=> w.failed
    BY <1>4
  <2>3. CASE parser = "python"
    <3>1. w.inflight = t.inflight
      BY <1>1, <1>3, <2>3
    <3> QED BY <1>0, <1>4, <2>2, <2>3, <3>1 DEF Counts
  <2>4. CASE parser # "python"
    <3>1. w.inflight = t.inflight + 1 /\ w.heads = w.done /\ t.heads = t.done + 1
      BY <1>1, <1>2, <1>3, <1>4, <2>4
    <3> SUFFICES ASSUME ~w.failed PROVE Len(w.msgs) + Len(w.new) <= w.inflight + (w.heads - w.done)
      BY <2>4 DEF Counts
    <3>2. parser = "extension"
      BY <2>4 DEF Given
    <3>3. Len(t.msgs) + Len(t.new) <= t.inflight + (t.heads - t.done)
      BY <1>0, <2>2, <3>2 DEF Counts
    <3>4. w.inflight + (w.heads - w.done) = t.inflight + (t.heads - t.done)
      BY <1>1, <1>3, <3>1
    <3> QED BY <1>4, <3>3, <3>4
  <2> QED BY <2>3, <2>4
<1>13. News(w, u)
  <2>1. ~t.failed
    BY <1>0 DEF News
  <2> QED BY <1>0, <1>4, <2>1 DEF News
<1>14. Stopped(w)
  BY <1>2, <1>1, <1>3, <1>4 DEF Stopped
<1>15. Turns(w) < Turns(t)
  BY <1>1, <1>3, <1>4 DEF Turns
<1>16. u.heads <= w.heads /\ u.done <= w.done
  BY <1>0, <1>1, <1>3, <1>4
<1> QED BY <1>5, <1>6, <1>7, <1>8, <1>9, <1>10, <1>11, <1>12, <1>13, <1>14, <1>15, <1>16 DEF Parsing, w

\* and one that parses a head.
LEMMA TurnHead ==
  ASSUME Given, NEW u, u.heads \in Nat, u.done \in Nat, NEW t, Parsing(t, u), ~t.stop, t.heads = t.done,
         t.parsed < t.arrived
  PROVE  Parsing(MessageHead(t), u) /\ Turns(MessageHead(t)) < Turns(t)
<1> DEFINE w == MessageHead(t)
           r == t.heads + 1
<1>0. /\ Typed(t) /\ Same(t, u, ByParser) /\ u.heads <= t.heads /\ u.done <= t.done
      /\ Position(t) /\ Bodies(t) /\ Behind(t) /\ PausedFor(t) /\ Counts(t)
      /\ (OnlyFor(u) => OnlyFor(t)) /\ News(t, u) /\ Stopped(t)
  BY DEF Parsing
<1>1. /\ t.arrived \in Nat /\ t.parsed \in Nat /\ t.heads \in Nat /\ t.done \in Nat /\ t.todo \in Nat
      /\ t.inflight \in Nat /\ t.rpaused \in BOOLEAN /\ t.tpaused \in BOOLEAN
      /\ Len(t.msgs) \in Nat /\ Len(t.new) \in Nat /\ t.new \in Seq(Requests)
  <2>1. t.msgs \in Seq(Requests) /\ t.new \in Seq(Requests)
    BY <1>0 DEF Typed, QueuesTyped
  <2> QED BY <1>0, <2>1, LenProperties DEF Typed, ParserTyped, TransportTyped
<1>2. r \in Requests /\ t.todo = 0 /\ t.parsed = Sent[t.heads] /\ Sent[r] = t.parsed + 1 + script[r].body
      /\ script[r].body \in Nat /\ r <= Len(script)
  <2>1. t.todo = 0 /\ t.parsed + t.todo = Sent[t.heads] /\ t.arrived <= Wire /\ t.heads <= Len(script)
    BY <1>0 DEF Position
  <2>2. t.parsed = Sent[t.heads] /\ Len(script) \in Nat /\ Wire = Sent[Len(script)]
    BY <1>1, <2>1 DEF Given, Wire
  <2>3. t.heads # Len(script)
    <3> SUFFICES ASSUME t.heads = Len(script) PROVE FALSE
      OBVIOUS
    <3>1. t.parsed = Wire
      BY <2>2
    <3> QED BY <1>1, <2>1, <3>1
  <2>4. r \in Requests /\ r - 1 = t.heads /\ r <= Len(script)
    BY <1>1, <2>1, <2>2, <2>3, SMTT(30) DEF Given
  <2>5. Sent[r] = Sent[r - 1] + 1 + script[r].body /\ script[r].body \in Nat
    BY <2>4 DEF Given
  <2> QED BY <2>1, <2>2, <2>4, <2>5
<1>3. /\ Shape(w) /\ Same(w, t, {"parsed", "heads", "todo", "new", "failed", "stop", "inflight"})
      /\ w.parsed = t.parsed + 1 /\ w.heads = r /\ w.todo = script[r].body
      /\ (Malformed(r) => w.new = <<r>> /\ w.failed /\ w.stop /\ w.inflight = t.inflight)
      /\ (~Malformed(r) =>
            /\ w.new = Append(t.new, r) /\ w.failed = t.failed /\ ~w.stop
            /\ (parser = "python" => w.inflight = t.inflight + 1)
            /\ (parser # "python" => w.inflight = t.inflight))
      /\ w.failed \in BOOLEAN /\ w.stop \in BOOLEAN
  BY <1>0, <1>2, HeadFields
<1> HIDE DEF w
<1>4. /\ w.done = t.done /\ w.arrived = t.arrived /\ w.ppaused = t.ppaused
      /\ w.attached = t.attached /\ w.qpaused = t.qpaused /\ w.buf = t.buf
      /\ w.eof = t.eof /\ w.msgs = t.msgs /\ w.rpaused = t.rpaused /\ w.tpaused = t.tpaused
  BY <1>3, SMTT(30) DEF Same, Fields
<1>5. /\ Append(t.new, r) \in Seq(Requests) /\ Len(Append(t.new, r)) = Len(t.new) + 1
      /\ (\A j \in 1..Len(t.new) : Append(t.new, r)[j] = t.new[j]) /\ Append(t.new, r)[Len(t.new) + 1] = r
      /\ <<r>> \in Seq(Requests)
  BY <1>1, <1>2, AppendProperties
<1>21. w.parsed = t.parsed + 1 /\ w.heads = t.heads + 1 /\ w.todo = script[r].body
  BY <1>3
<1>22. Len(t.msgs) \in Nat /\ Len(t.new) \in Nat /\ t.inflight \in Nat /\ t.heads \in Nat /\ t.done = t.heads
  BY <1>1
<1>19. ASSUME Malformed(r) PROVE w.new = <<r>> /\ w.failed /\ w.stop /\ w.inflight = t.inflight
  BY <1>3, <1>19
<1>20. ASSUME ~Malformed(r)
       PROVE  /\ w.new = Append(t.new, r) /\ w.failed = t.failed /\ ~w.stop
              /\ parser = "python" => w.inflight = t.inflight + 1
              /\ parser # "python" => w.inflight = t.inflight
  BY <1>3, <1>20
<1>6. Typed(w)
  <2>1. TransportTyped(w) BY <1>0, <1>3 DEF Typed, TransportTyped, Same, Fields
  <2>2. ParserTyped(w)
    <3>1. w.parsed \in Nat /\ w.heads \in Nat /\ w.todo \in Nat
      BY <1>1, <1>2, <1>21, SMTT(30)
    <3>2. w.inflight \in Nat
      BY <1>1, <1>19, <1>20
    <3> QED BY <1>0, <1>3, <3>1, <3>2 DEF Typed, ParserTyped, Same, Fields
  <2>3. QueuesTyped(w)
    <3>1. w.new \in Seq(Requests) BY <1>3, <1>5
    <3> QED BY <1>0, <1>3, <3>1 DEF Typed, QueuesTyped, Same, Fields
  <2>4. BodiesTyped(w) BY <1>0, <1>3 DEF Typed, BodiesTyped, Same, Fields
  <2>5. StartTyped(w) BY <1>0, <1>3 DEF Typed, StartTyped, Same, Fields
  <2>6. FlagsTyped(w) BY <1>0, <1>3, SMTT(30) DEF Typed, FlagsTyped, Same, Fields
  <2> QED BY <1>3, <2>1, <2>2, <2>3, <2>4, <2>5, <2>6 DEF Typed
<1>7. Same(w, u, ByParser)
  BY <1>0, <1>3 DEF Same, ByParser
<1>8. Position(w)
  BY <1>0, <1>1, <1>2, <1>3, <1>4, SMTT(30) DEF Position
<1>9. Bodies(w)
  BY <1>0, <1>4 DEF Bodies
<1>10. Behind(w)
  BY <1>0, <1>1, <1>4 DEF Behind
<1>11. PausedFor(w)
  BY <1>0, <1>4 DEF PausedFor
<1>12. OnlyFor(u) => OnlyFor(w)
  BY <1>0, <1>4 DEF OnlyFor
<1>13. ~t.failed
  BY <1>0 DEF News
<1>14. Counts(w)
  <2> SUFFICES ASSUME ~Malformed(r), ~w.failed PROVE Counts(w)
    BY <1>19 DEF Counts
  <2>1. Len(w.new) = Len(t.new) + 1 /\ Len(w.msgs) = Len(t.msgs) /\ w.heads - w.done = 1
    BY <1>1, <1>3, <1>4, <1>5, <1>20
  <2>4. \A a, b, i \in Nat : a + b <= i => a + (b + 1) <= i + 1
    OBVIOUS
  <2>2. CASE parser = "python"
    <3>1. Len(t.msgs) + Len(t.new) <= t.inflight
      BY <1>0, <1>13, <2>2 DEF Counts
    <3>2. w.inflight = t.inflight + 1
      BY <1>20, <2>2
    <3>3. Len(w.msgs) + Len(w.new) <= w.inflight
      BY <1>22, <2>1, <2>4, <3>1, <3>2
    <3> QED BY <2>2, <3>3 DEF Counts
  <2>3. CASE parser # "python"
    <3>4. Len(t.msgs) + Len(t.new) <= t.inflight + (t.heads - t.done)
      BY <1>0, <1>13, <2>3 DEF Counts, Given
    <3>6. t.inflight + (t.heads - t.done) = t.inflight
      BY <1>22
    <3>1. Len(t.msgs) + Len(t.new) <= t.inflight
      BY <3>4, <3>6
    <3>2. w.inflight = t.inflight
      BY <1>20, <2>3
    <3>3. Len(w.msgs) + Len(w.new) <= w.inflight + 1
      BY <1>22, <2>1, <2>4, <3>1, <3>2
    <3>5. w.inflight + 1 = w.inflight + (w.heads - w.done)
      BY <2>1
    <3> QED BY <2>3, <3>3, <3>5 DEF Counts, Given
  <2> QED BY <2>2, <2>3
<1>15. News(w, u)
  <2>1. t.heads = u.heads + Len(t.new) /\ \A j \in 1..Len(t.new) : t.new[j] = u.heads + j
    BY <1>0, <1>13 DEF News
  <2>2. CASE Malformed(r)
    BY <1>0, <1>1, <1>3, <1>19, <2>2, SMTT(30) DEF News
  <2>3. CASE ~Malformed(r)
    <3> DEFINE new == Append(t.new, r)
    <3>1. w.new = new /\ w.heads = t.heads + 1
      BY <1>3, <1>20, <2>3
    <3>2. Len(new) = Len(t.new) + 1 /\ (\A j \in 1..Len(t.new) : new[j] = t.new[j]) /\ new[Len(t.new) + 1] = t.heads + 1
      BY <1>5
    <3> HIDE DEF new
    <3>3. w.heads = u.heads + Len(new)
      BY <1>1, <2>1, <3>1, <3>2
    <3>4. ASSUME NEW j \in 1..Len(new) PROVE new[j] = u.heads + j
      <4>1. CASE j \in 1..Len(t.new)
        BY <2>1, <3>2, <4>1
      <4>2. CASE j = Len(t.new) + 1
        BY <1>1, <2>1, <3>2, <4>2
      <4> QED BY <1>1, <3>2, <4>1, <4>2
    <3> QED BY <1>13, <1>20, <2>3, <3>1, <3>3, <3>4 DEF News
  <2> QED BY <2>2, <2>3
<1>16. Stopped(w)
  BY <1>3 DEF Stopped
<1>17. Turns(w) < Turns(t)
  BY <1>1, <1>3, <1>4, SMTT(30) DEF Turns
<1>18. u.heads <= w.heads /\ u.done <= w.done
  BY <1>0, <1>1, <1>3, <1>4
<1> QED BY <1>6, <1>7, <1>8, <1>9, <1>10, <1>11, <1>12, <1>14, <1>15, <1>16, <1>17, <1>18 DEF Parsing, w

\* One turn keeps what Parsing says, and when there is something to do it is
\* one of Turns(t).
LEMMA OneTurn ==
  ASSUME Given, NEW u, u.heads \in Nat, u.done \in Nat, NEW t, Parsing(t, u)
  PROVE  /\ Parsing(ParseTurn(t), u)
         /\ Idle(t) => ParseTurn(t) = t
         /\ ~Idle(t) => Turns(ParseTurn(t)) < Turns(t)
<1> DEFINE w == ParseTurn(t)
           left == t.arrived - t.parsed
           n == IF left < t.todo THEN left ELSE t.todo
<1>0. /\ t.arrived \in Nat /\ t.parsed \in Nat /\ t.heads \in Nat /\ t.done \in Nat /\ t.todo \in Nat
      /\ t.stop \in BOOLEAN
  BY DEF Parsing, Typed, ParserTyped
<1>1. t.done <= t.heads /\ t.parsed <= t.arrived /\ (t.heads = t.done => t.todo = 0)
  BY DEF Parsing, Position
<1>2. CASE t.stop
  BY <1>2 DEF ParseTurn, Idle
<1>3. CASE ~t.stop /\ t.heads > t.done /\ t.todo = 0
  <2>1. w = MessageComplete(t)
    BY <1>0, <1>3 DEF ParseTurn
  <2>2. ~Idle(t)
    BY <1>0, <1>3 DEF Idle
  <2> QED BY <1>3, <2>1, <2>2, TurnComplete
<1>4. CASE ~t.stop /\ t.heads > t.done /\ t.todo > 0 /\ left > 0
  <2>1. w = Piece(t, n)
    BY <1>0, <1>4 DEF ParseTurn, Piece
  <2>2. n \in 1..t.todo /\ t.parsed + n <= t.arrived
    BY <1>0, <1>1, <1>4
  <2>3. ~Idle(t)
    BY <1>0, <1>4 DEF Idle
  <2> HIDE DEF n
  <2> QED BY <1>4, <2>1, <2>2, <2>3, TurnPiece
<1>5. CASE ~t.stop /\ t.heads = t.done /\ left > 0 /\ ~QueueFull(t)
  <2>1. w = MessageHead(t)
    BY <1>0, <1>5 DEF ParseTurn
  <2>2. ~Idle(t) /\ t.parsed < t.arrived
    BY <1>0, <1>5 DEF Idle
  <2> QED BY <1>5, <2>1, <2>2, TurnHead
<1>6. CASE /\ ~t.stop /\ ~(t.heads > t.done /\ t.todo = 0) /\ ~(t.heads > t.done /\ t.todo > 0 /\ left > 0)
           /\ ~(t.heads = t.done /\ left > 0 /\ ~QueueFull(t))
  <2>1. w = t
    BY <1>6 DEF ParseTurn
  <2>2. Idle(t)
    BY <1>0, <1>1, <1>6 DEF Idle
  <2> QED BY <2>1, <2>2
<1> QED BY <1>2, <1>3, <1>4, <1>5, <1>6

\* The parser comes to rest.
LEMMA ParseRests ==
  ASSUME Given, NEW u, Parsing(u, u)
  PROVE  Parsing(Parse(u), u) /\ Idle(Parse(u))
<1> DEFINE N == Turns(u)
           D == {t \in Connections : Parsing(t, u)}
           F == [i \in 1..N |-> [t \in D |-> ParseTurn(t)]]
           Eq(g) == g = [n \in 0..N |-> IF n = 0 THEN u ELSE ParseTurn(g[n - 1])]
           after == CHOOSE g : Eq(g)
<1>0. /\ u.arrived \in Nat /\ u.parsed \in Nat /\ u.heads \in Nat /\ u.done \in Nat
      /\ u.parsed <= u.arrived /\ u.done <= u.heads
  BY DEF Parsing, Typed, ParserTyped, Position
<1>1. N \in Nat
  BY <1>0 DEF Turns
<1> HIDE DEF N
<1>2. \A t : Parsing(t, u) => t \in D
  BY TypedIsConnection DEF Parsing
<1>3. \A t \in D : Parsing(t, u) /\ ParseTurn(t) \in D
  BY <1>0, <1>2, OneTurn
<1>4. u \in D
  BY <1>2
<1> HIDE DEF D
<1>5. Steps(F, N, D)
  BY <1>3 DEF Steps
<1>6. \A i \in 1..N : \A t \in D : F[i][t] = ParseTurn(t)
  OBVIOUS
<1> HIDE DEF F
<1>7. PICK g : Follows(g, u, F, N, D)
  BY <1>1, <1>4, <1>5, BoundedRecursion
<1>8. Eq(g)
  <2>1. g \in [0..N -> D] /\ g[0] = u /\ \A i \in 1..N : g[i] = F[i][g[i - 1]]
    BY <1>7 DEF Follows
  <2>2. ASSUME NEW n \in 0..N PROVE g[n] = IF n = 0 THEN u ELSE ParseTurn(g[n - 1])
    <3>1. CASE n = 0
      BY <2>1, <3>1
    <3>2. CASE n # 0
      <4>1. n \in 1..N /\ n - 1 \in 0..N
        BY <1>1, <3>2
      <4>2. g[n - 1] \in D /\ g[n] = F[n][g[n - 1]]
        BY <2>1, <4>1
      <4> QED BY <1>6, <3>2, <4>1, <4>2
    <3> QED BY <3>1, <3>2
  <2>3. g = [n \in 0..N |-> g[n]]
    BY <2>1
  <2> QED BY <2>2, <2>3
<1>9. Eq(after)
  <2> HIDE DEF Eq
  <2> QED BY <1>8
<1>10. Parse(u) = after[N]
  BY DEF Parse, N
<1> HIDE DEF after
<1>11. after[0] = u /\ \A n \in 0..N : n # 0 => after[n] = ParseTurn(after[n - 1])
  BY <1>1, <1>9
<1> HIDE DEF Eq
<1> DEFINE S == {n \in Nat : /\ Parsing(after[n], u)
                             /\ Idle(after[n]) \/ Turns(after[n]) + n <= N}
<1>12. \A t : Parsing(t, u) => Turns(t) \in Int /\ (Turns(t) <= 0 => Idle(t))
  <2> SUFFICES ASSUME NEW t, Parsing(t, u) PROVE Turns(t) \in Int /\ (Turns(t) <= 0 => Idle(t))
    OBVIOUS
  <2>1. /\ t.arrived \in Nat /\ t.parsed \in Nat /\ t.heads \in Nat /\ t.done \in Nat
        /\ t.parsed <= t.arrived /\ t.done <= t.heads
    BY DEF Parsing, Typed, ParserTyped, Position
  <2> QED BY <2>1 DEF Turns, Idle
<1>13. 0 \in S
  BY <1>1, <1>11, <1>12 DEF N
<1>14. ASSUME NEW n \in 0..N, n # N, n \in S PROVE n + 1 \in S
  <2> DEFINE t == after[n]
             w == after[n + 1]
  <2>1. w = ParseTurn(t)
    <3>1. n + 1 \in 0..N /\ n + 1 # 0 /\ (n + 1) - 1 = n
      BY <1>1, <1>14
    <3> QED BY <1>11, <3>1
  <2>2. Parsing(t, u) /\ (Idle(t) \/ Turns(t) + n <= N)
    BY <1>14
  <2>3. Parsing(w, u) /\ (Idle(t) => w = t) /\ (~Idle(t) => Turns(w) < Turns(t))
    BY <1>0, <2>1, <2>2, OneTurn
  <2>4. Turns(t) \in Int /\ Turns(w) \in Int
    BY <1>12, <2>2, <2>3
  <2>5. Idle(w) \/ Turns(w) + (n + 1) <= N
    <3> HIDE DEF t, w
    <3>1. CASE Idle(t)
      BY <2>3, <3>1
    <3>2. CASE ~Idle(t)
      BY <1>1, <2>2, <2>3, <2>4, <3>2
    <3> QED BY <3>1, <3>2
  <2> QED BY <2>3, <2>5
<1> HIDE DEF S
<1>15. 0..N \subseteq S
  BY <1>1, <1>13, <1>14, BoundedInduction
<1>16. Parsing(after[N], u) /\ (Idle(after[N]) \/ Turns(after[N]) + N <= N)
  BY <1>1, <1>15 DEF S
<1> QED BY <1>1, <1>10, <1>12, <1>16

(* ----------------------------- received data ---------------------------- *)

\* A state in which data may be given to the parser.
Ready(s) ==
  /\ Typed(s) /\ s.new = <<>> /\ ~s.stop
  /\ Position(s) /\ Bodies(s) /\ Behind(s) /\ PausedFor(s) /\ Counts(s) /\ Failed(s)

\* What feed_data() leaves, and the messages it returns: all that is complete,
\* or the malformed request alone.
Found(t, s) ==
  ~t.failed => /\ t.heads = s.heads + Len(t.new)
               /\ \A j \in 1..Len(t.new) : t.new[j] = s.heads + j
Rests(t) ==
  ~t.failed => /\ t.heads > t.done => (t.rpaused \/ t.parsed = t.arrived) /\ ~t.eof[t.heads]
               /\ t.heads = t.done /\ t.parsed < t.arrived => t.inflight >= MaxQueue
Fails(t, s) ==
  t.failed => \/ t.new = <<t.heads>> /\ (s.failed \/ t.heads > s.heads)
              \/ t.new = <<>> /\ s.failed /\ t.heads = s.heads
Leaves(t, s) ==
  /\ Typed(t) /\ Same(t, s, ByParser) /\ s.heads <= t.heads /\ s.done <= t.done
  /\ Position(t) /\ Bodies(t) /\ Behind(t) /\ PausedFor(t) /\ Counts(t) /\ Failed(t)
  /\ OnlyFor(s) => OnlyFor(t)
  /\ s.failed => t.failed
  /\ Found(t, s) /\ Rests(t) /\ Fails(t, s)

\* Between two feeds there is nothing to clear.
LEMMA ClearFields ==
  ASSUME NEW s, Shape(s), s.new = <<>>, s.stop = FALSE
  PROVE  [s EXCEPT !.new = <<>>, !.stop = FALSE] = s
BY DEF Shape

\* feed_data() parses all that it may, and says what it found.
LEMMA FeedLeaves ==
  ASSUME Given, NEW s, Ready(s)
  PROVE  Leaves(ParserFeed(s), s)
<1> DEFINE t == ParserFeed(s)
           again == [s EXCEPT !.new = <<s.heads>>]
<1>0. /\ Typed(s) /\ s.new = <<>> /\ s.stop = FALSE /\ Shape(s) /\ s.heads \in Nat /\ s.done \in Nat
      /\ Position(s) /\ Bodies(s) /\ Behind(s) /\ PausedFor(s) /\ Counts(s) /\ Failed(s)
      /\ s.failed \in BOOLEAN
  BY DEF Ready, Typed, ParserTyped
<1>1. [s EXCEPT !.new = <<>>, !.stop = FALSE] = s
  BY <1>0, ClearFields
<1>2. t = IF ~s.failed THEN Parse(s) ELSE IF parser = "extension" THEN again ELSE s
  BY <1>1 DEF ParserFeed
<1> HIDE DEF t
<1>3. CASE ~s.failed
  <2>1. Parsing(s, s)
    <3>1. News(s, s)
      BY <1>0, <1>3 DEF News
    <3> QED BY <1>0, <3>1 DEF Parsing, Same, Stopped
  <2>2. t = Parse(s) /\ Parsing(t, s) /\ Idle(t)
    BY <1>2, <1>3, <2>1, ParseRests
  <2> HIDE <1>2
  <2>3. /\ t.arrived \in Nat /\ t.parsed \in Nat /\ t.heads \in Nat /\ t.done \in Nat /\ t.todo \in Nat
        /\ t.inflight \in Nat /\ t.failed \in BOOLEAN /\ t.stop \in BOOLEAN
    BY <2>2 DEF Parsing, Typed, ParserTyped
  <2>4. /\ Typed(t) /\ Same(t, s, ByParser) /\ s.heads <= t.heads /\ s.done <= t.done
        /\ Position(t) /\ Bodies(t) /\ Behind(t) /\ PausedFor(t) /\ Counts(t)
        /\ (OnlyFor(s) => OnlyFor(t)) /\ News(t, s) /\ Stopped(t)
    BY <2>2 DEF Parsing
  <2>5. Failed(t) /\ (t.failed => t.new = <<t.heads>> /\ t.heads > s.heads)
    <3> SUFFICES ASSUME t.failed PROVE t.heads \in Requests /\ Malformed(t.heads) /\ t.new = <<t.heads>> /\ t.heads > s.heads
      BY DEF Failed
    <3>1. t.heads > s.heads /\ t.new = <<t.heads>> /\ Malformed(t.heads) /\ t.heads <= Len(script)
      BY <2>4 DEF News, Position
    <3> QED BY <1>0, <2>3, <3>1 DEF Given
  <2>6. ASSUME ~t.failed, t.heads > t.done PROVE (t.rpaused \/ t.parsed = t.arrived) /\ ~t.eof[t.heads]
    <3>1. t.rpaused \/ (t.todo > 0 /\ t.parsed = t.arrived)
      <4>1. Stopped(t) /\ Idle(t)
        BY <2>2, <2>4
      <4>2. t.heads # t.done
        BY <2>3, <2>6
      <4> QED BY <2>6, <4>1, <4>2 DEF Idle, Stopped
    <3>2. CASE t.rpaused
      BY <2>4, <3>2 DEF Behind
    <3>3. CASE t.todo > 0 /\ t.parsed = t.arrived
      <4>1. script[t.heads].body > 0 /\ t.heads \in Requests
        BY <2>3, <2>4, <2>6, <3>3 DEF Position, Given
      <4>2. t.eof[t.heads] <=> script[t.heads].body = 0
        BY <2>4, <2>6, <4>1 DEF Bodies
      <4>3. script[t.heads].body \in Nat
        BY <4>1 DEF Given
      <4> QED BY <3>3, <4>1, <4>2, <4>3
    <3> QED BY <3>1, <3>2, <3>3
  <2>7. ASSUME ~t.failed, t.heads = t.done, t.parsed < t.arrived PROVE t.inflight >= MaxQueue
    BY <2>2, <2>3, <2>4, <2>7 DEF Idle, Stopped, QueueFull
  <2>8. Found(t, s)
    BY <2>4 DEF News, Found
  <2>9. Rests(t) /\ Fails(t, s)
    BY <2>5, <2>6, <2>7 DEF Rests, Fails
  <2> QED BY <1>3, <2>4, <2>5, <2>8, <2>9 DEF Leaves, t
<1>4. CASE s.failed /\ parser = "extension"
  <2>1. t = again
    BY <1>2, <1>4
  <2>2. Shape(again)
    BY <1>0 DEF Shape
  <2>3. Same(again, s, {"new"})
    BY <1>0 DEF Shape, Same
  <2>4. again.new = <<s.heads>>
    BY <1>0 DEF Shape, Fields
  <2> HIDE DEF again
  <2>5. s.heads \in Requests /\ Malformed(s.heads)
    BY <1>0, <1>4 DEF Failed
  <2>6. /\ Shape(t) /\ Same(t, s, {"new"}) /\ t.new = <<s.heads>> /\ t.new \in Seq(Requests)
    BY <2>1, <2>2, <2>3, <2>4, <2>5
  <2>7. Typed(t)
    <3>1. QueuesTyped(t) BY <1>0, <2>6 DEF Typed, QueuesTyped, Same, Fields
    <3>2. TransportTyped(t) BY <1>0, <2>6 DEF Typed, TransportTyped, Same, Fields
    <3>3. ParserTyped(t) BY <1>0, <2>6 DEF Typed, ParserTyped, Same, Fields
    <3>4. BodiesTyped(t) BY <1>0, <2>6 DEF Typed, BodiesTyped, Same, Fields
    <3>5. StartTyped(t) BY <1>0, <2>6 DEF Typed, StartTyped, Same, Fields
    <3>6. FlagsTyped(t) BY <1>0, <2>6 DEF Typed, FlagsTyped, Same, Fields
    <3> QED BY <2>6, <3>1, <3>2, <3>3, <3>4, <3>5, <3>6 DEF Typed
  <2>8. Same(t, s, ByParser)
    BY <2>6 DEF Same, ByParser
  <2>9. t.heads = s.heads /\ t.done = s.done /\ t.failed = s.failed
    BY <2>6 DEF Same, Fields
  <2>10. Position(t) /\ Bodies(t) /\ Behind(t)
    BY <1>0, <2>6 DEF Same, Fields, Position, Bodies, Behind
  <2>11. PausedFor(t) /\ (OnlyFor(s) => OnlyFor(t))
    BY <1>0, <2>6 DEF Same, Fields, PausedFor, OnlyFor
  <2>12. Counts(t) /\ Failed(t)
    BY <1>4, <2>5, <2>9 DEF Counts, Failed
  <2>13. Found(t, s) /\ Rests(t) /\ Fails(t, s) /\ (s.failed => t.failed)
    BY <1>4, <2>6, <2>9 DEF Found, Rests, Fails
  <2>14. s.heads <= t.heads /\ s.done <= t.done
    BY <1>0, <2>9
  <2> QED BY <2>7, <2>8, <2>10, <2>11, <2>12, <2>13, <2>14 DEF Leaves, t
<1>5. CASE s.failed /\ parser # "extension"
  <2>1. t = s
    BY <1>2, <1>5
  <2>2. Found(s, s) /\ Rests(s) /\ Fails(s, s)
    BY <1>0, <1>5 DEF Found, Rests, Fails
  <2>3. Same(s, s, ByParser) /\ s.heads <= s.heads /\ s.done <= s.done
    BY <1>0 DEF Same
  <2> QED BY <1>0, <2>1, <2>2, <2>3 DEF Leaves, t
<1> QED BY <1>3, <1>4, <1>5

ByData == ByParser \cup {"msgs", "qpaused", "waiter"}

\* The end of data_received(): the messages are in the queue, and the waiter
\* knows.
Queueing(x) ==
  [Enqueue(x) EXCEPT !.stop = FALSE,
     !.waiter = IF x.new # <<>> /\ @ = "pending" THEN "set" ELSE @]

\* Its messages join the queue, and wake who waits for one.
LEMMA QueueingFields ==
  ASSUME Given, NEW s, NEW x, Leaves(x, s)
  PROVE  LET t == Queueing(x)
         IN  /\ Shape(t) /\ Same(t, x, {"new", "msgs", "stop", "waiter"})
             /\ t.new = <<>> /\ t.stop = FALSE
             /\ t.msgs = x.msgs \o x.new
             /\ t.waiter = IF x.new # <<>> /\ x.waiter = "pending" THEN "set" ELSE x.waiter
<1> DEFINE e == Enqueue(x)
           t == Queueing(x)
<1>0. Shape(x)
  BY DEF Leaves, Typed
<1>1. Shape(e) BY <1>0 DEF Shape, Enqueue
<1>2. Same(e, x, {"new", "msgs"}) BY <1>0 DEF Shape, Same, Enqueue
<1>3. e.new = <<>> /\ e.msgs = x.msgs \o x.new BY <1>0 DEF Shape, Fields, Enqueue
<1>4. t = [e EXCEPT !.stop = FALSE, !.waiter = IF x.new # <<>> /\ @ = "pending" THEN "set" ELSE @]
  BY DEF Queueing
<1> HIDE DEF e, t
<1>5. Shape(t) BY <1>1, <1>4 DEF Shape
<1>6. Same(t, e, {"stop", "waiter"}) BY <1>1, <1>4 DEF Shape, Same
<1>7. t.stop = FALSE /\ t.waiter = IF x.new # <<>> /\ e.waiter = "pending" THEN "set" ELSE e.waiter
  BY <1>1, <1>4 DEF Shape, Fields
<1>8. e.waiter = x.waiter BY <1>2 DEF Same, Fields
<1>9. t.new = <<>> /\ t.msgs = x.msgs \o x.new BY <1>3, <1>6 DEF Same, Fields
<1>10. Same(t, x, {"new", "msgs", "stop", "waiter"}) BY <1>2, <1>6 DEF Same
<1> QED BY <1>5, <1>7, <1>8, <1>9, <1>10 DEF t

\* Arithmetic that the provers do not see behind a Len.
LEMMA Sums ==
  /\ \A a, b \in Nat : a + b \in Nat /\ a <= a + b /\ b <= a + b
  /\ \A a, b, d \in Int : a <= b /\ b <= d => a <= d
  /\ \A a, b, d \in Int : a <= b /\ a > d => b > d
  /\ \A a, b \in Nat : b > 0 => a + b > 0
OBVIOUS

\* An empty queue of the reader's is not why the transport is paused.
Drained(t) ==
  ~t.closing /\ ~t.force /\ ~t.failed /\ Len(t.msgs) < MaxQueue =>
    (t.heads = t.done /\ t.parsed < t.arrived => t.inflight > Len(t.msgs))

\* Who waits is told of what came.
Told(t, s) ==
  \/ t.waiter = s.waiter /\ (s.waiter = "pending" => t.msgs = s.msgs /\ t.heads = s.heads)
  \/ s.waiter = "pending" /\ t.waiter = "set" /\ Len(t.msgs) > 0

\* What data_received() leaves.
Received(t, s) ==
  /\ Parsed(t) /\ Same(t, s, ByData)
  /\ OnlyFor(s) => OnlyFor(t)
  /\ Full(s) => Full(t)
  /\ s.heads <= t.heads /\ s.done <= t.done /\ Len(s.msgs) <= Len(t.msgs)
  /\ Drained(t) /\ Told(t, s)
  /\ \A b \in Nat : Queued(s, b) => Queued(t, b)

\* The messages of a feed go on where the queue ends.
LEMMA QueuedMore ==
  ASSUME Given, NEW s, QueuesTyped(s), s.heads \in Nat, NEW x, QueuesTyped(x), x.msgs = s.msgs,
         x.heads \in Nat, Found(x, s), Fails(x, s), s.failed => x.failed, Failed(x),
         NEW t, t.msgs = x.msgs \o x.new, t.heads = x.heads, t.failed = x.failed,
         NEW b \in Nat, Queued(s, b)
  PROVE  Queued(t, b)
<1> DEFINE m == s.msgs
           w == x.new
           q == m \o w
<1>1. m \in Seq(Requests) /\ w \in Seq(Requests) /\ Len(m) \in Nat /\ Len(w) \in Nat
  BY LenProperties DEF QueuesTyped
<1>9. /\ Len(q) = Len(m) + Len(w)
      /\ \A j \in 1..Len(m) + Len(w) : q[j] = IF j <= Len(m) THEN m[j] ELSE w[j - Len(m)]
  <2> HIDE DEF m, w
  <2> QED BY <1>1, ConcatProperties
<1>2. /\ Len(q) = Len(m) + Len(w)
      /\ \A j \in 1..Len(q) : q[j] = IF j <= Len(m) THEN m[j] ELSE w[j - Len(m)]
  <2> HIDE DEF m, q, w
  <2> QED BY <1>9
<1>3. t.msgs = q /\ Len(q) \in Nat
  <2>1. t.msgs = q
    OBVIOUS
  <2> HIDE DEF m, q, w
  <2>2. Len(q) \in Nat
    BY <1>1, <1>2, Sums
  <2> QED BY <2>1, <2>2
<1>4. /\ (\A j \in 1..Len(m) : \/ m[j] = b + j
                               \/ Malformed(m[j]) /\ (b + j <= m[j] \/ (j > 1 /\ Malformed(m[j - 1]))))
      /\ (~s.failed => s.heads = b + Len(m))
      /\ (s.failed => Len(m) > 0 /\ Malformed(m[Len(m)]))
  BY DEF Queued
<1> HIDE DEF m, q, w
<1> DEFINE Fits(j) == \/ q[j] = b + j
                      \/ Malformed(q[j]) /\ (b + j <= q[j] \/ (j > 1 /\ Malformed(q[j - 1])))
<1>5. \A j \in 1..Len(m) : Fits(j)
  <2> SUFFICES ASSUME NEW j \in 1..Len(m) PROVE Fits(j)
    OBVIOUS
  <2>1. q[j] = m[j] /\ (j > 1 => q[j - 1] = m[j - 1])
    BY <1>1, <1>2
  <2> QED BY <1>4, <2>1
<1>6. CASE ~x.failed
  <2>1. x.heads = s.heads + Len(w) /\ (\A j \in 1..Len(w) : w[j] = s.heads + j) /\ s.heads = b + Len(m)
    BY <1>4, <1>6 DEF Found, w
  <2>2. ASSUME NEW j \in 1..Len(q), ~(j \in 1..Len(m)) PROVE q[j] = b + j
    <3>1. j - Len(m) \in 1..Len(w) /\ q[j] = w[j - Len(m)]
      BY <1>1, <1>2, <2>2
    <3> QED BY <1>1, <2>1, <3>1
  <2>3. \A j \in 1..Len(q) : Fits(j)
    BY <1>5, <2>2
  <2>4. t.heads = b + Len(q)
    BY <1>1, <1>2, <2>1
  <2> QED BY <1>3, <1>6, <2>3, <2>4 DEF Queued
<1>7. CASE x.failed /\ w = <<>>
  <2>1. Len(w) = 0 /\ s.failed
    BY <1>7 DEF Fails, w
  <2>2. Len(q) = Len(m)
    BY <1>1, <1>2, <2>1
  <2>3. Len(m) > 0 /\ Malformed(q[Len(q)])
    BY <1>1, <1>2, <1>4, <2>1, <2>2
  <2> QED BY <1>3, <1>5, <1>7, <2>2, <2>3 DEF Queued
<1>8. CASE x.failed /\ w # <<>>
  <2>1. w = <<x.heads>> /\ Malformed(x.heads) /\ (s.failed \/ x.heads > s.heads)
    BY <1>8 DEF Fails, Failed, w
  <2>2. Len(w) = 1 /\ w[1] = x.heads
    BY <2>1
  <2>3. Len(q) = Len(m) + 1 /\ q[Len(m) + 1] = x.heads
    BY <1>1, <1>2, <2>2
  <2>4. Fits(Len(m) + 1)
    <3>1. CASE s.failed
      <4>1. Len(m) > 0 /\ Malformed(m[Len(m)]) /\ q[Len(m)] = m[Len(m)] /\ (Len(m) + 1) - 1 = Len(m)
        BY <1>1, <1>2, <1>4, <2>3, <3>1
      <4> QED BY <1>1, <2>1, <2>3, <4>1
    <3>2. CASE ~s.failed
      BY <1>1, <1>4, <2>1, <2>3, <3>2
    <3> QED BY <3>1, <3>2
  <2>5. \A j \in 1..Len(q) : j \in 1..Len(m) \/ j = Len(m) + 1
    BY <1>1, <2>3
  <2>6. \A j \in 1..Len(q) : Fits(j)
    BY <1>5, <2>4, <2>5
  <2>7. Len(q) > 0 /\ Malformed(q[Len(q)])
    BY <1>1, <2>1, <2>3
  <2> QED BY <1>3, <1>8, <2>6, <2>7 DEF Queued
<1> QED BY <1>6, <1>7, <1>8

\* What one feed leaves, the next may be given.
LEMMA ParsedIsReady ==
  ASSUME NEW s, Parsed(s)
  PROVE  Ready(s)
BY DEF Parsed, Ready

\* data_received() keeps what the parser guarantees and pauses the transport on a full queue.
LEMMA DataReceivedLeaves ==
  ASSUME Given, NEW s, Ready(s)
  PROVE  Received(DataReceived(s), s)
<1> DEFINE t == DataReceived(s)
           x == ParserFeed(s)
           q == Queueing(x)
           full == [q EXCEPT !.qpaused = TRUE]
<1>0. /\ Typed(s) /\ s.new = <<>> /\ ~s.stop /\ Position(s) /\ Bodies(s) /\ Behind(s) /\ PausedFor(s)
      /\ Counts(s) /\ Failed(s)
      /\ s.heads \in Nat /\ s.done \in Nat /\ Len(s.msgs) \in Nat /\ QueuesTyped(s)
      /\ s.force \in BOOLEAN /\ s.closing \in BOOLEAN
  BY LenProperties DEF Ready, Typed, ParserTyped, QueuesTyped, FlagsTyped
<1>1. CASE s.force \/ s.closing
  <2>1. t = s
    BY <1>1 DEF DataReceived
  <2>2. Resumed(s) /\ Drained(s)
    BY <1>0, <1>1 DEF Resumed, Drained
  <2>3. Parsed(s) /\ Same(s, s, ByData) /\ Told(s, s)
    BY <1>0, <2>2 DEF Parsed, Same, Told
  <2> QED BY <1>0, <2>1, <2>2, <2>3 DEF Received
<1>2. CASE ~s.force /\ ~s.closing
  <2>1. t = IF ~q.qpaused /\ Len(q.msgs) >= MaxQueue THEN PauseTransport(full) ELSE q
    BY <1>2 DEF DataReceived, Queueing
  <2>2. Leaves(x, s)
    BY FeedLeaves
  <2>3. /\ Shape(q) /\ Same(q, x, {"new", "msgs", "stop", "waiter"})
        /\ q.new = <<>> /\ q.stop = FALSE
        /\ q.msgs = x.msgs \o x.new
        /\ q.waiter = IF x.new # <<>> /\ x.waiter = "pending" THEN "set" ELSE x.waiter
    BY <2>2, QueueingFields
  <2> HIDE DEF t, x, q
  <2>4. /\ Typed(x) /\ Same(x, s, ByParser) /\ s.heads <= x.heads /\ s.done <= x.done
        /\ Position(x) /\ Bodies(x) /\ Behind(x) /\ PausedFor(x) /\ Counts(x) /\ Failed(x)
        /\ (OnlyFor(s) => OnlyFor(x)) /\ (s.failed => x.failed)
        /\ Found(x, s) /\ Rests(x) /\ Fails(x, s)
    BY <2>2 DEF Leaves
  <2>5. /\ x.msgs = s.msgs /\ x.waiter = s.waiter /\ x.qpaused = s.qpaused
        /\ x.closing = s.closing /\ x.force = s.force
    BY <2>4 DEF Same, Fields, ByParser
  <2>6. /\ x.new \in Seq(Requests) /\ x.msgs \in Seq(Requests) /\ QueuesTyped(x)
        /\ Len(x.new) \in Nat /\ Len(x.msgs) \in Nat
        /\ q.msgs \in Seq(Requests) /\ Len(q.msgs) = Len(x.msgs) + Len(x.new)
    BY <2>3, <2>4, LenProperties, ConcatProperties DEF Typed, QueuesTyped
  <2>22. /\ MaxQueue \in Nat \ {0} /\ MaxQueue \in Int /\ MaxQueue \div 2 \in Int /\ MaxQueue > MaxQueue \div 2
         /\ Len(q.msgs) \in Nat /\ Len(q.msgs) \in Int /\ Len(s.msgs) \in Int
    <3>1. Len(q.msgs) \in Nat
      BY <2>6, Sums
    <3>2. \A n \in Nat : n \in Int
      OBVIOUS
    <3>3. \A n \in Nat \ {0} : n \in Int /\ n \div 2 \in Int /\ n > n \div 2
      OBVIOUS
    <3> QED BY <1>0, <3>1, <3>2, <3>3 DEF Given
  <2>7. /\ x.heads \in Nat /\ x.done \in Nat /\ x.parsed \in Nat /\ x.arrived \in Nat /\ x.inflight \in Nat
        /\ x.failed \in BOOLEAN /\ x.qpaused \in BOOLEAN /\ x.attached \in BOOLEAN
        /\ x.waiter \in {"none", "pending", "set", "cancelled"}
    BY <2>4 DEF Typed, ParserTyped, TransportTyped, StartTyped
  <2>8. /\ q.heads = x.heads /\ q.done = x.done /\ q.parsed = x.parsed /\ q.arrived = x.arrived
        /\ q.inflight = x.inflight /\ q.failed = x.failed /\ q.eof = x.eof /\ q.buf = x.buf
        /\ q.rpaused = x.rpaused /\ q.tpaused = x.tpaused /\ q.qpaused = x.qpaused
        /\ q.attached = x.attached /\ q.closing = x.closing /\ q.force = x.force /\ q.todo = x.todo
        /\ q.ppaused = x.ppaused
    BY <2>3 DEF Same, Fields
  <2>9. Typed(q)
    <3>1. QueuesTyped(q) BY <2>3, <2>4, <2>6 DEF Typed, QueuesTyped, Same, Fields
    <3>2. TransportTyped(q) BY <2>3, <2>4 DEF Typed, TransportTyped, Same, Fields
    <3>3. ParserTyped(q) BY <2>3, <2>4 DEF Typed, ParserTyped, Same, Fields
    <3>4. BodiesTyped(q) BY <2>3, <2>4 DEF Typed, BodiesTyped, Same, Fields
    <3>5. StartTyped(q) BY <2>3, <2>4 DEF Typed, StartTyped, Same, Fields
    <3>6. FlagsTyped(q) BY <2>3, <2>4 DEF Typed, FlagsTyped, Same, Fields
    <3> QED BY <2>3, <3>1, <3>2, <3>3, <3>4, <3>5, <3>6 DEF Typed
  <2>10. Position(q) /\ Bodies(q) /\ Behind(q)
    <3>1. Position(q) BY <2>4, <2>8 DEF Position
    <3>2. Bodies(q) BY <2>4, <2>8 DEF Bodies
    <3>3. Behind(q) BY <2>4, <2>8 DEF Behind
    <3> QED BY <3>1, <3>2, <3>3
  <2>11. PausedFor(q) /\ (OnlyFor(s) => OnlyFor(q))
    BY <2>4, <2>8 DEF PausedFor, OnlyFor
  <2>12. Counts(q)
    <3>1. Len(q.new) = 0
      BY <2>3
    <3>2. Len(q.msgs) + Len(q.new) = Len(x.msgs) + Len(x.new)
      BY <2>6, <3>1
    <3> QED BY <2>4, <2>8, <3>2 DEF Counts
  <2>13. Failed(q)
    BY <2>4, <2>8 DEF Failed
  <2>14. Same(q, s, ByData)
    BY <2>3, <2>4 DEF Same, ByData, ByParser
  <2>15. Told(q, s)
    <3>1. CASE x.new = <<>>
      <4>1. q.msgs = s.msgs
        BY <2>3, <2>5, <2>6, <3>1, ConcatEmptySeq
      <4>2. q.heads = s.heads
        BY <1>0, <2>4, <2>8, <3>1 DEF Found, Fails
      <4> QED BY <2>3, <2>5, <3>1, <4>1, <4>2 DEF Told
    <3>2. CASE x.new # <<>>
      <4>1. Len(x.new) > 0
        BY <2>6, <3>2, EmptySeq
      <4>2. Len(q.msgs) > 0
        BY <2>6, <4>1, Sums
      <4> QED BY <2>3, <2>5, <3>2, <4>2 DEF Told
    <3> QED BY <3>1, <3>2
  <2>16. ASSUME NEW b \in Nat, Queued(s, b) PROVE Queued(q, b)
    <3>1. QueuesTyped(s) /\ s.heads \in Nat /\ QueuesTyped(x) /\ x.msgs = s.msgs /\ x.heads \in Nat
      BY <1>0, <2>5, <2>6, <2>7
    <3>2. Found(x, s) /\ Fails(x, s) /\ (s.failed => x.failed) /\ Failed(x)
      BY <2>4
    <3>3. q.msgs = x.msgs \o x.new /\ q.heads = x.heads /\ q.failed = x.failed
      BY <2>3, <2>8
    <3> QED BY <2>16, <3>1, <3>2, <3>3, QueuedMore
  <2>17. Len(s.msgs) <= Len(q.msgs) /\ s.heads <= q.heads /\ s.done <= q.done
    <3>1. s.heads <= q.heads /\ s.done <= q.done
      BY <2>4, <2>8
    <3>2. Len(x.msgs) <= Len(q.msgs)
      BY <2>6, Sums
    <3> QED BY <2>5, <3>1, <3>2
  <2>18. ASSUME ~q.failed PROVE /\ q.heads > q.done => (q.rpaused \/ q.parsed = q.arrived) /\ ~q.eof[q.heads]
                                /\ q.heads = q.done /\ q.parsed < q.arrived => q.inflight >= MaxQueue
    BY <2>4, <2>8, <2>18 DEF Rests
  <2>19. Drained(q)
    <3>1. MaxQueue \in Nat /\ Len(q.msgs) \in Nat /\ q.inflight \in Nat
      BY <2>7, <2>8, <2>22
    <3> QED BY <2>18, <3>1 DEF Drained
  <2>20. CASE ~(~q.qpaused /\ Len(q.msgs) >= MaxQueue)
    <3>1. t = q
      BY <2>1, <2>20
    <3>2. ASSUME Full(s) PROVE Full(q)
      <4>1. s.qpaused => Len(s.msgs) > MaxQueue \div 2
        BY <3>2 DEF Full
      <4>2. Len(s.msgs) > MaxQueue \div 2 => Len(q.msgs) > MaxQueue \div 2
        BY <2>17, <2>22, Sums
      <4> QED BY <2>5, <2>8, <4>1, <4>2 DEF Full
    <3>3. Resumed(q)
      <4>1. MaxQueue \in Nat /\ Len(q.msgs) \in Nat /\ q.inflight \in Nat
        BY <2>7, <2>8, <2>22
      <4>2. ASSUME ~q.failed, q.heads = q.done, q.parsed < q.arrived PROVE q.qpaused \/ q.inflight > Len(q.msgs)
        <5>1. q.inflight >= MaxQueue
          BY <2>18, <4>2
        <5> QED BY <2>20, <4>1, <5>1
      <4> QED BY <2>18, <4>2 DEF Resumed
    <3>4. Parsed(q)
      BY <2>3, <2>9, <2>10, <2>11, <2>12, <2>13, <3>3 DEF Parsed
    <3> QED BY <2>11, <2>14, <2>15, <2>16, <2>17, <2>19, <3>1, <3>2, <3>4 DEF Received, t
  <2>21. CASE ~q.qpaused /\ Len(q.msgs) >= MaxQueue
    <3>1. Shape(full) BY <2>3 DEF Shape
    <3>2. Same(full, q, {"qpaused"}) BY <2>3 DEF Shape, Same
    <3>3. full.qpaused = TRUE BY <2>3 DEF Shape, Fields
    <3> HIDE DEF full
    <3>4. TransportTyped(full) /\ full.attached = q.attached
      BY <2>9, <3>2, <3>3 DEF Typed, TransportTyped, Same, Fields
    <3>5. t = PauseTransport(full)
      BY <2>1, <2>21
    <3>6. /\ Shape(t) /\ Same(t, full, {"tpaused"}) /\ t.tpaused \in BOOLEAN
          /\ (t.tpaused <=> full.tpaused \/ full.attached)
      BY <3>1, <3>4, <3>5, PauseFields
    <3>7. /\ Same(t, q, {"qpaused", "tpaused"}) /\ t.qpaused = TRUE /\ t.attached = q.attached
          /\ (q.attached => t.tpaused)
      BY <3>2, <3>3, <3>4, <3>6 DEF Same, Fields
    <3>8. /\ t.heads = q.heads /\ t.done = q.done /\ t.parsed = q.parsed /\ t.arrived = q.arrived
          /\ t.inflight = q.inflight /\ t.failed = q.failed /\ t.eof = q.eof /\ t.buf = q.buf
          /\ t.rpaused = q.rpaused /\ t.closing = q.closing /\ t.force = q.force /\ t.todo = q.todo
          /\ t.ppaused = q.ppaused /\ t.msgs = q.msgs /\ t.new = q.new /\ t.stop = q.stop
          /\ t.waiter = q.waiter
      BY <3>7 DEF Same, Fields
    <3>9. Typed(t)
      <4>1. QueuesTyped(t) BY <2>9, <3>7 DEF Typed, QueuesTyped, Same, Fields
      <4>2. TransportTyped(t) BY <2>9, <3>6, <3>7 DEF Typed, TransportTyped, Same, Fields
      <4>3. ParserTyped(t) BY <2>9, <3>7 DEF Typed, ParserTyped, Same, Fields
      <4>4. BodiesTyped(t) BY <2>9, <3>7 DEF Typed, BodiesTyped, Same, Fields
      <4>5. StartTyped(t) BY <2>9, <3>7 DEF Typed, StartTyped, Same, Fields
      <4>6. FlagsTyped(t) BY <2>9, <3>7 DEF Typed, FlagsTyped, Same, Fields
      <4> QED BY <3>6, <4>1, <4>2, <4>3, <4>4, <4>5, <4>6 DEF Typed
    <3>10. Position(t) /\ Bodies(t) /\ Behind(t)
      <4>1. Position(t) BY <2>10, <3>8 DEF Position
      <4>2. Bodies(t) BY <2>10, <3>8 DEF Bodies
      <4>3. Behind(t) BY <2>10, <3>8 DEF Behind
      <4> QED BY <4>1, <4>2, <4>3
    <3>11. PausedFor(t) /\ OnlyFor(t)
      BY <3>7 DEF PausedFor, OnlyFor
    <3>12. Counts(t) /\ Failed(t)
      BY <2>12, <2>13, <3>8 DEF Counts, Failed
    <3>13. Full(t)
      <4>1. Len(q.msgs) > MaxQueue \div 2
        BY <2>21, <2>22, Sums
      <4> QED BY <3>8, <4>1 DEF Full
    <3>14. Resumed(t)
      BY <2>18, <3>7, <3>8 DEF Resumed
    <3>15. Parsed(t)
      BY <2>3, <3>8, <3>9, <3>10, <3>11, <3>12, <3>14 DEF Parsed
    <3>16. Same(t, s, ByData)
      BY <2>14, <3>7 DEF Same, ByData, ByParser
    <3>17. Drained(t) /\ Told(t, s)
      BY <2>15, <2>19, <3>8 DEF Drained, Told
    <3>18. ASSUME NEW b \in Nat, Queued(s, b) PROVE Queued(t, b)
      BY <2>16, <3>8, <3>18 DEF Queued
    <3>19. Len(s.msgs) <= Len(t.msgs) /\ s.heads <= t.heads /\ s.done <= t.done
      BY <2>17, <3>8
    <3> QED BY <3>11, <3>13, <3>15, <3>16, <3>17, <3>18, <3>19 DEF Received, t
  <2> QED BY <2>20, <2>21
<1> QED BY <1>1, <1>2

(* ------------------------- readers that resume -------------------------- *)

\* Only the pause of the transport has changed, and for a reason.
LEMMA ResumeTransportLeaves ==
  ASSUME NEW s, Parsed(s)
  PROVE  LET t == ResumeTransport(s)
         IN  Parsed(t) /\ OnlyFor(t) /\ Same(t, s, {"tpaused"})
<1> DEFINE t == ResumeTransport(s)
<1>0. /\ Typed(s) /\ Shape(s) /\ TransportTyped(s)
      /\ Position(s) /\ Bodies(s) /\ Behind(s) /\ PausedFor(s) /\ Resumed(s) /\ Counts(s) /\ Failed(s)
      /\ s.new = <<>> /\ ~s.stop
  BY DEF Parsed, Typed
<1>1. /\ Shape(t) /\ Same(t, s, {"tpaused"}) /\ t.tpaused \in BOOLEAN
      /\ (t.tpaused <=> s.tpaused /\ (s.attached => s.rpaused \/ s.qpaused))
  BY <1>0, ResumeFields
<1> HIDE DEF t
<1>2. Typed(t)
  <2>1. QueuesTyped(t) BY <1>0, <1>1 DEF Typed, QueuesTyped, Same, Fields
  <2>2. TransportTyped(t) BY <1>0, <1>1 DEF Typed, TransportTyped, Same, Fields
  <2>3. ParserTyped(t) BY <1>0, <1>1 DEF Typed, ParserTyped, Same, Fields
  <2>4. BodiesTyped(t) BY <1>0, <1>1 DEF Typed, BodiesTyped, Same, Fields
  <2>5. StartTyped(t) BY <1>0, <1>1 DEF Typed, StartTyped, Same, Fields
  <2>6. FlagsTyped(t) BY <1>0, <1>1 DEF Typed, FlagsTyped, Same, Fields
  <2> QED BY <1>1, <2>1, <2>2, <2>3, <2>4, <2>5, <2>6 DEF Typed
<1>3. /\ t.heads = s.heads /\ t.done = s.done /\ t.parsed = s.parsed /\ t.arrived = s.arrived
      /\ t.inflight = s.inflight /\ t.failed = s.failed /\ t.eof = s.eof /\ t.buf = s.buf
      /\ t.rpaused = s.rpaused /\ t.closing = s.closing /\ t.force = s.force /\ t.todo = s.todo
      /\ t.ppaused = s.ppaused /\ t.msgs = s.msgs /\ t.new = s.new /\ t.stop = s.stop
      /\ t.attached = s.attached /\ t.qpaused = s.qpaused
  BY <1>1 DEF Same, Fields
<1>4. Position(t) /\ Bodies(t)
  BY <1>0, <1>3 DEF Position, Bodies
<1>5. Behind(t) /\ Counts(t) /\ Failed(t)
  BY <1>0, <1>3 DEF Behind, Counts, Failed
<1>6. PausedFor(t) /\ OnlyFor(t)
  BY <1>0, <1>1, <1>3 DEF PausedFor, OnlyFor
<1>7. Resumed(t)
  BY <1>0, <1>3 DEF Resumed
<1> QED BY <1>0, <1>1, <1>2, <1>3, <1>4, <1>5, <1>6, <1>7 DEF Parsed, t

\* What a reader leaves that has resumed the transport.
Resumes(t, s) ==
  /\ Parsed(t) /\ OnlyFor(t) /\ Same(t, s, ByData)
  /\ s.heads <= t.heads /\ s.done <= t.done /\ Len(s.msgs) <= Len(t.msgs)
  /\ Told(t, s)
  /\ \A b \in Nat : Queued(s, b) => Queued(t, b)

\* The body of the request that is handled has been read.
Emptied(s) == [[s EXCEPT !.buf[s.cur] = 0, !.wake = FALSE] EXCEPT !.rpaused = FALSE]

\* A reader of a body that has taken what is there resumes the transport and the parser.
LEMMA TakeBodyLeaves ==
  ASSUME Given, NEW s, Parsed(s), Full(s), s.cur \in Requests
  PROVE  Resumes(TakeBody(s), s) /\ Full(TakeBody(s))
<1> DEFINE z == Emptied(s)
           y == [s EXCEPT !.buf[s.cur] = 0, !.wake = FALSE]
           d == DataReceived(z)
           t == TakeBody(s)
<1>0. /\ Typed(s) /\ Shape(s) /\ TransportTyped(s) /\ s.buf \in [Requests -> Nat]
      /\ Position(s) /\ Bodies(s) /\ Behind(s) /\ PausedFor(s) /\ Resumed(s) /\ Counts(s) /\ Failed(s)
      /\ s.new = <<>> /\ ~s.stop /\ s.rpaused \in BOOLEAN
  BY DEF Parsed, Typed, BodiesTyped, TransportTyped
<1>1. t = ResumeTransport(d)
  BY DEF TakeBody, ResumeReading, Emptied
<1>2. /\ Shape(z) /\ Same(z, s, {"buf", "wake", "rpaused"})
      /\ z.rpaused = FALSE /\ z.wake = FALSE /\ z.buf \in [Requests -> Nat]
  <2>1. Shape(y) BY <1>0 DEF Shape
  <2>2. Same(y, s, {"buf", "wake"}) BY <1>0 DEF Shape, Same
  <2>3. y.wake = FALSE /\ y.buf = [s.buf EXCEPT ![s.cur] = 0] BY <1>0 DEF Shape, Fields
  <2>4. z = [y EXCEPT !.rpaused = FALSE] BY DEF Emptied
  <2> HIDE DEF y, z
  <2>5. Shape(z) BY <2>1, <2>4 DEF Shape
  <2>6. Same(z, y, {"rpaused"}) BY <2>1, <2>4 DEF Shape, Same
  <2>7. z.rpaused = FALSE BY <2>1, <2>4 DEF Shape, Fields
  <2>8. z.wake = FALSE /\ z.buf = [s.buf EXCEPT ![s.cur] = 0] BY <2>3, <2>6 DEF Same, Fields
  <2>9. Same(z, s, {"buf", "wake", "rpaused"}) BY <2>2, <2>6 DEF Same
  <2>10. z.buf \in [Requests -> Nat] BY <1>0, <2>8
  <2> QED BY <2>5, <2>7, <2>8, <2>9, <2>10
<1> HIDE DEF y, z
<1>3. /\ z.heads = s.heads /\ z.done = s.done /\ z.parsed = s.parsed /\ z.arrived = s.arrived
      /\ z.inflight = s.inflight /\ z.failed = s.failed /\ z.eof = s.eof /\ z.todo = s.todo
      /\ z.ppaused = s.ppaused /\ z.msgs = s.msgs /\ z.new = s.new /\ z.stop = s.stop
      /\ z.attached = s.attached /\ z.qpaused = s.qpaused /\ z.tpaused = s.tpaused /\ z.waiter = s.waiter
  BY <1>2 DEF Same, Fields
<1>4. Ready(z)
  <2>1. Typed(z)
    <3>1. QueuesTyped(z) BY <1>0, <1>2 DEF Typed, QueuesTyped, Same, Fields
    <3>2. TransportTyped(z) BY <1>0, <1>2 DEF Typed, TransportTyped, Same, Fields
    <3>3. ParserTyped(z) BY <1>0, <1>2 DEF Typed, ParserTyped, Same, Fields
    <3>4. BodiesTyped(z) BY <1>0, <1>2 DEF Typed, BodiesTyped, Same, Fields
    <3>5. StartTyped(z) BY <1>0, <1>2 DEF Typed, StartTyped, Same, Fields
    <3>6. FlagsTyped(z) BY <1>0, <1>2 DEF Typed, FlagsTyped, Same, Fields
    <3> QED BY <1>2, <3>1, <3>2, <3>3, <3>4, <3>5, <3>6 DEF Typed
  <2>2. Position(z) /\ Bodies(z)
    BY <1>0, <1>3 DEF Position, Bodies
  <2>3. Behind(z) /\ PausedFor(z)
    BY <1>0, <1>2, <1>3 DEF Behind, PausedFor
  <2>4. Counts(z) /\ Failed(z)
    BY <1>0, <1>3 DEF Counts, Failed
  <2> QED BY <1>0, <1>3, <2>1, <2>2, <2>3, <2>4 DEF Ready
<1>5. Received(d, z)
  BY <1>4, DataReceivedLeaves
<1> HIDE DEF d
<1>6. Parsed(t) /\ OnlyFor(t) /\ Same(t, d, {"tpaused"})
  BY <1>1, <1>5, ResumeTransportLeaves DEF Received
<1> HIDE DEF t
<1>7. Same(t, s, ByData)
  BY <1>2, <1>5, <1>6 DEF Received, Same, ByData, ByParser
<1>8. /\ t.heads = d.heads /\ t.done = d.done /\ t.msgs = d.msgs /\ t.waiter = d.waiter
      /\ t.failed = d.failed /\ t.qpaused = d.qpaused
  BY <1>6 DEF Same, Fields
<1>9. Told(t, s)
  <2>1. Told(d, z)
    BY <1>5 DEF Received
  <2> QED BY <1>3, <1>8, <2>1 DEF Told
<1>10. s.heads <= t.heads /\ s.done <= t.done /\ Len(s.msgs) <= Len(t.msgs)
  BY <1>3, <1>5, <1>8 DEF Received
<1>11. ASSUME NEW b \in Nat, Queued(s, b) PROVE Queued(t, b)
  <2>1. Queued(z, b)
    BY <1>3, <1>11 DEF Queued
  <2>2. Queued(d, b)
    BY <1>5, <2>1 DEF Received
  <2> QED BY <1>8, <2>2 DEF Queued
<1>12. Full(t)
  <2>1. Full(z)
    BY <1>3 DEF Full
  <2>2. Full(d)
    BY <1>5, <2>1 DEF Received
  <2> QED BY <1>8, <2>2 DEF Full
<1> QED BY <1>6, <1>7, <1>9, <1>10, <1>11, <1>12 DEF Resumes, t

\* So does start() when the queue has drained, unless it has filled up again.
LEMMA ResumeQueueLeaves ==
  ASSUME Given, NEW s, Ready(s), OnlyFor(s)
  PROVE  Resumes(ResumeMsgQueueReading(s), s) /\ Full(ResumeMsgQueueReading(s))
<1> DEFINE d == DataReceived(s)
           z == [d EXCEPT !.qpaused = FALSE]
           t == ResumeMsgQueueReading(s)
<1>0. Received(d, s)
  BY DataReceivedLeaves
<1>1. t = IF Len(d.msgs) >= MaxQueue THEN d ELSE ResumeTransport(z)
  BY DEF ResumeMsgQueueReading
<1> HIDE DEF d, t
<1>2. /\ Parsed(d) /\ Same(d, s, ByData) /\ OnlyFor(d)
      /\ s.heads <= d.heads /\ s.done <= d.done /\ Len(s.msgs) <= Len(d.msgs)
      /\ Drained(d) /\ Told(d, s) /\ (\A b \in Nat : Queued(s, b) => Queued(d, b))
  BY <1>0 DEF Received
<1>3. /\ Typed(d) /\ Shape(d) /\ TransportTyped(d) /\ Len(d.msgs) \in Nat
      /\ Position(d) /\ Bodies(d) /\ Behind(d) /\ PausedFor(d) /\ Resumed(d) /\ Counts(d) /\ Failed(d)
      /\ d.new = <<>> /\ ~d.stop
  BY <1>2, LenProperties DEF Parsed, Typed, QueuesTyped
<1>4. CASE Len(d.msgs) >= MaxQueue
  <2>1. Full(d)
    <3>1. \A n \in Nat \ {0} : n \in Int /\ n \div 2 \in Int /\ n > n \div 2
      OBVIOUS
    <3>2. \A n \in Nat : n \in Int
      OBVIOUS
    <3>3. Len(d.msgs) > MaxQueue \div 2
      BY <1>3, <1>4, <3>1, <3>2, Sums DEF Given
    <3> QED BY <3>3 DEF Full
  <2>2. t = d
    BY <1>1, <1>4
  <2> QED BY <1>2, <2>1, <2>2 DEF Resumes, t
<1>5. CASE ~(Len(d.msgs) >= MaxQueue)
  <2>1. t = ResumeTransport(z)
    BY <1>1, <1>5
  <2>2. Shape(z) BY <1>3 DEF Shape
  <2>3. Same(z, d, {"qpaused"}) BY <1>3 DEF Shape, Same
  <2>4. z.qpaused = FALSE BY <1>3 DEF Shape, Fields
  <2> HIDE DEF z
  <2>5. /\ z.heads = d.heads /\ z.done = d.done /\ z.parsed = d.parsed /\ z.arrived = d.arrived
        /\ z.inflight = d.inflight /\ z.failed = d.failed /\ z.eof = d.eof /\ z.todo = d.todo
        /\ z.ppaused = d.ppaused /\ z.msgs = d.msgs /\ z.new = d.new /\ z.stop = d.stop
        /\ z.attached = d.attached /\ z.rpaused = d.rpaused /\ z.tpaused = d.tpaused /\ z.waiter = d.waiter
        /\ z.buf = d.buf /\ z.closing = d.closing /\ z.force = d.force
    BY <2>3 DEF Same, Fields
  <2>6. Typed(z)
    <3>1. QueuesTyped(z) BY <1>3, <2>3 DEF Typed, QueuesTyped, Same, Fields
    <3>2. TransportTyped(z) BY <1>3, <2>3, <2>4 DEF Typed, TransportTyped, Same, Fields
    <3>3. ParserTyped(z) BY <1>3, <2>3 DEF Typed, ParserTyped, Same, Fields
    <3>4. BodiesTyped(z) BY <1>3, <2>3 DEF Typed, BodiesTyped, Same, Fields
    <3>5. StartTyped(z) BY <1>3, <2>3 DEF Typed, StartTyped, Same, Fields
    <3>6. FlagsTyped(z) BY <1>3, <2>3 DEF Typed, FlagsTyped, Same, Fields
    <3> QED BY <2>2, <3>1, <3>2, <3>3, <3>4, <3>5, <3>6 DEF Typed
  <2>7. Position(z) /\ Bodies(z)
    BY <1>3, <2>5 DEF Position, Bodies
  <2>8. Behind(z) /\ PausedFor(z)
    BY <1>3, <2>4, <2>5 DEF Behind, PausedFor
  <2>9. Counts(z) /\ Failed(z)
    BY <1>3, <2>5 DEF Counts, Failed
  <2>10. Resumed(z)
    <3>1. Len(d.msgs) < MaxQueue
      BY <1>3, <1>5 DEF Given
    <3> QED BY <1>2, <1>3, <2>4, <2>5, <3>1 DEF Resumed, Drained
  <2>11. Parsed(z)
    BY <1>3, <2>5, <2>6, <2>7, <2>8, <2>9, <2>10 DEF Parsed
  <2>12. Parsed(t) /\ OnlyFor(t) /\ Same(t, z, {"tpaused"})
    BY <2>1, <2>11, ResumeTransportLeaves
  <2>13. Same(t, s, ByData)
    BY <1>2, <2>3, <2>12 DEF Same, ByData, ByParser
  <2>14. /\ t.heads = d.heads /\ t.done = d.done /\ t.msgs = d.msgs /\ t.waiter = d.waiter
         /\ t.failed = d.failed /\ t.qpaused = FALSE
    BY <2>4, <2>5, <2>12 DEF Same, Fields
  <2>15. Told(t, s)
    BY <1>2, <2>14 DEF Told
  <2>16. s.heads <= t.heads /\ s.done <= t.done /\ Len(s.msgs) <= Len(t.msgs)
    BY <1>2, <2>14
  <2>17. ASSUME NEW b \in Nat, Queued(s, b) PROVE Queued(t, b)
    <3>1. Queued(d, b)
      BY <1>2, <2>17
    <3> QED BY <2>14, <3>1 DEF Queued
  <2>18. Full(t)
    BY <2>14 DEF Full
  <2> QED BY <2>12, <2>13, <2>15, <2>16, <2>17, <2>18 DEF Resumes, t
<1> QED BY <1>4, <1>5

(* ----------------------- start(), and what ends it ---------------------- *)

\* The fields that neither the parser nor the transport's readers look at,
\* but for these: what is closed stays closed, and lost transports are lost.
Outside ==
  {"tr", "attached", "exc", "wake", "waiter", "pc", "cur", "h", "keep", "keepalive", "timer", "moved",
   "closing", "force", "inprog", "hw", "task", "cancel", "answered", "shut"}
OutsideTyped(s) ==
  /\ s.tr \in {"open", "closed", "lost"} /\ s.attached \in BOOLEAN /\ s.wake \in BOOLEAN
  /\ s.exc \in [Requests -> {"none", "access", "lost", "cancel"}] /\ s.answered \in Seq(Requests)
  /\ StartTyped(s) /\ FlagsTyped(s)

\* What the reading side guarantees, and what start() and its task do.
Intake(s) == Parsed(s) /\ OnlyFor(s) /\ Full(s)
Service(s) == Phases(s) /\ Answers(s) /\ Handled(s) /\ Upcoming(s) /\ Waiting(s) /\ Open(s)

\* The two halves of the invariant.
LEMMA SoundParts ==
  ASSUME NEW s
  PROVE  Sound(s) <=> Intake(s) /\ Service(s)
BY DEF Sound, Intake, Service

\* The types that the first half gives.
LEMMA IntakeFacts ==
  ASSUME Given, NEW s, Intake(s)
  PROVE  /\ Shape(s) /\ OutsideTyped(s) /\ Typed(s)
         /\ s.msgs \in Seq(Requests) /\ Len(s.msgs) \in Nat /\ Len(s.answered) \in Nat
         /\ s.heads \in Nat /\ s.done \in Nat /\ s.eof \in [Requests -> BOOLEAN]
         /\ s.rpaused \in BOOLEAN /\ s.qpaused \in BOOLEAN /\ s.tpaused \in BOOLEAN
<1>1. /\ Typed(s) /\ Shape(s) /\ TransportTyped(s) /\ ParserTyped(s) /\ QueuesTyped(s) /\ BodiesTyped(s)
      /\ StartTyped(s) /\ FlagsTyped(s)
  BY DEF Intake, Parsed, Typed
<1>2. OutsideTyped(s)
  BY <1>1 DEF TransportTyped, BodiesTyped, QueuesTyped, OutsideTyped
<1>3. s.msgs \in Seq(Requests) /\ Len(s.msgs) \in Nat /\ Len(s.answered) \in Nat
  BY <1>1, LenProperties DEF QueuesTyped
<1>4. /\ s.heads \in Nat /\ s.done \in Nat /\ s.eof \in [Requests -> BOOLEAN]
      /\ s.rpaused \in BOOLEAN /\ s.qpaused \in BOOLEAN /\ s.tpaused \in BOOLEAN
  BY <1>1 DEF ParserTyped, BodiesTyped, TransportTyped
<1> QED BY <1>1, <1>2, <1>3, <1>4

\* The reading side does not mind what start() does to its own fields.
LEMMA OutsideKeeps ==
  ASSUME Given, NEW s, Intake(s), NEW t, Shape(t), Same(t, s, Outside), OutsideTyped(t),
         s.closing => t.closing, s.force => t.force, t.attached => s.attached
  PROVE  Intake(t)
<1>0. /\ Typed(s) /\ Position(s) /\ Bodies(s) /\ Behind(s) /\ PausedFor(s) /\ Resumed(s) /\ Counts(s)
      /\ Failed(s) /\ s.new = <<>> /\ ~s.stop /\ OnlyFor(s) /\ Full(s)
  BY DEF Intake, Parsed
<1>1. /\ t.heads = s.heads /\ t.done = s.done /\ t.parsed = s.parsed /\ t.arrived = s.arrived
      /\ t.inflight = s.inflight /\ t.failed = s.failed /\ t.eof = s.eof /\ t.buf = s.buf
      /\ t.rpaused = s.rpaused /\ t.todo = s.todo /\ t.ppaused = s.ppaused /\ t.msgs = s.msgs
      /\ t.new = s.new /\ t.stop = s.stop /\ t.tpaused = s.tpaused /\ t.qpaused = s.qpaused
  BY DEF Same, Fields, Outside
<1>2. Typed(t)
  <2>1. QueuesTyped(t) BY <1>0, <1>1 DEF Typed, QueuesTyped, OutsideTyped
  <2>2. TransportTyped(t) BY <1>0, <1>1 DEF Typed, TransportTyped, OutsideTyped
  <2>3. ParserTyped(t) BY <1>0, <1>1 DEF Typed, ParserTyped
  <2>4. BodiesTyped(t) BY <1>0, <1>1 DEF Typed, BodiesTyped, OutsideTyped
  <2> QED BY <2>1, <2>2, <2>3, <2>4 DEF Typed, OutsideTyped
<1>3. Position(t) /\ Bodies(t)
  BY <1>0, <1>1 DEF Position, Bodies
<1>4. Behind(t) /\ Counts(t) /\ Failed(t)
  BY <1>0, <1>1 DEF Behind, Counts, Failed
<1>5. PausedFor(t) /\ OnlyFor(t)
  BY <1>0, <1>1 DEF PausedFor, OnlyFor
<1>6. Resumed(t)
  BY <1>0, <1>1 DEF Resumed
<1>7. Full(t)
  BY <1>0, <1>1 DEF Full
<1> QED BY <1>0, <1>1, <1>2, <1>3, <1>4, <1>5, <1>6, <1>7 DEF Intake, Parsed

\* Feeding the parser wakes whoever waits for a request, and nothing else.
LEMMA FedKeeps ==
  ASSUME Given, NEW s, Intake(s), Service(s), NEW t, Intake(t), Same(t, s, ByData \cup {"arrived"}),
         s.heads <= t.heads, s.done <= t.done, Len(s.msgs) <= Len(t.msgs), Told(t, s),
         \A b \in Nat : Queued(s, b) => Queued(t, b)
  PROVE  Service(t)
<1>0. /\ Phases(s) /\ Answers(s) /\ Handled(s) /\ Upcoming(s) /\ Waiting(s) /\ Open(s)
  BY DEF Service
<1>1. /\ t.pc = s.pc /\ t.cur = s.cur /\ t.h = s.h /\ t.inprog = s.inprog /\ t.answered = s.answered
      /\ t.keep = s.keep /\ t.closing = s.closing /\ t.force = s.force /\ t.tr = s.tr
      /\ t.attached = s.attached /\ t.shut = s.shut /\ t.cancel = s.cancel
  BY DEF Same, Fields, ByData, ByParser
<1>2. (t.waiter = "none" <=> s.waiter = "none") /\ (t.waiter = "cancelled" <=> s.waiter = "cancelled")
  BY DEF Told
<1>3. Phases(t)
  BY <1>0, <1>1, <1>2 DEF Phases
<1>4. Answers(t)
  BY <1>0, <1>1 DEF Answers
<1>5. Handled(t)
  BY <1>0, <1>1 DEF Handled, Clean
<1>6. Upcoming(t)
  <2>1. Taken(t) = Taken(s) /\ (Live(t) => Live(s))
    BY <1>1 DEF Taken, Live, Clean
  <2>2. Taken(s) \in Nat
    <3> DEFINE n == Len(s.answered)
    <3>1. n \in Nat
      BY IntakeFacts
    <3>2. Taken(s) = n + 1 \/ Taken(s) = n + 0
      BY DEF Taken
    <3> HIDE DEF n
    <3> QED BY <3>1, <3>2
  <2> QED BY <1>0, <2>1, <2>2 DEF Upcoming
<1>7. Waiting(t)
  <2>1. /\ Len(s.msgs) \in Nat /\ Len(t.msgs) \in Nat /\ s.heads \in Nat /\ t.heads \in Nat
        /\ s.done \in Nat /\ t.done \in Nat
    BY IntakeFacts
  <2>2. t.done <= t.heads
    BY DEF Intake, Parsed, Position
  <2>3. CASE t.waiter = s.waiter
    <3>1. ASSUME t.waiter = "pending" PROVE Len(t.msgs) = 0 /\ (~t.closing /\ ~t.force => t.heads = t.done)
      <4>1. t.msgs = s.msgs /\ t.heads = s.heads /\ Len(s.msgs) = 0 /\ (~s.closing /\ ~s.force => s.heads = s.done)
        BY <1>0, <2>3, <3>1 DEF Told, Waiting
      <4>2. s.heads = s.done => t.heads = t.done
        BY <2>1, <2>2, <4>1
      <4> QED BY <1>1, <4>1, <4>2
    <3>2. ASSUME t.waiter = "set" PROVE Len(t.msgs) > 0
      <4>1. Len(s.msgs) > 0
        BY <1>0, <2>3, <3>2 DEF Waiting
      <4> QED BY <2>1, <4>1
    <3> QED BY <3>1, <3>2 DEF Waiting
  <2>4. CASE t.waiter # s.waiter
    BY <2>4 DEF Told, Waiting
  <2> QED BY <2>3, <2>4
<1>8. Open(t)
  BY <1>0, <1>1, <1>2 DEF Open
<1> QED BY <1>3, <1>4, <1>5, <1>6, <1>7, <1>8 DEF Service

\* Closing, timers and the shutdown do not touch what start() and its task do.
LEMMA QuietKeeps ==
  ASSUME NEW s, Service(s), NEW t,
         Same(t, s, {"waiter", "tr", "attached", "closing", "force", "cancel", "shut", "hw", "timer", "moved",
                     "task", "exc", "wake"}),
         t.waiter = s.waiter \/ (s.waiter = "pending" /\ t.waiter = "cancelled"),
         s.closing => t.closing, s.force => t.force, Open(t)
  PROVE  Service(t)
<1>0. /\ Phases(s) /\ Answers(s) /\ Handled(s) /\ Upcoming(s) /\ Waiting(s) /\ Open(s)
  BY DEF Service
<1>1. /\ t.pc = s.pc /\ t.cur = s.cur /\ t.h = s.h /\ t.inprog = s.inprog /\ t.answered = s.answered
      /\ t.keep = s.keep /\ t.msgs = s.msgs /\ t.heads = s.heads /\ t.done = s.done /\ t.failed = s.failed
  BY DEF Same, Fields
<1>2. Phases(t)
  BY <1>0, <1>1 DEF Phases
<1>3. Answers(t)
  BY <1>0, <1>1 DEF Answers
<1>4. Handled(t)
  BY <1>0, <1>1 DEF Handled, Clean
<1>5. Upcoming(t)
  <2>1. Taken(t) = Taken(s) /\ (Live(t) => Live(s))
    BY <1>1 DEF Taken, Live, Clean
  <2>2. Queued(s, Taken(s)) => Queued(t, Taken(s))
    BY <1>1 DEF Queued
  <2> QED BY <1>0, <2>1, <2>2 DEF Upcoming
<1>6. Waiting(t)
  BY <1>0, <1>1 DEF Waiting
<1> QED BY <1>2, <1>3, <1>4, <1>5, <1>6 DEF Service

\* A handler goes on, waits for its body, or returns.
LEMMA BusyKeeps ==
  ASSUME NEW s, Service(s), s.h \in {"running", "reading"}, NEW t,
         Same(t, s, {"h", "wake", "keep", "cancel"}), t.h \in Busy, t.cancel => s.cancel
  PROVE  Service(t)
<1>0. /\ Phases(s) /\ Answers(s) /\ Handled(s) /\ Upcoming(s) /\ Waiting(s) /\ Open(s)
  BY DEF Service
<1>1. /\ t.pc = s.pc /\ t.cur = s.cur /\ t.inprog = s.inprog /\ t.answered = s.answered
      /\ t.msgs = s.msgs /\ t.heads = s.heads /\ t.done = s.done /\ t.failed = s.failed
      /\ t.waiter = s.waiter /\ t.closing = s.closing /\ t.force = s.force /\ t.tr = s.tr
      /\ t.attached = s.attached /\ t.shut = s.shut
  BY DEF Same, Fields
<1>2. s.h \in Busy /\ Clean(s) /\ s.cur = Len(s.answered) + 1 /\ ~Malformed(s.cur) /\ s.pc = "handler"
  BY <1>0 DEF Handled, Busy, Phases
<1>3. Phases(t)
  BY <1>0, <1>1, <1>2 DEF Phases, Busy
<1>4. Answers(t)
  BY <1>0, <1>1 DEF Answers
<1>5. Clean(t)
  BY <1>1, <1>2 DEF Clean
<1>6. Handled(t)
  BY <1>1, <1>2, <1>5 DEF Handled, Busy
<1>7. Upcoming(t)
  <2>1. Taken(t) = Taken(s) /\ Live(s)
    BY <1>1, <1>2 DEF Taken, Live
  <2>2. Queued(s, Taken(s)) => Queued(t, Taken(s))
    BY <1>1 DEF Queued
  <2> QED BY <1>0, <2>1, <2>2 DEF Upcoming
<1>8. Waiting(t)
  BY <1>0, <1>1 DEF Waiting
<1>9. Open(t)
  BY <1>0, <1>1 DEF Open
<1> QED BY <1>3, <1>4, <1>6, <1>7, <1>8, <1>9 DEF Service

\* A task that ends has answered its request, or start() serves no other.
LEMMA DoneKeeps ==
  ASSUME Given, NEW s, Intake(s), Service(s), s.h \in Busy, NEW t,
         Same(t, s, {"h", "inprog", "hw", "answered", "cancel"}), t.inprog = FALSE,
         \/ t.h \in {"ok", "error"} /\ s.h = "writing" /\ t.answered = Append(s.answered, s.cur)
         \/ t.h \in {"reset", "error", "cancelled"} /\ t.answered = s.answered,
         t.cancel => s.cancel
  PROVE  Service(t)
<1>0. /\ Phases(s) /\ Answers(s) /\ Handled(s) /\ Upcoming(s) /\ Waiting(s) /\ Open(s)
  BY DEF Service
<1>1. /\ t.pc = s.pc /\ t.cur = s.cur /\ t.keep = s.keep
      /\ t.msgs = s.msgs /\ t.heads = s.heads /\ t.done = s.done /\ t.failed = s.failed
      /\ t.waiter = s.waiter /\ t.closing = s.closing /\ t.force = s.force /\ t.tr = s.tr
      /\ t.attached = s.attached /\ t.shut = s.shut
  BY DEF Same, Fields
<1>2. /\ s.pc = "handler" /\ s.cur # 0 /\ Clean(s)
      /\ \/ s.cur = Len(s.answered) + 1 /\ ~Malformed(s.cur)
         \/ Malformed(s.cur) /\ Len(s.answered) + 1 <= s.cur /\ ~s.keep
  BY <1>0 DEF Handled, Busy, Phases
<1>3. s.answered \in Seq(Requests) /\ Len(s.answered) \in Nat /\ s.cur \in Requests
  BY <1>2, IntakeFacts DEF OutsideTyped, StartTyped
<1>4. t.h \notin Busy /\ t.h # "none"
  BY DEF Busy
<1>5. Phases(t)
  BY <1>0, <1>1, <1>2, <1>4 DEF Phases
<1>6. Waiting(t)
  BY <1>0, <1>1 DEF Waiting
<1>7. Open(t)
  BY <1>0, <1>1 DEF Open
<1>8. CASE t.answered = s.answered /\ t.h \in {"reset", "error", "cancelled"}
  <2>1. Answers(t)
    BY <1>0, <1>8 DEF Answers
  <2>2. Handled(t)
    BY <1>1, <1>2, <1>4, <1>8 DEF Handled
  <2>3. Upcoming(t)
    BY <1>8 DEF Upcoming, Live
  <2> QED BY <1>5, <1>6, <1>7, <2>1, <2>2, <2>3 DEF Service
<1>9. CASE t.answered = Append(s.answered, s.cur) /\ t.h \in {"ok", "error"}
  <2>1. /\ Len(t.answered) = Len(s.answered) + 1
        /\ \A i \in 1..Len(s.answered) : t.answered[i] = s.answered[i]
        /\ t.answered[Len(s.answered) + 1] = s.cur
    BY <1>3, <1>9, AppendProperties
  <2>2. \A i \in 1..Len(t.answered) : i \in 1..Len(s.answered) \/ i = Len(s.answered) + 1
    BY <1>3, <2>1
  <2>3. \A i \in 1..Len(s.answered) : t.answered[i] = i /\ ~Malformed(i)
    BY <1>2, <2>1 DEF Clean
  <2>4. Answers(t)
    BY <1>2, <2>1, <2>2, <2>3 DEF Answers
  <2>5. ~Malformed(s.cur) => Clean(t)
    BY <1>2, <2>1, <2>2, <2>3 DEF Clean
  <2>6. Handled(t)
    BY <1>1, <1>2, <1>4, <2>1, <2>5 DEF Handled
  <2>7. Upcoming(t)
    <3>1. SUFFICES ASSUME Live(t) PROVE Queued(t, Taken(t))
      BY DEF Upcoming
    <3>2. ~Malformed(s.cur)
      BY <1>1, <1>2, <3>1 DEF Live
    <3>3. Live(s)
      BY <1>2, <3>2 DEF Live, Busy
    <3>4. Taken(t) = Taken(s)
      BY <1>3, <1>4, <2>1 DEF Taken
    <3>5. Queued(s, Taken(s)) => Queued(t, Taken(s))
      BY <1>1 DEF Queued
    <3> QED BY <1>0, <3>3, <3>4, <3>5 DEF Upcoming
  <2> QED BY <1>5, <1>6, <1>7, <2>4, <2>6, <2>7 DEF Service
<1> QED BY <1>8, <1>9

\* start() has ended.
LEMMA EndedKeeps ==
  ASSUME NEW t, Answers(t), t.pc = "ended", t.h = "none", t.cur = 0, t.waiter = "none", ~t.inprog,
         t.tr = "open" => t.attached /\ t.shut \notin {"no", "done"} /\ ~t.cancel
  PROVE  Service(t)
<1>1. Phases(t) BY DEF Phases, Busy
<1>2. Handled(t) BY DEF Handled, Busy
<1>3. Upcoming(t) BY DEF Upcoming, Live
<1>4. Waiting(t) BY DEF Waiting
<1>5. Open(t) BY DEF Open
<1> QED BY <1>1, <1>2, <1>3, <1>4, <1>5 DEF Service

\* What becomes of a wait for a request that is cancelled.
Woken(w) == IF w = "pending" THEN "cancelled" ELSE w

\* Cancelling a wait that is not there does nothing.
LEMMA CancelWaiterFields ==
  ASSUME NEW s, Shape(s)
  PROVE  LET t == CancelWaiter(s)
         IN  Shape(t) /\ Same(t, s, {"waiter"}) /\ t.waiter = Woken(s.waiter)
<1> DEFINE x == [s EXCEPT !.waiter = "cancelled"]
<1>1. Shape(x) BY DEF Shape
<1>2. Same(x, s, {"waiter"}) BY DEF Shape, Same
<1>3. x.waiter = "cancelled" BY DEF Shape, Fields
<1>4. Same(s, s, {"waiter"}) BY DEF Same
<1>5. CancelWaiter(s) = IF s.waiter = "pending" THEN x ELSE s BY DEF CancelWaiter
<1> HIDE DEF x
<1> QED BY <1>1, <1>2, <1>3, <1>4, <1>5 DEF Woken

\* Closing wakes start() if it waits for a request.
LEMMA CloseFields ==
  ASSUME NEW s, Shape(s)
  PROVE  LET t == Close(s)
         IN  /\ Shape(t) /\ Same(t, s, {"closing", "waiter"})
             /\ t.closing = TRUE /\ t.waiter = Woken(s.waiter)
<1> DEFINE x == [s EXCEPT !.closing = TRUE]
           t == Close(s)
<1>1. Shape(x) BY DEF Shape
<1>2. Same(x, s, {"closing"}) BY DEF Shape, Same
<1>3. x.closing = TRUE BY DEF Shape, Fields
<1>4. t = CancelWaiter(x) BY DEF Close
<1> HIDE DEF x, t
<1>5. Shape(t) /\ Same(t, x, {"waiter"}) /\ t.waiter = Woken(x.waiter)
  BY <1>1, <1>4, CancelWaiterFields
<1>6. Same(t, s, {"closing", "waiter"})
  BY <1>2, <1>5 DEF Same
<1>7. x.waiter = s.waiter /\ t.closing = x.closing
  BY <1>2, <1>5 DEF Same, Fields
<1> QED BY <1>3, <1>5, <1>6, <1>7 DEF t

\* So does closing by force, which takes the transport away too.
LEMMA ForceCloseFields ==
  ASSUME NEW s, Shape(s), s.attached \in BOOLEAN
  PROVE  LET t == ForceClose(s)
         IN  /\ Shape(t) /\ Same(t, s, {"force", "waiter", "attached", "tr"})
             /\ t.force = TRUE /\ t.waiter = Woken(s.waiter) /\ t.attached = FALSE
             /\ t.tr = IF s.attached THEN "closed" ELSE s.tr
<1> DEFINE x == [s EXCEPT !.force = TRUE]
           y == CancelWaiter(x)
           z == [y EXCEPT !.attached = FALSE, !.tr = "closed"]
           t == ForceClose(s)
<1>1. Shape(x) BY DEF Shape
<1>2. Same(x, s, {"force"}) BY DEF Shape, Same
<1>3. x.force = TRUE BY DEF Shape, Fields
<1>4. t = IF s.attached THEN z ELSE y BY DEF ForceClose
<1> HIDE DEF x, t
<1>5. Shape(y) /\ Same(y, x, {"waiter"}) /\ y.waiter = Woken(x.waiter)
  BY <1>1, CancelWaiterFields
<1> HIDE DEF y
<1>6. Shape(z) BY <1>5 DEF Shape
<1>7. Same(z, y, {"attached", "tr"}) BY <1>5 DEF Shape, Same
<1>8. z.attached = FALSE /\ z.tr = "closed" BY <1>5 DEF Shape, Fields
<1> HIDE DEF z
<1>9. x.waiter = s.waiter /\ y.force = x.force /\ z.force = y.force /\ z.waiter = y.waiter
      /\ y.attached = s.attached /\ y.tr = s.tr
  BY <1>2, <1>5, <1>7 DEF Same, Fields
<1>10. Same(y, s, {"force", "waiter", "attached", "tr"}) /\ Same(z, s, {"force", "waiter", "attached", "tr"})
  BY <1>2, <1>5, <1>7 DEF Same
<1> QED BY <1>3, <1>4, <1>5, <1>6, <1>8, <1>9, <1>10 DEF t

\* start() has left its loop, with nothing of its request left.
LEMMA EndedFields ==
  ASSUME NEW s, Shape(s)
  PROVE  LET t == Ended(s)
         IN  /\ Shape(t) /\ Same(t, s, {"pc", "h", "cur", "wake", "cancel"})
             /\ t.pc = "ended" /\ t.h = "none" /\ t.cur = 0 /\ t.wake = FALSE /\ t.cancel = FALSE
<1> USE DEF Ended
<1>1. Shape(Ended(s)) BY DEF Shape
<1>2. Same(Ended(s), s, {"pc", "h", "cur", "wake", "cancel"}) BY DEF Shape, Same
<1>3. Ended(s).pc = "ended" /\ Ended(s).h = "none" /\ Ended(s).cur = 0 /\ Ended(s).wake = FALSE
      /\ Ended(s).cancel = FALSE
  BY DEF Shape, Fields
<1> QED BY <1>1, <1>2, <1>3

\* It closes the transport on its way out, unless that has been done by force.
LEMMA ExitFields ==
  ASSUME NEW s, Shape(s), s.force \in BOOLEAN, s.attached \in BOOLEAN, s.task \in BOOLEAN
  PROVE  LET t == Exit(s)
         IN  /\ Shape(t) /\ Same(t, s, {"pc", "h", "cur", "wake", "cancel", "task", "tr"})
             /\ t.pc = "ended" /\ t.h = "none" /\ t.cur = 0 /\ t.wake = FALSE /\ t.cancel = FALSE
             /\ t.task \in BOOLEAN
             /\ t.tr = IF ~s.force /\ s.attached THEN "closed" ELSE s.tr
<1> DEFINE e == Ended(s)
           x == [e EXCEPT !.task = FALSE, !.tr = IF s.attached THEN "closed" ELSE @]
           t == Exit(s)
<1>1. t = IF s.force THEN e ELSE x BY DEF Exit
<1> HIDE DEF t
<1>2. /\ Shape(e) /\ Same(e, s, {"pc", "h", "cur", "wake", "cancel"})
      /\ e.pc = "ended" /\ e.h = "none" /\ e.cur = 0 /\ e.wake = FALSE /\ e.cancel = FALSE
  BY EndedFields
<1> HIDE DEF e
<1>3. Shape(x) BY <1>2 DEF Shape
<1>4. Same(x, e, {"task", "tr"}) BY <1>2 DEF Shape, Same
<1>5. x.task = FALSE /\ x.tr = IF s.attached THEN "closed" ELSE e.tr BY <1>2 DEF Shape, Fields
<1> HIDE DEF x
<1>6. e.tr = s.tr /\ e.task = s.task /\ x.pc = e.pc /\ x.h = e.h /\ x.cur = e.cur /\ x.wake = e.wake
      /\ x.cancel = e.cancel
  BY <1>2, <1>4 DEF Same, Fields
<1>7. /\ Same(e, s, {"pc", "h", "cur", "wake", "cancel", "task", "tr"})
      /\ Same(x, s, {"pc", "h", "cur", "wake", "cancel", "task", "tr"})
  BY <1>2, <1>4 DEF Same
<1> QED BY <1>1, <1>2, <1>3, <1>5, <1>6, <1>7 DEF t

\* A body that fails wakes its reader.
LEMMA FailBodyFields ==
  ASSUME NEW s, Shape(s), s.wake \in BOOLEAN, s.cur \in Requests \cup {0},
         s.exc \in [Requests -> {"none", "access", "lost", "cancel"}],
         NEW e \in {"none", "access", "lost", "cancel"}
  PROVE  LET t == FailBody(s, e)
         IN  /\ Shape(t) /\ Same(t, s, {"exc", "wake"}) /\ t.wake \in BOOLEAN
             /\ t.exc \in [Requests -> {"none", "access", "lost", "cancel"}]
<1> DEFINE x == [s EXCEPT !.exc[s.cur] = e, !.wake = TRUE]
           t == FailBody(s, e)
<1>1. t = x \/ t = s BY DEF FailBody
<1>2. Shape(x) BY DEF Shape
<1>3. Same(x, s, {"exc", "wake"}) BY DEF Shape, Same
<1>4. x.wake = TRUE /\ x.exc = [s.exc EXCEPT ![s.cur] = e] BY DEF Shape, Fields
<1>5. Same(s, s, {"exc", "wake"}) BY DEF Same
<1> HIDE DEF x, t
<1>6. x.exc \in [Requests -> {"none", "access", "lost", "cancel"}] BY <1>4
<1> QED BY <1>1, <1>2, <1>3, <1>4, <1>5, <1>6 DEF t

(* ------------------------ the next request ------------------------------ *)

\* A connection between two requests: all that was taken off the queue has been
\* answered, and the queue goes on from there.
Between(s) ==
  /\ Intake(s) /\ Clean(s) /\ Queued(s, Len(s.answered))
  /\ s.waiter = "none"
  /\ s.tr = "open" => s.attached /\ s.shut # "done" /\ ~s.cancel /\ (s.force => s.shut # "no")

Popped(s) == [s EXCEPT !.msgs = Tail(@), !.inflight = IF @ > 0 THEN @ - 1 ELSE 0]

\* Taking a request off the queue keeps the parser's count of it right.
LEMMA PoppedLeaves ==
  ASSUME Given, NEW s, Intake(s), s.msgs # <<>>
  PROVE  LET p == Popped(s)
         IN  /\ Ready(p) /\ OnlyFor(p) /\ Same(p, s, {"msgs", "inflight"})
             /\ p.msgs = Tail(s.msgs) /\ Resumed(p)
<1> DEFINE p == Popped(s)
           n == Len(s.msgs)
           i == s.inflight
<1>0. /\ Typed(s) /\ Shape(s) /\ Position(s) /\ Bodies(s) /\ Behind(s) /\ PausedFor(s) /\ Resumed(s) /\ Counts(s)
      /\ Failed(s) /\ s.new = <<>> /\ ~s.stop /\ OnlyFor(s) /\ QueuesTyped(s) /\ ParserTyped(s)
  BY DEF Intake, Parsed, Typed
<1>1. /\ n \in Nat /\ i \in Nat /\ s.msgs \in Seq(Requests) /\ n > 0
      /\ Tail(s.msgs) \in Seq(Requests) /\ Len(Tail(s.msgs)) = n - 1
      /\ s.heads \in Nat /\ s.done \in Nat
  BY <1>0, LenProperties, EmptySeq, HeadTailProperties DEF QueuesTyped, ParserTyped
<1>2. Shape(p) BY <1>0 DEF Shape, Popped
<1>3. Same(p, s, {"msgs", "inflight"}) BY <1>0 DEF Shape, Same, Popped
<1>4. p.msgs = Tail(s.msgs) /\ p.inflight = IF i > 0 THEN i - 1 ELSE 0 BY <1>0 DEF Shape, Fields, Popped
<1> HIDE DEF p, n, i
<1>5. /\ p.heads = s.heads /\ p.done = s.done /\ p.parsed = s.parsed /\ p.arrived = s.arrived
      /\ p.failed = s.failed /\ p.eof = s.eof /\ p.buf = s.buf /\ p.qpaused = s.qpaused
      /\ p.rpaused = s.rpaused /\ p.closing = s.closing /\ p.force = s.force /\ p.todo = s.todo
      /\ p.ppaused = s.ppaused /\ p.new = s.new /\ p.stop = s.stop /\ p.attached = s.attached
      /\ p.tpaused = s.tpaused
  BY <1>3 DEF Same, Fields
<1>6. p.inflight \in Nat /\ Len(p.msgs) = n - 1
  BY <1>1, <1>4
<1>7. Typed(p)
  <2>1. QueuesTyped(p) BY <1>0, <1>1, <1>3, <1>4 DEF Typed, QueuesTyped, Same, Fields
  <2>2. TransportTyped(p) BY <1>0, <1>3 DEF Typed, TransportTyped, Same, Fields
  <2>3. ParserTyped(p) BY <1>0, <1>3, <1>6 DEF Typed, ParserTyped, Same, Fields
  <2>4. BodiesTyped(p) BY <1>0, <1>3 DEF Typed, BodiesTyped, Same, Fields
  <2>5. StartTyped(p) BY <1>0, <1>3 DEF Typed, StartTyped, Same, Fields
  <2>6. FlagsTyped(p) BY <1>0, <1>3 DEF Typed, FlagsTyped, Same, Fields
  <2> QED BY <1>2, <2>1, <2>2, <2>3, <2>4, <2>5, <2>6 DEF Typed
<1>8. Position(p) /\ Bodies(p)
  BY <1>0, <1>5 DEF Position, Bodies
<1>9. Behind(p) /\ Failed(p)
  BY <1>0, <1>5 DEF Behind, Failed
<1>10. PausedFor(p) /\ OnlyFor(p)
  BY <1>0, <1>5 DEF PausedFor, OnlyFor
<1>11. Counts(p)
  <2>1. Len(s.new) = 0 /\ Len(p.new) = 0
    BY <1>0, <1>5
  <2> DEFINE gap == s.heads - s.done
  <2>2. gap \in Nat
    BY <1>0, <1>1 DEF Position
  <2>3. ASSUME ~s.failed PROVE /\ parser = "python" => n <= i
                               /\ parser = "extension" => n <= i + gap
    <3>1. /\ parser = "python" => n + Len(s.new) <= i
          /\ parser = "extension" => n + Len(s.new) <= i + gap
      BY <1>0, <2>3 DEF Counts, n, i
    <3> HIDE DEF gap
    <3> QED BY <1>1, <2>1, <3>1
  <2> HIDE DEF gap
  <2>4. ASSUME ~s.failed PROVE /\ parser = "python" => n - 1 <= p.inflight
                               /\ parser = "extension" => n - 1 <= p.inflight + gap
    BY <1>1, <1>4, <2>2, <2>3, <2>4
  <2>5. (n - 1) + 0 = n - 1
    BY <1>1
  <2> USE DEF gap
  <2> QED BY <1>5, <1>6, <2>1, <2>4, <2>5 DEF Counts
<1>12. Resumed(p)
  <2>1. i > n => p.inflight > n - 1
    BY <1>1, <1>4
  <2> QED BY <1>0, <1>5, <1>6, <2>1 DEF Resumed, n, i
<1> QED BY <1>0, <1>3, <1>4, <1>5, <1>7, <1>8, <1>9, <1>10, <1>11, <1>12 DEF Ready, p

\* The first of the queue is the next request, or the malformed one.
LEMMA QueueTail ==
  ASSUME Given, NEW s, s.msgs \in Seq(Requests), s.msgs # <<>>, NEW b \in Nat, Queued(s, b),
         NEW t, t.msgs = Tail(s.msgs), t.heads = s.heads, t.failed = s.failed
  PROVE  LET r == Head(s.msgs)
         IN  /\ r \in Requests
             /\ r = b + 1 \/ (Malformed(r) /\ b + 1 <= r)
             /\ ~Malformed(r) => Queued(t, b + 1)
<1> DEFINE m == s.msgs
           q == Tail(m)
           r == Head(m)
<1>1. /\ Len(m) \in Nat /\ Len(m) > 0 /\ r \in Requests /\ r = m[1]
      /\ Len(q) = Len(m) - 1 /\ \A j \in 1..Len(q) : q[j] = m[j + 1]
  BY LenProperties, EmptySeq, HeadTailProperties
<1>2. /\ (\A j \in 1..Len(m) : \/ m[j] = b + j
                               \/ Malformed(m[j]) /\ (b + j <= m[j] \/ (j > 1 /\ Malformed(m[j - 1]))))
      /\ (~s.failed => s.heads = b + Len(m))
      /\ (s.failed => Len(m) > 0 /\ Malformed(m[Len(m)]))
  BY DEF Queued
<1>3. t.msgs = q
  OBVIOUS
<1> HIDE DEF m, q, r
<1>4. r = b + 1 \/ (Malformed(r) /\ b + 1 <= r)
  <2>1. 1 \in 1..Len(m) /\ ~(1 > 1)
    BY <1>1
  <2> QED BY <1>1, <1>2, <2>1
<1>5. ASSUME ~Malformed(r) PROVE Queued(t, b + 1)
  <2>1. ASSUME NEW j \in 1..Len(q)
        PROVE  \/ q[j] = (b + 1) + j
               \/ Malformed(q[j]) /\ ((b + 1) + j <= q[j] \/ (j > 1 /\ Malformed(q[j - 1])))
    <3>1. j + 1 \in 1..Len(m) /\ q[j] = m[j + 1] /\ (j + 1) - 1 = j /\ b + (j + 1) = (b + 1) + j
      BY <1>1
    <3>2. \/ q[j] = (b + 1) + j
          \/ Malformed(q[j]) /\ ((b + 1) + j <= q[j] \/ Malformed(m[j]))
      BY <1>2, <3>1
    <3>3. j > 1 => m[j] = q[j - 1]
      BY <1>1
    <3>4. j > 1 \/ m[j] = r
      BY <1>1
    <3> QED BY <1>5, <3>2, <3>3, <3>4
  <2>2. ~s.failed => t.heads = (b + 1) + Len(q)
    BY <1>1, <1>2
  <2>3. ASSUME s.failed PROVE Len(q) > 0 /\ Malformed(q[Len(q)])
    <3>1. Len(m) # 1
      BY <1>1, <1>2, <1>5, <2>3
    <3>2. Len(q) \in 1..Len(q) /\ Len(q) + 1 = Len(m)
      BY <1>1, <3>1
    <3>3. q[Len(q)] = m[Len(m)]
      BY <1>1, <3>2
    <3> QED BY <1>1, <1>2, <2>3, <3>2, <3>3
  <2> QED BY <1>3, <2>1, <2>2, <2>3 DEF Queued
<1> QED BY <1>1, <1>4, <1>5 DEF m, r

\* Taking the next request off the queue is sound between two requests.
LEMMA BeginRequestLeaves ==
  ASSUME Given, NEW s, Between(s), s.msgs # <<>>
  PROVE  Sound(BeginRequest(s)) /\ BeginRequest(s).tr = s.tr
<1> DEFINE r == Head(s.msgs)
           p == Popped(s)
           f == IF s.qpaused /\ Len(p.msgs) <= MaxQueue \div 2 THEN ResumeMsgQueueReading(p) ELSE p
           t == [f EXCEPT !.pc = "handler", !.cur = r, !.inprog = TRUE, !.wake = FALSE, !.keep = FALSE,
                          !.h = IF script[r].bad THEN "writing" ELSE "running"]
           b == Len(s.answered)
<1>0. t = BeginRequest(s)
  BY DEF BeginRequest, Popped
<1>1. /\ Intake(s) /\ Clean(s) /\ Queued(s, b) /\ s.waiter = "none"
      /\ s.tr = "open" => s.attached /\ s.shut # "done" /\ ~s.cancel /\ (s.force => s.shut # "no")
      /\ b \in Nat /\ s.msgs \in Seq(Requests)
  BY IntakeFacts DEF Between
<1>2. /\ Ready(p) /\ OnlyFor(p) /\ Same(p, s, {"msgs", "inflight"})
      /\ p.msgs = Tail(s.msgs) /\ Resumed(p)
  BY <1>1, PoppedLeaves
<1> HIDE DEF p
<1>3. p.heads = s.heads /\ p.failed = s.failed /\ p.qpaused = s.qpaused /\ p.waiter = "none"
  BY <1>1, <1>2 DEF Same, Fields
<1>4. /\ r \in Requests
      /\ r = b + 1 \/ (Malformed(r) /\ b + 1 <= r)
      /\ ~Malformed(r) => Queued(p, b + 1)
  BY <1>1, <1>2, <1>3, QueueTail
<1> HIDE DEF r, t
<1>5. /\ Intake(f) /\ Same(f, p, ByData) /\ f.waiter = "none"
      /\ \A d \in Nat : Queued(p, d) => Queued(f, d)
  <2>1. CASE s.qpaused /\ Len(p.msgs) <= MaxQueue \div 2
    <3>1. f = ResumeMsgQueueReading(p)
      BY <2>1
    <3>2. Resumes(f, p) /\ Full(f)
      BY <1>2, <3>1, ResumeQueueLeaves
    <3> HIDE DEF f
    <3>3. f.waiter = "none"
      BY <1>3, <3>2 DEF Resumes, Told
    <3> QED BY <3>2, <3>3 DEF Resumes, Intake
  <2>2. CASE ~(s.qpaused /\ Len(p.msgs) <= MaxQueue \div 2)
    <3>1. f = p
      BY <2>2
    <3>2. Full(p)
      <4>1. Len(p.msgs) \in Nat /\ MaxQueue \div 2 \in Int
        <5>1. \A k \in Nat \ {0} : k \div 2 \in Int
          OBVIOUS
        <5>2. QueuesTyped(p)
          BY <1>2 DEF Ready, Typed
        <5> QED BY <5>1, <5>2, LenProperties DEF QueuesTyped, Given
      <4> QED BY <1>3, <2>2, <4>1 DEF Full
    <3>3. Parsed(p)
      BY <1>2 DEF Ready, Parsed
    <3>4. Same(p, p, ByData)
      BY DEF Same
    <3> QED BY <1>2, <1>3, <3>1, <3>2, <3>3, <3>4 DEF Intake
  <2> QED BY <2>1, <2>2
<1> HIDE DEF f
<1>6. /\ Shape(f) /\ OutsideTyped(f)
  BY <1>5, IntakeFacts
<1>7. Shape(t) BY <1>6 DEF Shape, t
<1>8. Same(t, f, {"pc", "cur", "inprog", "wake", "keep", "h"}) BY <1>6 DEF Shape, Same, t
<1>9. t.pc = "handler" /\ t.cur = r /\ t.inprog = TRUE /\ t.wake = FALSE /\ t.keep = FALSE
  BY <1>6 DEF Shape, Fields, t
<1>10. t.h = IF Malformed(r) THEN "writing" ELSE "running"
  BY <1>6 DEF Shape, Fields, t, Malformed
<1>11. /\ t.waiter = "none" /\ t.answered = s.answered /\ t.tr = s.tr /\ t.attached = s.attached
       /\ t.shut = s.shut /\ t.cancel = s.cancel /\ t.force = s.force /\ t.closing = f.closing
       /\ t.msgs = f.msgs /\ t.heads = f.heads /\ t.failed = f.failed /\ t.attached = f.attached
       /\ t.force = f.force
  BY <1>2, <1>5, <1>8 DEF Same, Fields, ByData, ByParser
<1>12. Intake(t)
  <2>1. StartTyped(t)
    BY <1>4, <1>9, <1>10, <1>11 DEF StartTyped
  <2>2. FlagsTyped(t)
    BY <1>6, <1>8, <1>9, ZenonT(60) DEF OutsideTyped, FlagsTyped, Same, Fields
  <2>3. OutsideTyped(t)
    BY <1>6, <1>8, <1>9, <2>1, <2>2 DEF OutsideTyped, Same, Fields
  <2>4. Same(t, f, Outside)
    BY <1>8 DEF Same, Outside
  <2> QED BY <1>5, <1>7, <1>11, <2>3, <2>4, OutsideKeeps
<1>13. r # 0 /\ t.h \in Busy /\ t.h # "none"
  BY <1>4, <1>10 DEF Given, Busy
<1>14. Clean(t)
  BY <1>1, <1>11 DEF Clean
<1>15. Phases(t)
  BY <1>9, <1>11, <1>13 DEF Phases
<1>16. Answers(t)
  BY <1>14 DEF Clean, Answers
<1>17. Handled(t)
  BY <1>4, <1>9, <1>10, <1>11, <1>14 DEF Handled, Busy
<1>18. Upcoming(t)
  <2>1. Taken(t) = b + 1
    BY <1>11, <1>13 DEF Taken
  <2>2. Live(t) => ~Malformed(r)
    BY <1>9, <1>13 DEF Live
  <2>3. ~Malformed(r) => Queued(f, b + 1)
    BY <1>1, <1>4, <1>5
  <2>4. Queued(f, b + 1) => Queued(t, b + 1)
    BY <1>11 DEF Queued
  <2> QED BY <2>1, <2>2, <2>3, <2>4 DEF Upcoming
<1>19. Waiting(t)
  BY <1>11 DEF Waiting
<1>20. Open(t)
  BY <1>1, <1>9, <1>11 DEF Open
<1> QED BY <1>0, <1>11, <1>12, <1>15, <1>16, <1>17, <1>18, <1>19, <1>20, SoundParts DEF Service

(* -------------------- the end of a turn of start() ---------------------- *)

\* A request has been served, and what else must hold when start() takes the next.
Serves(s) ==
  /\ Intake(s) /\ Answers(s) /\ s.waiter = "none" /\ ~s.inprog /\ s.cur \in Requests
  /\ s.tr = "open" => s.attached /\ s.shut # "done" /\ ~s.cancel /\ (s.force => s.shut # "no")
KeepsOn(s) == Clean(s) /\ s.cur = Len(s.answered) /\ Queued(s, Len(s.answered))

\* It does not depend on the state of the body, nor on what is decided then.
LEMMA ServesKeeps ==
  ASSUME Given, NEW s, Serves(s), NEW t, Shape(t), Same(t, s, {"exc", "closing", "keepalive"}),
         t.exc \in [Requests -> {"none", "access", "lost", "cancel"}], t.closing \in BOOLEAN,
         t.keepalive \in BOOLEAN, s.closing => t.closing
  PROVE  Serves(t) /\ (KeepsOn(s) => KeepsOn(t))
<1>0. Intake(s) /\ OutsideTyped(s) /\ Answers(s) /\ s.waiter = "none" /\ ~s.inprog /\ s.cur \in Requests
      /\ (s.tr = "open" => s.attached /\ s.shut # "done" /\ ~s.cancel /\ (s.force => s.shut # "no"))
  BY IntakeFacts DEF Serves
<1>1. /\ t.waiter = s.waiter /\ t.inprog = s.inprog /\ t.cur = s.cur /\ t.tr = s.tr /\ t.attached = s.attached
      /\ t.shut = s.shut /\ t.cancel = s.cancel /\ t.force = s.force /\ t.answered = s.answered
      /\ t.msgs = s.msgs /\ t.heads = s.heads /\ t.failed = s.failed
  BY DEF Same, Fields
<1>2. StartTyped(t)
  BY <1>0 DEF OutsideTyped, StartTyped, Same, Fields
<1>3. FlagsTyped(t)
  BY <1>0 DEF OutsideTyped, FlagsTyped, Same, Fields
<1>4. OutsideTyped(t)
  BY <1>0, <1>2, <1>3 DEF OutsideTyped, Same, Fields
<1>5. Same(t, s, Outside)
  BY DEF Same, Outside
<1>6. Intake(t)
  BY <1>0, <1>1, <1>4, <1>5, OutsideKeeps
<1>7. Answers(t)
  BY <1>0, <1>1 DEF Answers
<1>8. KeepsOn(s) => KeepsOn(t)
  BY <1>1, ZenonT(60) DEF KeepsOn, Clean, Queued
<1> QED BY <1>0, <1>1, <1>6, <1>7, <1>8 DEF Serves

\* Leaving the loop is right wherever it happens.
LEMMA ExitLeaves ==
  ASSUME Given, NEW s, Intake(s), Answers(s), s.waiter = "none", ~s.inprog,
         s.tr = "open" => s.attached /\ s.shut # "done" /\ ~s.cancel /\ (s.force => s.shut # "no")
  PROVE  Sound(Exit(s))
<1> DEFINE t == Exit(s)
<1>0. Shape(s) /\ OutsideTyped(s) /\ s.force \in BOOLEAN /\ s.attached \in BOOLEAN /\ s.task \in BOOLEAN
  BY IntakeFacts DEF OutsideTyped, FlagsTyped
<1>1. /\ Shape(t) /\ Same(t, s, {"pc", "h", "cur", "wake", "cancel", "task", "tr"})
      /\ t.pc = "ended" /\ t.h = "none" /\ t.cur = 0 /\ t.wake = FALSE /\ t.cancel = FALSE
      /\ t.task \in BOOLEAN
      /\ t.tr = IF ~s.force /\ s.attached THEN "closed" ELSE s.tr
  BY <1>0, ExitFields
<1> HIDE DEF t
<1>2. /\ t.waiter = "none" /\ t.inprog = s.inprog /\ t.attached = s.attached /\ t.shut = s.shut
      /\ t.closing = s.closing /\ t.force = s.force /\ t.answered = s.answered
  BY <1>1 DEF Same, Fields
<1>3. Intake(t)
  <2>1. StartTyped(t)
    BY <1>1, <1>2 DEF StartTyped
  <2>2. FlagsTyped(t)
    BY <1>0, <1>1, ZenonT(60) DEF OutsideTyped, FlagsTyped, Same, Fields
  <2>3. t.tr \in {"open", "closed", "lost"} /\ t.wake \in BOOLEAN
    BY <1>0, <1>1 DEF OutsideTyped
  <2>4. OutsideTyped(t)
    BY <1>0, <1>1, <2>1, <2>2, <2>3 DEF OutsideTyped, Same, Fields
  <2>5. Same(t, s, Outside)
    BY <1>1 DEF Same, Outside
  <2> QED BY <1>1, <1>2, <2>4, <2>5, OutsideKeeps
<1>4. Answers(t)
  BY <1>2 DEF Answers
<1>5. t.tr = "open" => t.attached /\ t.shut \notin {"no", "done"} /\ ~t.cancel
  BY <1>0, <1>1, <1>2
<1>6. Service(t)
  BY <1>1, <1>2, <1>4, <1>5, EndedKeeps
<1> QED BY <1>3, <1>6, SoundParts DEF t

\* The next turn of the loop: the next request, the wait for one, or the end.
LEMMA NextTurnLeaves ==
  ASSUME Given, NEW s, Serves(s), s.keepalive => KeepsOn(s),
         s.keepalive /\ ~s.closing /\ ~s.force => s.eof[s.cur]
  PROVE  Sound(NextTurn(s))
<1> DEFINE i == [s EXCEPT !.h = "none", !.cur = 0, !.wake = FALSE]
           a == ArmTimer(i)
           t == [a EXCEPT !.pc = "waiter", !.waiter = "pending"]
<1>0. /\ Intake(s) /\ OutsideTyped(s) /\ Shape(s) /\ Answers(s) /\ s.waiter = "none" /\ ~s.inprog
      /\ s.cur \in Requests
      /\ (s.tr = "open" => s.attached /\ s.shut # "done" /\ ~s.cancel /\ (s.force => s.shut # "no"))
  BY IntakeFacts DEF Serves
<1>1. CASE ~s.keepalive \/ s.closing \/ s.force
  <2>1. NextTurn(s) = Exit(s)
    BY <1>1 DEF NextTurn
  <2> QED BY <1>0, <2>1, ExitLeaves
<1>2. CASE s.keepalive /\ ~s.closing /\ ~s.force
  <2>1. NextTurn(s) = IF a.msgs # <<>> THEN BeginRequest(a) ELSE t
    BY <1>2 DEF NextTurn
  <2>2. Shape(i) BY <1>0 DEF Shape
  <2>3. Same(i, s, {"h", "cur", "wake"}) BY <1>0 DEF Shape, Same
  <2>4. i.h = "none" /\ i.cur = 0 /\ i.wake = FALSE BY <1>0 DEF Shape, Fields
  <2> HIDE DEF i
  <2>5. Shape(a) BY <2>2 DEF Shape, ArmTimer
  <2>6. Same(a, i, {"timer", "moved"}) BY <2>2 DEF Shape, Same, ArmTimer
  <2>7. a.timer = TRUE /\ a.moved = i.timer BY <2>2 DEF Shape, Fields, ArmTimer
  <2> HIDE DEF a
  <2>8. i.timer = s.timer /\ a.h = "none" /\ a.cur = 0 /\ a.wake = FALSE
    BY <2>3, <2>4, <2>6 DEF Same, Fields
  <2>9. Same(a, s, {"h", "cur", "wake", "timer", "moved"})
    BY <2>3, <2>6 DEF Same
  <2>10. /\ a.waiter = "none" /\ a.inprog = s.inprog /\ a.attached = s.attached /\ a.shut = s.shut
         /\ a.closing = s.closing /\ a.force = s.force /\ a.answered = s.answered /\ a.tr = s.tr
         /\ a.cancel = s.cancel /\ a.msgs = s.msgs /\ a.heads = s.heads /\ a.failed = s.failed
         /\ a.done = s.done
    BY <1>0, <2>9 DEF Same, Fields
  <2>11. OutsideTyped(a)
    <3>1. StartTyped(a)
      BY <1>0, <2>8, <2>9 DEF OutsideTyped, StartTyped, Same, Fields
    <3>2. s.timer \in BOOLEAN
      BY <1>0 DEF OutsideTyped, FlagsTyped
    <3>3. FlagsTyped(a)
      BY <1>0, <2>7, <2>8, <2>9, <3>2, ZenonT(60) DEF OutsideTyped, FlagsTyped, Same, Fields
    <3> QED BY <1>0, <2>8, <2>9, <3>1, <3>3 DEF OutsideTyped, Same, Fields
  <2>12. Intake(a)
    <3>1. Same(a, s, Outside)
      BY <2>9 DEF Same, Outside
    <3> QED BY <1>0, <2>5, <2>10, <2>11, <3>1, OutsideKeeps
  <2>13. Clean(a) /\ Queued(a, Len(a.answered)) /\ s.cur = Len(a.answered)
    BY <1>2, <2>10 DEF KeepsOn, Clean, Queued
  <2>14. CASE a.msgs # <<>>
    <3>1. Between(a)
      BY <1>0, <2>10, <2>12, <2>13 DEF Between
    <3> QED BY <2>1, <2>14, <3>1, BeginRequestLeaves
  <2>15. CASE a.msgs = <<>>
    <3>1. Shape(t) BY <2>5 DEF Shape
    <3>2. Same(t, a, {"pc", "waiter"}) BY <2>5 DEF Shape, Same
    <3>3. t.pc = "waiter" /\ t.waiter = "pending" BY <2>5 DEF Shape, Fields
    <3>4. NextTurn(s) = t
      BY <2>1, <2>15
    <3> HIDE DEF t
    <3>5. /\ t.h = "none" /\ t.cur = 0 /\ ~t.inprog /\ t.attached = s.attached /\ t.shut = s.shut
          /\ t.closing = s.closing /\ t.force = s.force /\ t.answered = s.answered /\ t.tr = s.tr
          /\ t.cancel = s.cancel /\ t.msgs = a.msgs /\ t.heads = a.heads /\ t.failed = a.failed
          /\ t.done = a.done /\ t.attached = a.attached
      BY <1>0, <2>8, <2>10, <3>2 DEF Same, Fields
    <3>6. Intake(t)
      <4>1. StartTyped(t)
        BY <3>3, <3>5 DEF StartTyped
      <4>2. FlagsTyped(t)
        BY <2>11, <3>2 DEF OutsideTyped, FlagsTyped, Same, Fields
      <4>3. OutsideTyped(t)
        BY <2>11, <3>2, <4>1, <4>2 DEF OutsideTyped, Same, Fields
      <4>4. Same(t, a, Outside)
        BY <3>2 DEF Same, Outside
      <4> QED BY <2>10, <2>12, <3>1, <3>5, <4>3, <4>4, OutsideKeeps
    <3>7. Clean(t) /\ Queued(t, Len(t.answered))
      <4>1. t.answered = a.answered
        BY <2>10, <3>5
      <4>2. Clean(t)
        BY <2>13, <4>1 DEF Clean
      <4>3. Queued(t, Len(a.answered))
        BY <2>13, <3>5 DEF Queued
      <4> QED BY <4>1, <4>2, <4>3
    <3>8. Len(t.msgs) = 0
      BY <2>15, <3>5
    <3>9. t.heads = t.done
      <4>1. ~s.failed
        BY <2>10, <3>5, <3>7, <3>8 DEF Queued
      <4>2. s.heads = Len(s.answered) + 0
        BY <2>10, <3>5, <3>7, <3>8, <4>1 DEF Queued
      <4>3. s.heads = s.cur
        <5>1. Len(s.answered) \in Nat /\ s.cur = Len(s.answered)
          BY <1>0, <2>10, <2>13, IntakeFacts
        <5> QED BY <4>2, <5>1
      <4>4. s.eof[s.heads]
        BY <1>2, <4>3
      <4>5. ~(s.heads > s.done)
        BY <1>0, <1>2, <4>1, <4>4 DEF Intake, Parsed, Resumed
      <4>6. s.heads \in Nat /\ s.done \in Nat /\ s.done <= s.heads
        BY <1>0, IntakeFacts DEF Intake, Parsed, Position
      <4> QED BY <2>10, <3>5, <4>5, <4>6
    <3>10. Phases(t)
      BY <3>3, <3>5 DEF Phases, Busy
    <3>11. Answers(t)
      BY <3>7 DEF Answers, Clean
    <3>12. Handled(t)
      BY <3>3, <3>5, <3>7 DEF Handled, Busy
    <3>13. Upcoming(t)
      <4>1. Taken(t) = Len(t.answered) + 0
        BY <3>5 DEF Taken, Busy
      <4>2. Taken(t) = Len(t.answered)
        <5>1. Len(t.answered) \in Nat
          BY <3>6, IntakeFacts
        <5> QED BY <4>1, <5>1
      <4> QED BY <3>7, <4>2 DEF Upcoming
    <3>14. Waiting(t)
      BY <3>3, <3>8, <3>9 DEF Waiting
    <3>15. Open(t)
      BY <1>0, <1>2, <3>3, <3>5 DEF Open
    <3> QED BY <3>4, <3>6, <3>10, <3>11, <3>12, <3>13, <3>14, <3>15, SoundParts DEF Service
  <2> QED BY <2>14, <2>15
<1> QED BY <1>1, <1>2

\* What is left of a body that was not read to its end ends the connection.
LEMMA AfterBodyLeaves ==
  ASSUME Given, NEW s, Serves(s), s.keepalive => KeepsOn(s)
  PROVE  Sound(AfterBody(s))
<1> DEFINE b == IF ~s.eof[s.cur] /\ ~s.force THEN Close(s) ELSE s
           z == [b EXCEPT !.exc[s.cur] = "access"]
<1>0. AfterBody(s) = NextTurn(z)
  BY DEF AfterBody
<1>1. /\ Shape(s) /\ OutsideTyped(s) /\ s.waiter = "none" /\ s.closing \in BOOLEAN /\ s.keepalive \in BOOLEAN
      /\ s.exc \in [Requests -> {"none", "access", "lost", "cancel"}] /\ s.cur \in Requests
  BY IntakeFacts DEF Serves, OutsideTyped, FlagsTyped
<1>2. /\ Shape(b) /\ Same(b, s, {"closing"}) /\ b.closing \in BOOLEAN /\ (s.closing => b.closing)
      /\ s.eof[s.cur] \/ s.force \/ b.closing
  <2>1. CASE ~s.eof[s.cur] /\ ~s.force
    <3>1. /\ Shape(b) /\ Same(b, s, {"closing", "waiter"})
          /\ b.closing = TRUE /\ b.waiter = Woken(s.waiter)
      BY <1>1, <2>1, CloseFields
    <3> HIDE DEF b
    <3>2. Same(b, s, {"closing"})
      BY <1>1, <3>1 DEF Same, Woken
    <3> QED BY <3>1, <3>2
  <2>2. CASE ~(~s.eof[s.cur] /\ ~s.force)
    BY <1>1, <2>2 DEF Same
  <2> QED BY <2>1, <2>2
<1> HIDE DEF b
<1>3. Shape(z) BY <1>2 DEF Shape
<1>4. Same(z, b, {"exc"}) BY <1>2 DEF Shape, Same
<1>5. z.exc = [b.exc EXCEPT ![s.cur] = "access"] BY <1>2 DEF Shape, Fields
<1> HIDE DEF z
<1>6. /\ z.exc \in [Requests -> {"none", "access", "lost", "cancel"}]
      /\ z.closing = b.closing /\ z.keepalive = s.keepalive /\ z.cur = s.cur /\ z.eof = s.eof
      /\ z.force = s.force
  <2>1. b.exc = s.exc
    BY <1>2 DEF Same, Fields
  <2> QED BY <1>1, <1>2, <1>4, <1>5, <2>1 DEF Same, Fields
<1>7. Same(z, s, {"exc", "closing", "keepalive"})
  BY <1>2, <1>4 DEF Same
<1>8. Serves(z) /\ (KeepsOn(s) => KeepsOn(z))
  BY <1>1, <1>2, <1>3, <1>6, <1>7, ServesKeeps
<1> QED BY <1>0, <1>2, <1>6, <1>8, NextTurnLeaves

(* ------------------------------ the actions ----------------------------- *)

\* A step that feeds the parser and does no more.
LEMMA FedIsSound ==
  ASSUME Given, NEW s, Sound(s), NEW t, Resumes(t, s), Full(t)
  PROVE  Sound(t)
<1>1. Intake(s) /\ Service(s)
  BY SoundParts
<1>2. /\ Intake(t) /\ Same(t, s, ByData \cup {"arrived"}) /\ s.heads <= t.heads /\ s.done <= t.done
      /\ Len(s.msgs) <= Len(t.msgs) /\ Told(t, s) /\ (\A b \in Nat : Queued(s, b) => Queued(t, b))
  BY DEF Resumes, Intake, Same
<1> QED BY <1>1, <1>2, FedKeeps, SoundParts

\* New data is given to the parser, and nothing else happens.
LEMMA ReceiveSound ==
  ASSUME Given, NEW s, Sound(s), NEW n \in 1..Wire, s.arrived + n <= Wire
  PROVE  LET t == DataReceived([s EXCEPT !.arrived = @ + n]) IN Sound(t) /\ t.tr = s.tr
<1> DEFINE x == [s EXCEPT !.arrived = @ + n]
           t == DataReceived(x)
<1>0. /\ Typed(s) /\ Shape(s) /\ Position(s) /\ Bodies(s) /\ Behind(s) /\ PausedFor(s) /\ Counts(s)
      /\ Failed(s) /\ s.new = <<>> /\ ~s.stop /\ OnlyFor(s) /\ Full(s) /\ ParserTyped(s)
      /\ Phases(s) /\ Answers(s) /\ Handled(s) /\ Upcoming(s) /\ Waiting(s) /\ Open(s)
  BY DEF Sound, Parsed, Typed
<1>1. Shape(x) BY <1>0 DEF Shape
<1>2. Same(x, s, {"arrived"}) BY <1>0 DEF Shape, Same
<1>3. x.arrived = s.arrived + n BY <1>0 DEF Shape, Fields
<1> HIDE DEF x, t
<1>4. /\ x.heads = s.heads /\ x.done = s.done /\ x.parsed = s.parsed
      /\ x.inflight = s.inflight /\ x.failed = s.failed /\ x.eof = s.eof /\ x.buf = s.buf
      /\ x.rpaused = s.rpaused /\ x.closing = s.closing /\ x.force = s.force /\ x.todo = s.todo
      /\ x.ppaused = s.ppaused /\ x.msgs = s.msgs /\ x.new = s.new /\ x.stop = s.stop
      /\ x.attached = s.attached /\ x.tpaused = s.tpaused /\ x.qpaused = s.qpaused
  BY <1>2 DEF Same, Fields
<1>5. /\ x.pc = s.pc /\ x.cur = s.cur /\ x.h = s.h /\ x.inprog = s.inprog /\ x.answered = s.answered
      /\ x.keep = s.keep /\ x.tr = s.tr /\ x.shut = s.shut /\ x.cancel = s.cancel /\ x.waiter = s.waiter
  BY <1>2 DEF Same, Fields
<1>6. Wire \in Nat /\ n \in Nat /\ s.arrived \in Nat /\ s.parsed \in Nat
  BY <1>0 DEF Given, Wire, ParserTyped
<1>7. x.arrived \in Nat /\ x.parsed <= x.arrived /\ x.arrived <= Wire
  BY <1>0, <1>3, <1>4, <1>6 DEF Position
<1>8. Typed(x)
  <2>1. QueuesTyped(x) BY <1>0, <1>2 DEF Typed, QueuesTyped, Same, Fields
  <2>2. TransportTyped(x) BY <1>0, <1>2 DEF Typed, TransportTyped, Same, Fields
  <2>3. ParserTyped(x) BY <1>0, <1>2, <1>7 DEF Typed, ParserTyped, Same, Fields
  <2>4. BodiesTyped(x) BY <1>0, <1>2 DEF Typed, BodiesTyped, Same, Fields
  <2>5. StartTyped(x) BY <1>0, <1>2 DEF Typed, StartTyped, Same, Fields
  <2>6. FlagsTyped(x) BY <1>0, <1>2 DEF Typed, FlagsTyped, Same, Fields
  <2> QED BY <1>1, <2>1, <2>2, <2>3, <2>4, <2>5, <2>6 DEF Typed
<1>9. Position(x)
  BY <1>0, <1>4, <1>7 DEF Position
<1>10. Bodies(x) /\ Behind(x)
  BY <1>0, <1>4 DEF Bodies, Behind
<1>11. PausedFor(x) /\ OnlyFor(x)
  BY <1>0, <1>4 DEF PausedFor, OnlyFor
<1>12. Counts(x) /\ Failed(x)
  BY <1>0, <1>4 DEF Counts, Failed
<1>13. Ready(x)
  BY <1>0, <1>4, <1>8, <1>9, <1>10, <1>11, <1>12 DEF Ready
<1>14. Full(x)
  BY <1>0, <1>4 DEF Full
<1>15. Received(t, x)
  BY <1>13, DataReceivedLeaves DEF t
<1>16. /\ Intake(t) /\ Same(t, s, ByData \cup {"arrived"}) /\ s.heads <= t.heads /\ s.done <= t.done
       /\ Len(s.msgs) <= Len(t.msgs)
  <2>1. Same(t, x, ByData)
    BY <1>15 DEF Received
  <2>2. Same(t, s, ByData \cup {"arrived"})
    BY <1>2, <2>1 DEF Same
  <2> QED BY <1>4, <1>11, <1>14, <1>15, <2>2 DEF Received, Intake
<1>17. Told(t, s)
  BY <1>4, <1>5, <1>15 DEF Received, Told
<1>18. ASSUME NEW b \in Nat, Queued(s, b) PROVE Queued(t, b)
  <2>1. Queued(x, b)
    BY <1>4, <1>18 DEF Queued
  <2> QED BY <1>15, <2>1 DEF Received
<1>19. Intake(s) /\ Service(s)
  BY SoundParts
<1>20. Service(t)
  BY <1>16, <1>17, <1>18, <1>19, FedKeeps
<1>21. Sound(t) /\ t.tr = s.tr
  <2>1. t.tr = s.tr
    BY <1>16 DEF Same, Fields, ByData, ByParser
  <2> QED BY <1>16, <1>20, <2>1, SoundParts
<1> QED BY <1>21 DEF t, x

\* A step in which nothing but the handler's own fields change.
LEMMA HandlerGoesOn ==
  ASSUME Given, NEW s, Sound(s), s.h \in {"running", "reading"}, NEW t, Shape(t),
         Same(t, s, {"h", "wake", "keep", "cancel"}), t.h \in Busy, t.wake \in BOOLEAN, t.keep \in BOOLEAN,
         t.cancel \in BOOLEAN, t.cancel => s.cancel
  PROVE  Sound(t)
<1>1. Intake(s) /\ Service(s) /\ OutsideTyped(s)
  BY SoundParts, IntakeFacts
<1>2. StartTyped(t)
  BY <1>1 DEF OutsideTyped, StartTyped, Busy, Same, Fields
<1>3. FlagsTyped(t)
  BY <1>1 DEF OutsideTyped, FlagsTyped, Same, Fields
<1>4. OutsideTyped(t)
  BY <1>1, <1>2, <1>3 DEF OutsideTyped, Same, Fields
<1>5. /\ Same(t, s, Outside) /\ t.closing = s.closing /\ t.force = s.force /\ t.attached = s.attached
  BY DEF Same, Fields, Outside
<1>6. Intake(t)
  BY <1>1, <1>4, <1>5, OutsideKeeps
<1>7. Service(t)
  BY <1>1, BusyKeeps
<1> QED BY <1>6, <1>7, SoundParts

\* A handler that reads takes what is there, or waits.
LEMMA HandlerReadsSound ==
  ASSUME Given, NEW s, Sound(s), s.h = "running"
  PROVE  Sound(IF s.buf[s.cur] > 0 THEN TakeBody(s) ELSE [s EXCEPT !.h = "reading", !.wake = FALSE])
<1> DEFINE x == [s EXCEPT !.h = "reading", !.wake = FALSE]
<1>0. /\ Parsed(s) /\ Full(s) /\ Shape(s) /\ OutsideTyped(s) /\ Phases(s) /\ StartTyped(s)
      /\ s.keep \in BOOLEAN /\ s.cancel \in BOOLEAN
  BY IntakeFacts DEF Sound, Intake, OutsideTyped, FlagsTyped
<1>1. Sound(TakeBody(s))
  <2>1. s.cur \in Requests
    BY <1>0 DEF Phases, StartTyped
  <2> QED BY <1>0, <2>1, TakeBodyLeaves, FedIsSound
<1>2. Sound(x)
  <2>1. Shape(x) BY <1>0 DEF Shape
  <2>2. Same(x, s, {"h", "wake"}) BY <1>0 DEF Shape, Same
  <2>3. x.h = "reading" /\ x.wake = FALSE BY <1>0 DEF Shape, Fields
  <2> HIDE DEF x
  <2>4. Same(x, s, {"h", "wake", "keep", "cancel"}) BY <2>2 DEF Same
  <2>5. x.keep = s.keep /\ x.cancel = s.cancel BY <2>2 DEF Same, Fields
  <2> QED BY <1>0, <2>1, <2>3, <2>4, <2>5, HandlerGoesOn DEF Busy
<1> QED BY <1>1, <1>2

\* One that is woken takes what has come, or finds the body at its end.
LEMMA ReadWakesSound ==
  ASSUME Given, NEW s, Sound(s), s.h = "reading"
  PROVE  /\ Sound([s EXCEPT !.h = "running", !.wake = FALSE])
         /\ Sound([TakeBody(s) EXCEPT !.h = "running"])
<1> DEFINE x == [s EXCEPT !.h = "running", !.wake = FALSE]
           y == TakeBody(s)
           z == [y EXCEPT !.h = "running"]
<1>0. /\ Parsed(s) /\ Full(s) /\ Shape(s) /\ OutsideTyped(s) /\ Phases(s) /\ StartTyped(s)
      /\ s.keep \in BOOLEAN /\ s.cancel \in BOOLEAN
  BY IntakeFacts DEF Sound, Intake, OutsideTyped, FlagsTyped
<1>1. Sound(x)
  <2>1. Shape(x) BY <1>0 DEF Shape
  <2>2. Same(x, s, {"h", "wake"}) BY <1>0 DEF Shape, Same
  <2>3. x.h = "running" /\ x.wake = FALSE BY <1>0 DEF Shape, Fields
  <2> HIDE DEF x
  <2>4. Same(x, s, {"h", "wake", "keep", "cancel"}) BY <2>2 DEF Same
  <2>5. x.keep = s.keep /\ x.cancel = s.cancel BY <2>2 DEF Same, Fields
  <2> QED BY <1>0, <2>1, <2>3, <2>4, <2>5, HandlerGoesOn DEF Busy
<1>2. Sound(y) /\ y.h = "reading"
  <2>1. s.cur \in Requests
    BY <1>0 DEF Phases, StartTyped
  <2>2. Resumes(y, s) /\ Full(y)
    BY <1>0, <2>1, TakeBodyLeaves
  <2> HIDE DEF y
  <2>3. Sound(y)
    BY <2>2, FedIsSound
  <2>4. y.h = s.h
    BY <2>2 DEF Resumes, Same, Fields, ByData, ByParser
  <2> QED BY <2>3, <2>4
<1> HIDE DEF y
<1>3. Sound(z)
  <2>0. Shape(y) /\ y.keep \in BOOLEAN /\ y.cancel \in BOOLEAN /\ y.wake \in BOOLEAN
    BY <1>2, IntakeFacts, SoundParts DEF OutsideTyped, FlagsTyped
  <2>1. Shape(z) BY <2>0 DEF Shape
  <2>2. Same(z, y, {"h"}) BY <2>0 DEF Shape, Same
  <2>3. z.h = "running" BY <2>0 DEF Shape, Fields
  <2> HIDE DEF z
  <2>4. Same(z, y, {"h", "wake", "keep", "cancel"}) BY <2>2 DEF Same
  <2>5. z.keep = y.keep /\ z.cancel = y.cancel /\ z.wake = y.wake BY <2>2 DEF Same, Fields
  <2> QED BY <1>2, <2>0, <2>1, <2>3, <2>4, <2>5, HandlerGoesOn DEF Busy
<1> QED BY <1>1, <1>3 DEF y

\* A handler returns its response.
LEMMA HandlerReturnsSound ==
  ASSUME Given, NEW s, Sound(s), s.h = "running", NEW k \in BOOLEAN
  PROVE  Sound([s EXCEPT !.h = "writing", !.keep = k /\ ~script[s.cur].last])
<1> DEFINE x == [s EXCEPT !.h = "writing", !.keep = k /\ ~script[s.cur].last]
<1>0. Shape(s) /\ OutsideTyped(s) /\ s.wake \in BOOLEAN /\ s.cancel \in BOOLEAN
  BY IntakeFacts, SoundParts DEF OutsideTyped, FlagsTyped
<1>1. Shape(x) BY <1>0 DEF Shape
<1>2. Same(x, s, {"h", "keep"}) BY <1>0 DEF Shape, Same
<1>3. x.h = "writing" /\ x.keep \in BOOLEAN BY <1>0 DEF Shape, Fields
<1> HIDE DEF x
<1>4. Same(x, s, {"h", "wake", "keep", "cancel"}) BY <1>2 DEF Same
<1>5. x.wake = s.wake /\ x.cancel = s.cancel BY <1>2 DEF Same, Fields
<1>6. Sound(x)
  BY <1>0, <1>1, <1>3, <1>4, <1>5, HandlerGoesOn DEF Busy
<1> QED BY <1>6 DEF x

\* A handler catches its cancellation.
LEMMA CancelCaughtSound ==
  ASSUME Given, NEW s, Sound(s), s.h \in {"running", "reading"}
  PROVE  Sound([s EXCEPT !.cancel = FALSE, !.h = "running"])
<1> DEFINE x == [s EXCEPT !.cancel = FALSE, !.h = "running"]
<1>0. Shape(s) /\ OutsideTyped(s) /\ s.wake \in BOOLEAN /\ s.keep \in BOOLEAN
  BY IntakeFacts, SoundParts DEF OutsideTyped, FlagsTyped
<1>1. Shape(x) BY <1>0 DEF Shape
<1>2. Same(x, s, {"h", "cancel"}) BY <1>0 DEF Shape, Same
<1>3. x.h = "running" /\ x.cancel = FALSE BY <1>0 DEF Shape, Fields
<1> HIDE DEF x
<1>4. Same(x, s, {"h", "wake", "keep", "cancel"}) BY <1>2 DEF Same
<1>5. x.wake = s.wake /\ x.keep = s.keep BY <1>2 DEF Same, Fields
<1>6. Sound(x)
  BY <1>0, <1>1, <1>3, <1>4, <1>5, HandlerGoesOn DEF Busy
<1> QED BY <1>6 DEF x

\* What the end of a task changes.
LEMMA TaskEndsFields ==
  ASSUME NEW s, Shape(s), s.hw \in {"none", "pending", "set", "cancelled"}, NEW result
  PROVE  LET t == TaskEnds(s, result)
         IN  /\ Shape(t) /\ Same(t, s, {"inprog", "hw", "h"})
             /\ t.inprog = FALSE /\ t.hw \in {"none", "pending", "set", "cancelled"}
             /\ t.h = result \/ t.h = "error"
<1> USE DEF TaskEnds
<1>1. Shape(TaskEnds(s, result)) BY DEF Shape
<1>2. Same(TaskEnds(s, result), s, {"inprog", "hw", "h"}) BY DEF Shape, Same
<1>3. /\ TaskEnds(s, result).inprog = FALSE
      /\ TaskEnds(s, result).hw = IF s.hw = "pending" THEN "set" ELSE s.hw
      /\ TaskEnds(s, result).h = IF s.hw = "cancelled" THEN "error" ELSE result
  BY DEF Shape, Fields
<1> HIDE DEF TaskEnds
<1> QED BY <1>1, <1>2, <1>3

\* A step in which the task of the request ends.
LEMMA TaskIsDone ==
  ASSUME Given, NEW s, Sound(s), s.h \in Busy, NEW t, Shape(t),
         Same(t, s, {"h", "inprog", "hw", "answered", "cancel"}), t.inprog = FALSE,
         t.hw \in {"none", "pending", "set", "cancelled"}, t.cancel \in BOOLEAN, t.cancel => s.cancel,
         \/ t.h \in {"ok", "error"} /\ s.h = "writing" /\ t.answered = Append(s.answered, s.cur)
         \/ t.h \in {"reset", "error", "cancelled"} /\ t.answered = s.answered
  PROVE  Sound(t)
<1>1. Intake(s) /\ Service(s) /\ OutsideTyped(s)
  BY SoundParts, IntakeFacts
<1>2. StartTyped(t)
  <2>1. t.h \in {"ok", "reset", "error", "cancelled"}
    OBVIOUS
  <2> QED BY <1>1, <2>1 DEF OutsideTyped, StartTyped, Same, Fields
<1>3. FlagsTyped(t)
  BY <1>1, ZenonT(60) DEF OutsideTyped, FlagsTyped, Same, Fields
<1>4. t.answered \in Seq(Requests)
  <2>1. s.answered \in Seq(Requests) /\ s.cur \in Requests \cup {0} /\ s.cur # 0
    BY <1>1 DEF OutsideTyped, StartTyped, Service, Phases, Busy
  <2>2. Append(s.answered, s.cur) \in Seq(Requests)
    BY <2>1, AppendProperties
  <2> QED BY <2>1, <2>2
<1>5. OutsideTyped(t)
  BY <1>1, <1>2, <1>3, <1>4 DEF OutsideTyped, Same, Fields
<1>6. /\ Same(t, s, Outside) /\ t.closing = s.closing /\ t.force = s.force /\ t.attached = s.attached
  BY DEF Same, Fields, Outside
<1>7. Intake(t)
  BY <1>1, <1>5, <1>6, OutsideKeeps
<1>8. Service(t)
  BY <1>1, DoneKeeps
<1> QED BY <1>7, <1>8, SoundParts

\* The response is written, or the transport is gone.
LEMMA ResponseWrittenSound ==
  ASSUME Given, NEW s, Sound(s), s.h = "writing"
  PROVE  /\ Sound(TaskEnds([s EXCEPT !.answered = Append(@, s.cur)], "ok"))
         /\ Sound(TaskEnds(s, "reset"))
<1> DEFINE x == [s EXCEPT !.answered = Append(@, s.cur)]
           t == TaskEnds(x, "ok")
           u == TaskEnds(s, "reset")
<1>0. /\ Shape(s) /\ s.hw \in {"none", "pending", "set", "cancelled"} /\ s.cancel \in BOOLEAN
      /\ s.h \in Busy
  BY IntakeFacts, SoundParts DEF OutsideTyped, FlagsTyped, Busy
<1>1. Sound(t)
  <2>1. Shape(x) BY <1>0 DEF Shape
  <2>2. Same(x, s, {"answered"}) BY <1>0 DEF Shape, Same
  <2>3. x.answered = Append(s.answered, s.cur) BY <1>0 DEF Shape, Fields
  <2> HIDE DEF x
  <2>4. x.hw = s.hw
    BY <2>2 DEF Same, Fields
  <2>5. /\ Shape(t) /\ Same(t, x, {"inprog", "hw", "h"})
        /\ t.inprog = FALSE /\ t.hw \in {"none", "pending", "set", "cancelled"}
        /\ t.h = "ok" \/ t.h = "error"
    BY <1>0, <2>1, <2>4, TaskEndsFields
  <2> HIDE DEF t
  <2>6. Same(t, s, {"h", "inprog", "hw", "answered", "cancel"})
    BY <2>2, <2>5 DEF Same
  <2>7. t.answered = Append(s.answered, s.cur) /\ t.cancel = s.cancel
    BY <2>2, <2>3, <2>5 DEF Same, Fields
  <2> QED BY <1>0, <2>5, <2>6, <2>7, TaskIsDone
<1>2. Sound(u)
  <2>1. /\ Shape(u) /\ Same(u, s, {"inprog", "hw", "h"})
        /\ u.inprog = FALSE /\ u.hw \in {"none", "pending", "set", "cancelled"}
        /\ u.h = "reset" \/ u.h = "error"
    BY <1>0, TaskEndsFields
  <2> HIDE DEF u
  <2>2. Same(u, s, {"h", "inprog", "hw", "answered", "cancel"})
    BY <2>1 DEF Same
  <2>3. u.answered = s.answered /\ u.cancel = s.cancel
    BY <2>1 DEF Same, Fields
  <2> QED BY <1>0, <2>1, <2>2, <2>3, TaskIsDone
<1> QED BY <1>1, <1>2

\* A handler fails after part of a response.
LEMMA HandlerAbortsSound ==
  ASSUME Given, NEW s, Sound(s), s.h = "running"
  PROVE  Sound(TaskEnds(s, "reset"))
<1> DEFINE u == TaskEnds(s, "reset")
<1>0. /\ Shape(s) /\ s.hw \in {"none", "pending", "set", "cancelled"} /\ s.cancel \in BOOLEAN
      /\ s.h \in Busy
  BY IntakeFacts, SoundParts DEF OutsideTyped, FlagsTyped, Busy
<1>1. /\ Shape(u) /\ Same(u, s, {"inprog", "hw", "h"})
      /\ u.inprog = FALSE /\ u.hw \in {"none", "pending", "set", "cancelled"}
      /\ u.h = "reset" \/ u.h = "error"
  BY <1>0, TaskEndsFields
<1> HIDE DEF u
<1>2. Same(u, s, {"h", "inprog", "hw", "answered", "cancel"})
  BY <1>1 DEF Same
<1>3. u.answered = s.answered /\ u.cancel = s.cancel
  BY <1>1 DEF Same, Fields
<1>4. Sound(u)
  BY <1>0, <1>1, <1>2, <1>3, TaskIsDone
<1> QED BY <1>4 DEF u

\* The cancellation ends the task.
LEMMA TaskCancelledSound ==
  ASSUME Given, NEW s, Sound(s), s.h \in Busy
  PROVE  Sound(TaskEnds([s EXCEPT !.cancel = FALSE], "cancelled"))
<1> DEFINE x == [s EXCEPT !.cancel = FALSE]
           t == TaskEnds(x, "cancelled")
<1>0. Shape(s) /\ s.hw \in {"none", "pending", "set", "cancelled"}
  BY IntakeFacts, SoundParts DEF OutsideTyped, FlagsTyped
<1>1. Shape(x) BY <1>0 DEF Shape
<1>2. Same(x, s, {"cancel"}) BY <1>0 DEF Shape, Same
<1>3. x.cancel = FALSE BY <1>0 DEF Shape, Fields
<1> HIDE DEF x
<1>4. x.hw = s.hw
  BY <1>2 DEF Same, Fields
<1>5. /\ Shape(t) /\ Same(t, x, {"inprog", "hw", "h"})
      /\ t.inprog = FALSE /\ t.hw \in {"none", "pending", "set", "cancelled"}
      /\ t.h = "cancelled" \/ t.h = "error"
  BY <1>0, <1>1, <1>4, TaskEndsFields
<1> HIDE DEF t
<1>6. Same(t, s, {"h", "inprog", "hw", "answered", "cancel"})
  BY <1>2, <1>5 DEF Same
<1>7. t.answered = s.answered /\ t.cancel = FALSE
  BY <1>2, <1>3, <1>5 DEF Same, Fields
<1>8. Sound(t)
  BY <1>5, <1>6, <1>7, TaskIsDone
<1> QED BY <1>8 DEF t, x

(* --------------------------- start() itself ----------------------------- *)

\* Closing by force on the way out leaves no transport open.
LEMMA ForceCloseLeaves ==
  ASSUME Given, NEW s, Intake(s), Answers(s), s.waiter = "none", ~s.inprog, s.tr = "open" => s.attached
  PROVE  LET f == ForceClose(s)
         IN  Intake(f) /\ Answers(f) /\ f.waiter = "none" /\ ~f.inprog /\ f.tr # "open"
<1> DEFINE f == ForceClose(s)
<1>0. Shape(s) /\ OutsideTyped(s) /\ s.attached \in BOOLEAN
  BY IntakeFacts DEF OutsideTyped
<1>1. /\ Shape(f) /\ Same(f, s, {"force", "waiter", "attached", "tr"})
      /\ f.force = TRUE /\ f.waiter = Woken(s.waiter) /\ f.attached = FALSE
      /\ f.tr = IF s.attached THEN "closed" ELSE s.tr
  BY <1>0, ForceCloseFields
<1> HIDE DEF f
<1>2. f.waiter = "none" /\ f.tr \in {"closed", "lost"}
  BY <1>0, <1>1 DEF Woken, OutsideTyped
<1>3. f.inprog = s.inprog /\ f.answered = s.answered /\ f.closing = s.closing
  BY <1>1 DEF Same, Fields
<1>4. Intake(f)
  <2>1. StartTyped(f)
    BY <1>0, <1>1, <1>2 DEF OutsideTyped, StartTyped, Same, Fields
  <2>2. FlagsTyped(f)
    BY <1>0, <1>1, ZenonT(60) DEF OutsideTyped, FlagsTyped, Same, Fields
  <2>3. OutsideTyped(f)
    BY <1>0, <1>1, <1>2, <2>1, <2>2 DEF OutsideTyped, Same, Fields
  <2>4. Same(f, s, Outside)
    BY <1>1 DEF Same, Outside
  <2> QED BY <1>1, <1>3, <2>3, <2>4, OutsideKeeps
<1>5. Answers(f)
  BY <1>3 DEF Answers
<1> QED BY <1>2, <1>3, <1>4, <1>5 DEF f

\* start() may end where a shutdown will close the transport, or it is closed.
LEMMA EndedLeaves ==
  ASSUME Given, NEW s, Intake(s), Answers(s), s.waiter = "none", ~s.inprog,
         s.tr = "open" => s.attached /\ s.shut \notin {"no", "done"}
  PROVE  Sound(Ended(s))
<1> DEFINE t == Ended(s)
<1>0. Shape(s) /\ OutsideTyped(s)
  BY IntakeFacts
<1>1. /\ Shape(t) /\ Same(t, s, {"pc", "h", "cur", "wake", "cancel"})
      /\ t.pc = "ended" /\ t.h = "none" /\ t.cur = 0 /\ t.wake = FALSE /\ t.cancel = FALSE
  BY <1>0, EndedFields
<1> HIDE DEF t
<1>2. /\ t.waiter = "none" /\ t.inprog = s.inprog /\ t.attached = s.attached /\ t.shut = s.shut
      /\ t.closing = s.closing /\ t.force = s.force /\ t.answered = s.answered /\ t.tr = s.tr
  BY <1>1 DEF Same, Fields
<1>3. Intake(t)
  <2>1. StartTyped(t)
    BY <1>1, <1>2 DEF StartTyped
  <2>2. FlagsTyped(t)
    BY <1>0, <1>1, ZenonT(60) DEF OutsideTyped, FlagsTyped, Same, Fields
  <2>3. OutsideTyped(t)
    BY <1>0, <1>1, <2>1, <2>2 DEF OutsideTyped, Same, Fields
  <2>4. Same(t, s, Outside)
    BY <1>1 DEF Same, Outside
  <2> QED BY <1>0, <1>1, <1>2, <2>3, <2>4, OutsideKeeps
<1>4. Answers(t)
  BY <1>2 DEF Answers
<1>5. Service(t)
  BY <1>1, <1>2, <1>4, EndedKeeps
<1> QED BY <1>3, <1>5, SoundParts DEF t

\* A cancelled start() closes it itself.
LEMMA CancelledLeaves ==
  ASSUME Given, NEW s, Intake(s), Answers(s), s.waiter = "none", ~s.inprog, s.tr = "open" => s.attached
  PROVE  Sound(Cancelled(s))
<1>1. LET f == ForceClose(s)
      IN  Intake(f) /\ Answers(f) /\ f.waiter = "none" /\ ~f.inprog /\ f.tr # "open"
  BY ForceCloseLeaves
<1> QED BY <1>1, EndedLeaves DEF Cancelled

\* start() wakes for a request, or to end.
LEMMA StartWakesSound ==
  ASSUME Given, NEW s, Sound(s), s.pc = "waiter", s.waiter \in {"set", "cancelled"}
  PROVE  LET x == [s EXCEPT !.waiter = "none"]
         IN  /\ s.waiter = "cancelled" \/ s.cancel => Sound(Ended(x)) /\ Ended(x).tr = s.tr
             /\ ~(s.waiter = "cancelled" \/ s.cancel) => Sound(BeginRequest(x)) /\ BeginRequest(x).tr = s.tr
<1> DEFINE x == [s EXCEPT !.waiter = "none"]
<1>0. /\ Intake(s) /\ Shape(s) /\ OutsideTyped(s) /\ Phases(s) /\ Answers(s) /\ Handled(s) /\ Upcoming(s)
      /\ Waiting(s) /\ Open(s) /\ Len(s.answered) \in Nat /\ Len(s.msgs) \in Nat
  BY SoundParts, IntakeFacts DEF Service
<1>1. Shape(x) BY <1>0 DEF Shape
<1>2. Same(x, s, {"waiter"}) BY <1>0 DEF Shape, Same
<1>3. x.waiter = "none" BY <1>0 DEF Shape, Fields
<1> HIDE DEF x
<1>4. /\ x.inprog = s.inprog /\ x.attached = s.attached /\ x.shut = s.shut
      /\ x.closing = s.closing /\ x.force = s.force /\ x.answered = s.answered /\ x.tr = s.tr
      /\ x.cancel = s.cancel /\ x.msgs = s.msgs /\ x.heads = s.heads /\ x.failed = s.failed
  BY <1>2 DEF Same, Fields
<1>5. Intake(x)
  <2>1. StartTyped(x)
    BY <1>0, <1>2, <1>3 DEF OutsideTyped, StartTyped, Same, Fields
  <2>2. FlagsTyped(x)
    BY <1>0, <1>2 DEF OutsideTyped, FlagsTyped, Same, Fields
  <2>3. OutsideTyped(x)
    BY <1>0, <1>2, <2>1, <2>2 DEF OutsideTyped, Same, Fields
  <2>4. Same(x, s, Outside)
    BY <1>2 DEF Same, Outside
  <2> QED BY <1>0, <1>1, <1>4, <2>3, <2>4, OutsideKeeps
<1>6. Answers(x)
  BY <1>0, <1>4 DEF Answers
<1>7. s.h = "none" /\ s.cur = 0 /\ ~s.inprog
  BY <1>0 DEF Phases, Busy
<1>8. ASSUME s.waiter = "cancelled" \/ s.cancel PROVE Sound(Ended(x)) /\ Ended(x).tr = s.tr
  <2>1. x.tr = "open" => x.attached /\ x.shut \notin {"no", "done"}
    BY <1>0, <1>4, <1>8 DEF Open
  <2>2. Same(Ended(x), x, {"pc", "h", "cur", "wake", "cancel"})
    BY <1>1, EndedFields
  <2>4. Ended(x).tr = x.tr
    BY <2>2 DEF Same, Fields
  <2>3. Sound(Ended(x))
    BY <1>3, <1>4, <1>5, <1>6, <1>7, <2>1, EndedLeaves
  <2> QED BY <1>4, <2>3, <2>4
<1>9. ASSUME ~(s.waiter = "cancelled" \/ s.cancel) PROVE Sound(BeginRequest(x)) /\ BeginRequest(x).tr = s.tr
  <2>1. Clean(s)
    BY <1>0 DEF Handled
  <2>2. Live(s)
    BY <1>7, <2>1 DEF Live
  <2>3. Taken(s) = Len(s.answered) + 0
    BY <1>7 DEF Taken, Busy
  <2>4. Taken(s) = Len(s.answered)
    BY <1>0, <2>3
  <2>5. Queued(s, Len(s.answered))
    BY <1>0, <2>2, <2>4 DEF Upcoming
  <2>6. Clean(x) /\ Queued(x, Len(x.answered))
    <3>1. Clean(x)
      BY <1>4, <2>1 DEF Clean
    <3>2. Queued(x, Len(s.answered))
      BY <1>4, <2>5 DEF Queued
    <3> QED BY <1>4, <3>1, <3>2
  <2>7. x.msgs # <<>>
    <3>1. Len(s.msgs) > 0
      BY <1>0, <1>9 DEF Waiting
    <3> QED BY <1>4, <3>1
  <2>8. x.tr = "open" => x.attached /\ x.shut # "done" /\ ~x.cancel /\ (x.force => x.shut # "no")
    BY <1>0, <1>4 DEF Open
  <2>9. Between(x)
    BY <1>3, <1>5, <2>6, <2>8 DEF Between
  <2> QED BY <1>4, <2>7, <2>9, BeginRequestLeaves
<1> QED BY <1>8, <1>9 DEF x

\* What start() finds when its task is done, or when it lingers.
LEMMA ServedFacts ==
  ASSUME Given, NEW s, Sound(s), s.pc \in {"handler", "linger"}, s.h \notin Busy
  PROVE  /\ Serves(s)
         /\ s.h = "ok" /\ s.keep => KeepsOn(s)
         /\ s.pc = "linger" => KeepsOn(s)
<1>0. /\ Intake(s) /\ OutsideTyped(s) /\ Phases(s) /\ Answers(s) /\ Handled(s) /\ Upcoming(s)
      /\ Open(s) /\ Len(s.answered) \in Nat
  BY SoundParts, IntakeFacts DEF Service
<1>1. s.waiter = "none" /\ ~s.inprog /\ s.cur \in Requests
  BY <1>0 DEF Phases, OutsideTyped, StartTyped
<1>2. Serves(s)
  BY <1>0, <1>1 DEF Serves, Open
<1>3. ASSUME Clean(s), s.cur = Len(s.answered), ~Malformed(s.cur), s.h \in {"ok", "none"} PROVE KeepsOn(s)
  <2>1. Live(s)
    BY <1>3 DEF Live
  <2>2. Taken(s) = Len(s.answered) + 0
    BY <1>3 DEF Taken, Busy
  <2>3. Taken(s) = Len(s.answered)
    BY <1>0, <2>2
  <2> QED BY <1>0, <1>3, <2>1, <2>3 DEF Upcoming, KeepsOn
<1>4. s.h = "ok" /\ s.keep => KeepsOn(s)
  BY <1>0, <1>3 DEF Handled
<1>5. s.pc = "linger" => KeepsOn(s)
  BY <1>0, <1>3 DEF Handled, Phases
<1> QED BY <1>2, <1>4, <1>5

\* start() goes on when the task is done: to the end, to the next turn, or to linger.
LEMMA StartResumesSound ==
  ASSUME Given, NEW s, Sound(s), s.pc = "handler", s.h \in {"ok", "reset", "error", "cancelled"}
  PROVE  LET k == [s EXCEPT !.keepalive = s.keep]
         IN  /\ Sound(Cancelled(s)) /\ Sound(Exit(ForceClose(s))) /\ Sound(Exit(s))
             /\ s.h = "ok" =>
                  /\ s.eof[s.cur] => Sound(NextTurn([k EXCEPT !.exc[s.cur] = "access"]))
                  /\ ~s.eof[s.cur] => Sound(AfterBody(k))
                  /\ ~s.eof[s.cur] => Sound([k EXCEPT !.pc = "linger", !.h = "none", !.wake = FALSE])
<1> DEFINE k == [s EXCEPT !.keepalive = s.keep]
           z == [k EXCEPT !.exc[s.cur] = "access"]
           t == [k EXCEPT !.pc = "linger", !.h = "none", !.wake = FALSE]
<1>0. /\ Serves(s) /\ (s.h = "ok" /\ s.keep => KeepsOn(s))
      /\ Intake(s) /\ Shape(s) /\ OutsideTyped(s) /\ Phases(s) /\ Answers(s) /\ Handled(s) /\ Upcoming(s)
      /\ Open(s) /\ s.waiter = "none" /\ ~s.inprog /\ s.cur \in Requests
      /\ (s.tr = "open" => s.attached /\ s.shut # "done" /\ ~s.cancel /\ (s.force => s.shut # "no"))
      /\ s.exc \in [Requests -> {"none", "access", "lost", "cancel"}]
      /\ s.keep \in BOOLEAN /\ s.closing \in BOOLEAN /\ s.keepalive \in BOOLEAN
  <2>1. s.h \notin Busy
    BY DEF Busy
  <2>2. Serves(s) /\ (s.h = "ok" /\ s.keep => KeepsOn(s))
    BY <2>1, ServedFacts
  <2>3. /\ Intake(s) /\ Shape(s) /\ OutsideTyped(s) /\ Phases(s) /\ Answers(s) /\ Handled(s) /\ Upcoming(s)
        /\ Open(s)
    BY SoundParts, IntakeFacts DEF Service
  <2>4. /\ s.exc \in [Requests -> {"none", "access", "lost", "cancel"}]
        /\ s.keep \in BOOLEAN /\ s.closing \in BOOLEAN /\ s.keepalive \in BOOLEAN
    BY <2>3 DEF OutsideTyped, FlagsTyped
  <2> QED BY <2>2, <2>3, <2>4 DEF Serves
<1>1. Sound(Cancelled(s))
  BY <1>0, CancelledLeaves
<1>2. Sound(Exit(ForceClose(s)))
  <2>1. LET f == ForceClose(s)
        IN  Intake(f) /\ Answers(f) /\ f.waiter = "none" /\ ~f.inprog /\ f.tr # "open"
    BY <1>0, ForceCloseLeaves
  <2> QED BY <2>1, ExitLeaves
<1>3. Sound(Exit(s))
  BY <1>0, ExitLeaves
<1>4. ASSUME s.h = "ok"
      PROVE  /\ s.eof[s.cur] => Sound(NextTurn(z))
             /\ ~s.eof[s.cur] => Sound(AfterBody(k))
             /\ ~s.eof[s.cur] => Sound(t)
  <2>1. Shape(k) BY <1>0 DEF Shape
  <2>2. Same(k, s, {"keepalive"}) BY <1>0 DEF Shape, Same
  <2>3. k.keepalive = s.keep BY <1>0 DEF Shape, Fields
  <2> HIDE DEF k
  <2>4. k.exc = s.exc /\ k.closing = s.closing /\ k.eof = s.eof /\ k.cur = s.cur /\ k.wake = s.wake
    BY <2>2 DEF Same, Fields
  <2>5. Same(k, s, {"exc", "closing", "keepalive"})
    BY <2>2 DEF Same
  <2>6. Serves(k) /\ (KeepsOn(s) => KeepsOn(k))
    BY <1>0, <2>1, <2>3, <2>4, <2>5, ServesKeeps
  <2>7. k.keepalive => KeepsOn(k)
    BY <1>0, <1>4, <2>3, <2>6
  <2>8. Sound(AfterBody(k))
    BY <2>6, <2>7, AfterBodyLeaves
  <2>9. ASSUME s.eof[s.cur] PROVE Sound(NextTurn(z))
    <3>1. Shape(z) BY <2>1 DEF Shape
    <3>2. Same(z, k, {"exc"}) BY <2>1 DEF Shape, Same
    <3>3. z.exc = [k.exc EXCEPT ![s.cur] = "access"] BY <2>1 DEF Shape, Fields
    <3> HIDE DEF z
    <3>4. z.exc \in [Requests -> {"none", "access", "lost", "cancel"}]
      BY <1>0, <2>4, <3>3
    <3>5. z.closing = k.closing /\ z.keepalive = k.keepalive /\ z.eof = k.eof /\ z.cur = k.cur
      BY <3>2 DEF Same, Fields
    <3>6. Same(z, k, {"exc", "closing", "keepalive"})
      BY <3>2 DEF Same
    <3>7. Serves(z) /\ (KeepsOn(k) => KeepsOn(z))
      BY <1>0, <2>3, <2>4, <2>6, <3>1, <3>4, <3>5, <3>6, ServesKeeps
    <3> QED BY <2>4, <2>7, <2>9, <3>5, <3>7, NextTurnLeaves
  <2>10. ASSUME ~s.eof[s.cur] PROVE Sound(t)
    <3>1. Shape(t) BY <2>1 DEF Shape
    <3>2. Same(t, k, {"pc", "h", "wake"}) BY <2>1 DEF Shape, Same
    <3>3. t.pc = "linger" /\ t.h = "none" /\ t.wake = FALSE BY <2>1 DEF Shape, Fields
    <3> HIDE DEF t
    <3>4. Same(t, s, {"keepalive", "pc", "h", "wake"})
      BY <2>2, <3>2 DEF Same
    <3>5. /\ t.waiter = s.waiter /\ t.cur = s.cur /\ t.inprog = s.inprog /\ t.answered = s.answered
          /\ t.msgs = s.msgs /\ t.heads = s.heads /\ t.failed = s.failed /\ t.closing = s.closing
          /\ t.force = s.force /\ t.tr = s.tr /\ t.attached = s.attached /\ t.shut = s.shut
          /\ t.cancel = s.cancel
      BY <3>4 DEF Same, Fields
    <3>6. t.keepalive \in BOOLEAN
      BY <1>0, <2>3, <3>2 DEF Same, Fields
    <3>7. Intake(t)
      <4>1. StartTyped(t)
        BY <1>0, <3>3, <3>4 DEF OutsideTyped, StartTyped, Same, Fields
      <4>2. FlagsTyped(t)
        BY <1>0, <3>4, <3>6 DEF OutsideTyped, FlagsTyped, Same, Fields
      <4>3. OutsideTyped(t)
        BY <1>0, <3>3, <3>4, <4>1, <4>2 DEF OutsideTyped, Same, Fields
      <4>4. Same(t, s, Outside)
        BY <3>4 DEF Same, Outside
      <4> QED BY <1>0, <3>1, <3>5, <4>3, <4>4, OutsideKeeps
    <3>8. ~Malformed(s.cur)
      <4>1. Bodies(s) /\ s.done \in Nat /\ s.cur \in Nat
        BY <1>0, IntakeFacts DEF Intake, Parsed, Given
      <4>2. s.cur <= s.done \/ s.cur > s.done
        BY <4>1
      <4>3. script[s.cur].body # 0
        BY <1>0, <2>10, <4>1, <4>2 DEF Bodies
      <4> QED BY <1>0, <4>3 DEF Given
    <3>9. s.cur = Len(s.answered) /\ Clean(s)
      BY <1>0, <1>4, <3>8 DEF Handled
    <3>10. Phases(t)
      BY <1>0, <3>3, <3>5 DEF Phases, Busy
    <3>11. Answers(t)
      BY <1>0, <3>5 DEF Answers
    <3>12. Clean(t)
      BY <3>5, <3>9 DEF Clean
    <3>13. Handled(t)
      BY <3>3, <3>5, <3>8, <3>9, <3>12 DEF Handled, Busy
    <3>14. Upcoming(t)
      <4>1. Live(s)
        BY <1>4, <3>8, <3>9 DEF Live
      <4>2. Taken(t) = Taken(s)
        BY <1>4, <3>3, <3>5 DEF Taken, Busy
      <4>3. Queued(s, Taken(s)) => Queued(t, Taken(s))
        BY <3>5 DEF Queued
      <4> QED BY <1>0, <4>1, <4>2, <4>3 DEF Upcoming
    <3>15. Waiting(t)
      BY <1>0, <3>5 DEF Waiting
    <3>16. Open(t)
      BY <1>0, <3>3, <3>5 DEF Open
    <3> QED BY <3>7, <3>10, <3>11, <3>13, <3>14, <3>15, <3>16, SoundParts DEF Service
  <2> QED BY <2>8, <2>9, <2>10
<1> QED BY <1>1, <1>2, <1>3, <1>4

\* Lingering ends in the next turn, or in a cancellation.
LEMMA LingerSound ==
  ASSUME Given, NEW s, Sound(s), s.pc = "linger"
  PROVE  Sound(AfterBody(s)) /\ Sound(TakeBody(s)) /\ Sound(Cancelled(s))
<1>0. /\ Intake(s) /\ Phases(s) /\ Parsed(s) /\ Full(s)
  BY SoundParts DEF Service, Intake
<1>1. s.h = "none"
  BY <1>0 DEF Phases
<1>2. Serves(s) /\ KeepsOn(s)
  BY <1>1, ServedFacts DEF Busy
<1>3. Sound(AfterBody(s))
  BY <1>2, AfterBodyLeaves
<1>4. Sound(TakeBody(s))
  BY <1>0, <1>2, TakeBodyLeaves, FedIsSound DEF Serves
<1>5. Sound(Cancelled(s))
  BY <1>2, CancelledLeaves DEF Serves
<1> QED BY <1>3, <1>4, <1>5

(* ---------------- closing, timers and the shutdown ---------------------- *)

\* The fields that closing, the timers and the shutdown change.
Quiet ==
  {"waiter", "tr", "attached", "closing", "force", "cancel", "shut", "hw", "timer", "moved", "task", "exc", "wake"}
QuietTyped(t) ==
  /\ t.tr \in {"open", "closed", "lost"} /\ t.attached \in BOOLEAN /\ t.closing \in BOOLEAN /\ t.force \in BOOLEAN
  /\ t.cancel \in BOOLEAN /\ t.shut \in {"no", "pre", "graceful", "cancel", "wait", "done"}
  /\ t.hw \in {"none", "pending", "set", "cancelled"} /\ t.timer \in BOOLEAN /\ t.moved \in BOOLEAN
  /\ t.task \in BOOLEAN /\ t.wake \in BOOLEAN
  /\ t.exc \in [Requests -> {"none", "access", "lost", "cancel"}]

\* The types of those fields.
LEMMA SoundIsQuiet ==
  ASSUME Given, NEW s, Sound(s)
  PROVE  Shape(s) /\ QuietTyped(s) /\ Open(s) /\ Waiting(s) /\ s.waiter \in {"none", "pending", "set", "cancelled"}
         /\ s.cur \in Requests \cup {0} /\ s.inprog \in BOOLEAN
<1>1. OutsideTyped(s) /\ Shape(s) /\ Open(s) /\ Waiting(s)
  BY SoundParts, IntakeFacts DEF Service
<1>2. QuietTyped(s)
  BY <1>1 DEF OutsideTyped, FlagsTyped, QuietTyped
<1>3. s.waiter \in {"none", "pending", "set", "cancelled"} /\ s.cur \in Requests \cup {0} /\ s.inprog \in BOOLEAN
  BY <1>1 DEF OutsideTyped, FlagsTyped, StartTyped
<1> QED BY <1>1, <1>2, <1>3

\* A step that changes them alone is sound if no transport is left open.
LEMMA QuietIsSound ==
  ASSUME Given, NEW s, Sound(s), NEW t, Shape(t), Same(t, s, Quiet), QuietTyped(t),
         t.waiter = s.waiter \/ t.waiter = Woken(s.waiter),
         s.closing => t.closing, s.force => t.force, t.attached => s.attached, Open(t)
  PROVE  Sound(t)
<1>1. Intake(s) /\ Service(s) /\ OutsideTyped(s)
  BY SoundParts, IntakeFacts
<1>2. t.waiter = s.waiter \/ (s.waiter = "pending" /\ t.waiter = "cancelled")
  BY DEF Woken
<1>3. StartTyped(t)
  BY <1>1, <1>2 DEF OutsideTyped, StartTyped, Same, Fields, Quiet
<1>4. FlagsTyped(t)
  BY <1>1 DEF OutsideTyped, FlagsTyped, QuietTyped, Same, Fields, Quiet
<1>5. OutsideTyped(t)
  BY <1>1, <1>3, <1>4 DEF OutsideTyped, QuietTyped, Same, Fields, Quiet
<1>6. Same(t, s, Outside)
  BY DEF Same, Outside, Quiet
<1>7. Intake(t)
  BY <1>1, <1>5, <1>6, OutsideKeeps
<1>8. Service(t)
  BY <1>1, <1>2, QuietKeeps DEF Quiet
<1> QED BY <1>7, <1>8, SoundParts

\* One step of them.
Calm(t, s) ==
  /\ Shape(t) /\ Same(t, s, Quiet) /\ QuietTyped(t)
  /\ t.waiter = s.waiter \/ t.waiter = Woken(s.waiter)
  /\ s.closing => t.closing
  /\ s.force => t.force
  /\ t.attached => s.attached

\* Two such steps are one.
LEMMA CalmTwice ==
  ASSUME NEW s, NEW t, Calm(t, s), NEW u, Calm(u, t)
  PROVE  Calm(u, s)
<1>1. Same(u, s, Quiet)
  BY DEF Calm, Same
<1>2. u.waiter = s.waiter \/ u.waiter = Woken(s.waiter)
  BY DEF Calm, Woken
<1> QED BY <1>1, <1>2 DEF Calm

\* An update of those fields alone.
LEMMA CalmUpdate ==
  ASSUME NEW s, Shape(s), QuietTyped(s), NEW t, Shape(t), Same(t, s, Quiet \ {"waiter", "closing", "attached"}),
         QuietTyped(t), s.force => t.force
  PROVE  Calm(t, s)
<1>1. t.waiter = s.waiter /\ t.closing = s.closing /\ t.attached = s.attached
  BY DEF Same, Fields
<1>2. Same(t, s, Quiet)
  BY DEF Same
<1> QED BY <1>1, <1>2 DEF Calm

\* Closing is such a step,
LEMMA CloseCalm ==
  ASSUME NEW s, Shape(s), QuietTyped(s)
  PROVE  Calm(Close(s), s) /\ Close(s).closing = TRUE /\ Close(s).waiter = Woken(s.waiter)
         /\ Same(Close(s), s, {"closing", "waiter"})
<1> DEFINE t == Close(s)
<1>1. /\ Shape(t) /\ Same(t, s, {"closing", "waiter"})
      /\ t.closing = TRUE /\ t.waiter = Woken(s.waiter)
  BY CloseFields
<1> HIDE DEF t
<1>2. QuietTyped(t)
  BY <1>1, ZenonT(60) DEF QuietTyped, Same, Fields
<1>3. Same(t, s, Quiet)
  BY <1>1 DEF Same, Quiet
<1>4. t.force = s.force /\ t.attached = s.attached
  BY <1>1 DEF Same, Fields
<1> QED BY <1>1, <1>2, <1>3, <1>4 DEF Calm, t

\* and so is closing by force,
LEMMA ForceCloseCalm ==
  ASSUME NEW s, Shape(s), QuietTyped(s), s.tr = "open" => s.attached
  PROVE  Calm(ForceClose(s), s) /\ ForceClose(s).tr # "open"
         /\ Same(ForceClose(s), s, {"force", "waiter", "attached", "tr"})
<1> DEFINE t == ForceClose(s)
<1>0. s.attached \in BOOLEAN /\ s.tr \in {"open", "closed", "lost"}
  BY DEF QuietTyped
<1>1. /\ Shape(t) /\ Same(t, s, {"force", "waiter", "attached", "tr"})
      /\ t.force = TRUE /\ t.waiter = Woken(s.waiter) /\ t.attached = FALSE
      /\ t.tr = IF s.attached THEN "closed" ELSE s.tr
  BY <1>0, ForceCloseFields
<1> HIDE DEF t
<1>2. QuietTyped(t)
  BY <1>0, <1>1, ZenonT(60) DEF QuietTyped, Same, Fields
<1>3. Same(t, s, Quiet)
  BY <1>1 DEF Same, Quiet
<1>4. t.closing = s.closing /\ t.tr # "open"
  BY <1>0, <1>1 DEF Same, Fields
<1> QED BY <1>1, <1>2, <1>3, <1>4 DEF Calm, t

\* and the failure of a body.
LEMMA FailBodyCalm ==
  ASSUME NEW s, Shape(s), QuietTyped(s), s.cur \in Requests \cup {0},
         NEW e \in {"none", "access", "lost", "cancel"}
  PROVE  Calm(FailBody(s, e), s) /\ Same(FailBody(s, e), s, {"exc", "wake"})
<1> DEFINE t == FailBody(s, e)
<1>0. s.wake \in BOOLEAN /\ s.exc \in [Requests -> {"none", "access", "lost", "cancel"}]
  BY DEF QuietTyped
<1>1. /\ Shape(t) /\ Same(t, s, {"exc", "wake"}) /\ t.wake \in BOOLEAN
      /\ t.exc \in [Requests -> {"none", "access", "lost", "cancel"}]
  BY <1>0, FailBodyFields
<1> HIDE DEF t
<1>2. QuietTyped(t)
  BY <1>1 DEF QuietTyped, Same, Fields
<1>3. Same(t, s, Quiet \ {"waiter", "closing", "attached"})
  BY <1>1 DEF Same, Quiet
<1>4. t.force = s.force
  BY <1>1 DEF Same, Fields
<1>5. Calm(t, s)
  BY <1>1, <1>2, <1>3, <1>4, CalmUpdate
<1> QED BY <1>1, <1>5 DEF t

\* Such a step is sound if no transport is left open.
LEMMA CalmIsSound ==
  ASSUME Given, NEW s, Sound(s), NEW t, Calm(t, s), Open(t)
  PROVE  Sound(t)
BY QuietIsSound DEF Calm

\* The keep-alive timer is moved, dropped, or closes the connection.
LEMMA KeepAliveSound ==
  ASSUME Given, NEW s, Sound(s)
  PROVE  LET x == [s EXCEPT !.timer = FALSE, !.moved = FALSE]
         IN  Sound(x) /\ Sound([x EXCEPT !.timer = TRUE]) /\ Sound(ForceClose(x))
<1> DEFINE x == [s EXCEPT !.timer = FALSE, !.moved = FALSE]
           y == [x EXCEPT !.timer = TRUE]
<1>0. Shape(s) /\ QuietTyped(s) /\ Open(s)
  BY SoundIsQuiet
<1>1. Shape(x) BY <1>0 DEF Shape
<1>2. Same(x, s, {"timer", "moved"}) BY <1>0 DEF Shape, Same
<1>3. x.timer = FALSE /\ x.moved = FALSE BY <1>0 DEF Shape, Fields
<1>4. Shape(y) BY <1>1 DEF Shape
<1>5. Same(y, x, {"timer"}) BY <1>1 DEF Shape, Same
<1>6. y.timer = TRUE BY <1>1 DEF Shape, Fields
<1> HIDE DEF x, y
<1>7. QuietTyped(x) BY <1>0, <1>2, <1>3 DEF QuietTyped, Same, Fields
<1>8. QuietTyped(y) BY <1>5, <1>6, <1>7 DEF QuietTyped, Same, Fields
<1>9. Calm(x, s)
  <2>1. Same(x, s, Quiet \ {"waiter", "closing", "attached"}) BY <1>2 DEF Same, Quiet
  <2>2. x.force = s.force BY <1>2 DEF Same, Fields
  <2> QED BY <1>0, <1>1, <1>7, <2>1, <2>2, CalmUpdate
<1>10. Calm(y, x)
  <2>1. Same(y, x, Quiet \ {"waiter", "closing", "attached"}) BY <1>5 DEF Same, Quiet
  <2>2. y.force = x.force BY <1>5 DEF Same, Fields
  <2> QED BY <1>1, <1>4, <1>7, <1>8, <2>1, <2>2, CalmUpdate
<1>11. Open(x)
  BY <1>0, <1>2 DEF Open, Same, Fields
<1>12. Open(y)
  BY <1>5, <1>11 DEF Open, Same, Fields
<1>13. Calm(ForceClose(x), x) /\ ForceClose(x).tr # "open"
  BY <1>1, <1>7, <1>11, ForceCloseCalm DEF Open
<1>14. Open(ForceClose(x))
  BY <1>13 DEF Open
<1>15. Sound(x)
  BY <1>9, <1>11, CalmIsSound
<1> QED BY <1>10, <1>12, <1>13, <1>14, <1>15, CalmIsSound DEF x, y

\* A lost connection fails the body and cancels start() if it is configured to.
LEMMA ConnectionLostSound ==
  ASSUME Given, NEW s, Sound(s), NEW v \in BOOLEAN
  PROVE  LET closed == [ForceClose(s) EXCEPT !.tr = "lost", !.timer = FALSE]
             failed == FailBody(closed, "lost")
         IN  Sound([failed EXCEPT !.task = FALSE, !.cancel = @ \/ v])
<1> DEFINE f == ForceClose(s)
           x == [f EXCEPT !.tr = "lost", !.timer = FALSE]
           y == FailBody(x, "lost")
           t == [y EXCEPT !.task = FALSE, !.cancel = @ \/ v]
<1>0. Shape(s) /\ QuietTyped(s) /\ Open(s) /\ s.cur \in Requests \cup {0}
  BY SoundIsQuiet
<1>1. Calm(f, s) /\ f.cur = s.cur /\ Shape(f) /\ QuietTyped(f)
  <2>1. Calm(f, s) /\ Same(f, s, {"force", "waiter", "attached", "tr"})
    BY <1>0, ForceCloseCalm DEF Open
  <2> HIDE DEF f
  <2> QED BY <2>1 DEF Calm, Same, Fields
<1> HIDE DEF f
<1>2. Shape(x) BY <1>1 DEF Shape
<1>3. Same(x, f, {"tr", "timer"}) BY <1>1 DEF Shape, Same
<1>4. x.tr = "lost" /\ x.timer = FALSE BY <1>1 DEF Shape, Fields
<1> HIDE DEF x
<1>5. QuietTyped(x) BY <1>1, <1>3, <1>4 DEF QuietTyped, Same, Fields
<1>6. Calm(x, f) /\ x.cur = f.cur
  <2>1. Same(x, f, Quiet \ {"waiter", "closing", "attached"}) BY <1>3 DEF Same, Quiet
  <2>2. x.force = f.force /\ x.cur = f.cur BY <1>3 DEF Same, Fields
  <2> QED BY <1>1, <1>2, <1>5, <2>1, <2>2, CalmUpdate
<1>7. Calm(y, x) /\ Same(y, x, {"exc", "wake"})
  BY <1>0, <1>1, <1>2, <1>5, <1>6, FailBodyCalm
<1> HIDE DEF y
<1>8. Shape(y) /\ QuietTyped(y) /\ y.tr = "lost"
  BY <1>4, <1>7 DEF Calm, Same, Fields
<1>9. Shape(t) BY <1>8 DEF Shape
<1>10. Same(t, y, {"task", "cancel"}) BY <1>8 DEF Shape, Same
<1>11. t.task = FALSE /\ t.cancel = (y.cancel \/ v) BY <1>8 DEF Shape, Fields
<1> HIDE DEF t
<1>12. t.cancel \in BOOLEAN
  BY <1>8, <1>11 DEF QuietTyped
<1>13. QuietTyped(t) BY <1>8, <1>10, <1>11, <1>12 DEF QuietTyped, Same, Fields
<1>14. Calm(t, y) /\ t.tr = y.tr
  <2>1. Same(t, y, Quiet \ {"waiter", "closing", "attached"}) BY <1>10 DEF Same, Quiet
  <2>2. t.force = y.force /\ t.tr = y.tr BY <1>10 DEF Same, Fields
  <2> QED BY <1>8, <1>9, <1>13, <2>1, <2>2, CalmUpdate
<1>15. Calm(t, s)
  <2>1. Calm(x, s)
    BY <1>1, <1>6, CalmTwice
  <2>2. Calm(y, s)
    BY <1>7, <2>1, CalmTwice
  <2> QED BY <1>14, <2>2, CalmTwice
<1>16. Open(t)
  BY <1>8, <1>14 DEF Open
<1>17. Sound(t)
  BY <1>15, <1>16, CalmIsSound
<1> QED BY <1>17 DEF t, y, x, f

\* A shutdown begins by closing in order,
LEMMA PreShutdownSound ==
  ASSUME Given, NEW s, Sound(s)
  PROVE  Sound([Close(s) EXCEPT !.shut = "pre"])
<1> DEFINE f == Close(s)
           t == [f EXCEPT !.shut = "pre"]
<1>0. Shape(s) /\ QuietTyped(s) /\ Open(s)
  BY SoundIsQuiet
<1>1. Calm(f, s) /\ Same(f, s, {"closing", "waiter"})
  BY <1>0, CloseCalm
<1> HIDE DEF f
<1>2. Shape(f) /\ QuietTyped(f)
  BY <1>1 DEF Calm
<1>3. Shape(t) BY <1>2 DEF Shape
<1>4. Same(t, f, {"shut"}) BY <1>2 DEF Shape, Same
<1>5. t.shut = "pre" BY <1>2 DEF Shape, Fields
<1> HIDE DEF t
<1>6. QuietTyped(t) BY <1>2, <1>4, <1>5 DEF QuietTyped, Same, Fields
<1>7. Calm(t, f)
  <2>1. Same(t, f, Quiet \ {"waiter", "closing", "attached"}) BY <1>4 DEF Same, Quiet
  <2>2. t.force = f.force BY <1>4 DEF Same, Fields
  <2> QED BY <1>2, <1>3, <1>6, <2>1, <2>2, CalmUpdate
<1>8. t.tr = s.tr /\ t.attached = s.attached /\ t.cancel = s.cancel
  BY <1>1, <1>4 DEF Same, Fields
<1>9. Open(t)
  BY <1>0, <1>5, <1>8 DEF Open
<1>10. Sound(t)
  BY <1>1, <1>7, <1>9, CalmTwice, CalmIsSound
<1> QED BY <1>10 DEF t, f

\* then forbids new requests and waits for the handler,
LEMMA ShutdownBeginsSound ==
  ASSUME Given, NEW s, Sound(s)
  PROVE  Sound([s EXCEPT !.force = TRUE, !.timer = FALSE, !.hw = IF s.inprog THEN "pending" ELSE "none",
                         !.shut = IF s.inprog THEN "graceful" ELSE "cancel"])
<1> DEFINE t == [s EXCEPT !.force = TRUE, !.timer = FALSE, !.hw = IF s.inprog THEN "pending" ELSE "none",
                          !.shut = IF s.inprog THEN "graceful" ELSE "cancel"]
<1>0. Shape(s) /\ QuietTyped(s) /\ Open(s)
  BY SoundIsQuiet
<1>1. Shape(t) BY <1>0 DEF Shape
<1>2. Same(t, s, {"force", "timer", "hw", "shut"}) BY <1>0 DEF Shape, Same
<1>3. t.force = TRUE /\ t.timer = FALSE BY <1>0 DEF Shape, Fields
<1>4. t.hw \in {"pending", "none"} BY <1>0 DEF Shape, Fields
<1>5. t.shut \in {"graceful", "cancel"} BY <1>0 DEF Shape, Fields
<1> HIDE DEF t
<1>6. QuietTyped(t)
  <2>1. t.hw \in {"none", "pending", "set", "cancelled"} /\ t.shut \in {"no", "pre", "graceful", "cancel", "wait", "done"}
    BY <1>4, <1>5
  <2>2. /\ t.tr = s.tr /\ t.attached = s.attached /\ t.closing = s.closing /\ t.cancel = s.cancel
        /\ t.moved = s.moved /\ t.task = s.task /\ t.wake = s.wake /\ t.exc = s.exc
    BY <1>2 DEF Same, Fields
  <2> QED BY <1>0, <1>3, <2>1, <2>2 DEF QuietTyped
<1>7. Calm(t, s)
  <2>1. Same(t, s, Quiet \ {"waiter", "closing", "attached"}) BY <1>2 DEF Same, Quiet
  <2> QED BY <1>0, <1>1, <1>3, <1>6, <2>1, CalmUpdate
<1>8. t.tr = s.tr /\ t.attached = s.attached /\ t.cancel = s.cancel
  BY <1>2 DEF Same, Fields
<1>9. Open(t)
  BY <1>0, <1>5, <1>8 DEF Open
<1>10. Sound(t)
  BY <1>7, <1>9, CalmIsSound
<1> QED BY <1>10 DEF t

\* for so long and no longer;
LEMMA GracefulTimeoutSound ==
  ASSUME Given, NEW s, Sound(s)
  PROVE  Sound([s EXCEPT !.hw = "cancelled"])
<1> DEFINE t == [s EXCEPT !.hw = "cancelled"]
<1>0. Shape(s) /\ QuietTyped(s) /\ Open(s)
  BY SoundIsQuiet
<1>1. Shape(t) BY <1>0 DEF Shape
<1>2. Same(t, s, {"hw"}) BY <1>0 DEF Shape, Same
<1>3. t.hw = "cancelled" BY <1>0 DEF Shape, Fields
<1> HIDE DEF t
<1>4. QuietTyped(t) BY <1>0, <1>2, <1>3 DEF QuietTyped, Same, Fields
<1>5. Calm(t, s)
  <2>1. Same(t, s, Quiet \ {"waiter", "closing", "attached"}) BY <1>2 DEF Same, Quiet
  <2>2. t.force = s.force BY <1>2 DEF Same, Fields
  <2> QED BY <1>0, <1>1, <1>4, <2>1, <2>2, CalmUpdate
<1>6. Open(t)
  BY <1>0, <1>2 DEF Open, Same, Fields
<1>7. Sound(t)
  BY <1>5, <1>6, CalmIsSound
<1> QED BY <1>7 DEF t

\* when that wait is over
LEMMA GracefulEndsSound ==
  ASSUME Given, NEW s, Sound(s)
  PROVE  Sound([s EXCEPT !.hw = IF @ = "cancelled" THEN "none" ELSE @, !.shut = "cancel"])
<1> DEFINE t == [s EXCEPT !.hw = IF @ = "cancelled" THEN "none" ELSE @, !.shut = "cancel"]
<1>0. Shape(s) /\ QuietTyped(s) /\ Open(s)
  BY SoundIsQuiet
<1>1. Shape(t) BY <1>0 DEF Shape
<1>2. Same(t, s, {"hw", "shut"}) BY <1>0 DEF Shape, Same
<1>3. t.hw \in {"none", s.hw} /\ t.shut = "cancel" BY <1>0 DEF Shape, Fields
<1> HIDE DEF t
<1>4. QuietTyped(t) BY <1>0, <1>2, <1>3 DEF QuietTyped, Same, Fields
<1>5. Calm(t, s)
  <2>1. Same(t, s, Quiet \ {"waiter", "closing", "attached"}) BY <1>2 DEF Same, Quiet
  <2>2. t.force = s.force BY <1>2 DEF Same, Fields
  <2> QED BY <1>0, <1>1, <1>4, <2>1, <2>2, CalmUpdate
<1>6. t.tr = s.tr /\ t.attached = s.attached /\ t.cancel = s.cancel
  BY <1>2 DEF Same, Fields
<1>7. Open(t)
  BY <1>0, <1>3, <1>6 DEF Open
<1>8. Sound(t)
  BY <1>5, <1>7, CalmIsSound
<1> QED BY <1>8 DEF t

\* it fails the body that a handler reads, and waits again,
LEMMA ShutdownCancelsSound ==
  ASSUME Given, NEW s, Sound(s)
  PROVE  Sound([FailBody(s, "cancel") EXCEPT !.shut = "wait"])
<1> DEFINE f == FailBody(s, "cancel")
           t == [f EXCEPT !.shut = "wait"]
<1>0. Shape(s) /\ QuietTyped(s) /\ Open(s) /\ s.cur \in Requests \cup {0}
  BY SoundIsQuiet
<1>1. Calm(f, s) /\ Same(f, s, {"exc", "wake"})
  BY <1>0, FailBodyCalm
<1> HIDE DEF f
<1>2. Shape(f) /\ QuietTyped(f)
  BY <1>1 DEF Calm
<1>3. Shape(t) BY <1>2 DEF Shape
<1>4. Same(t, f, {"shut"}) BY <1>2 DEF Shape, Same
<1>5. t.shut = "wait" BY <1>2 DEF Shape, Fields
<1> HIDE DEF t
<1>6. QuietTyped(t) BY <1>2, <1>4, <1>5 DEF QuietTyped, Same, Fields
<1>7. Calm(t, f)
  <2>1. Same(t, f, Quiet \ {"waiter", "closing", "attached"}) BY <1>4 DEF Same, Quiet
  <2>2. t.force = f.force BY <1>4 DEF Same, Fields
  <2> QED BY <1>2, <1>3, <1>6, <2>1, <2>2, CalmUpdate
<1>8. t.tr = s.tr /\ t.attached = s.attached /\ t.cancel = s.cancel
  BY <1>1, <1>4 DEF Same, Fields
<1>9. Open(t)
  BY <1>0, <1>5, <1>8 DEF Open
<1>10. Sound(t)
  BY <1>1, <1>7, <1>9, CalmTwice, CalmIsSound
<1> QED BY <1>10 DEF t, f

\* and at last closes by force and cancels start().
LEMMA ShutdownEndsSound ==
  ASSUME Given, NEW s, Sound(s), NEW v \in BOOLEAN
  PROVE  Sound([ForceClose(s) EXCEPT !.shut = "done", !.cancel = @ \/ v])
<1> DEFINE f == ForceClose(s)
           t == [f EXCEPT !.shut = "done", !.cancel = @ \/ v]
<1>0. Shape(s) /\ QuietTyped(s) /\ Open(s)
  BY SoundIsQuiet
<1>1. Calm(f, s) /\ f.tr # "open"
  BY <1>0, ForceCloseCalm DEF Open
<1> HIDE DEF f
<1>2. Shape(f) /\ QuietTyped(f)
  BY <1>1 DEF Calm
<1>3. Shape(t) BY <1>2 DEF Shape
<1>4. Same(t, f, {"shut", "cancel"}) BY <1>2 DEF Shape, Same
<1>5. t.shut = "done" /\ t.cancel = (f.cancel \/ v) BY <1>2 DEF Shape, Fields
<1> HIDE DEF t
<1>6. t.cancel \in BOOLEAN BY <1>2, <1>5 DEF QuietTyped
<1>7. QuietTyped(t) BY <1>2, <1>4, <1>5, <1>6 DEF QuietTyped, Same, Fields
<1>8. Calm(t, f)
  <2>1. Same(t, f, Quiet \ {"waiter", "closing", "attached"}) BY <1>4 DEF Same, Quiet
  <2>2. t.force = f.force BY <1>4 DEF Same, Fields
  <2> QED BY <1>2, <1>3, <1>7, <2>1, <2>2, CalmUpdate
<1>9. Open(t)
  BY <1>1, <1>4 DEF Open, Same, Fields
<1>10. Sound(t)
  BY <1>1, <1>8, <1>9, CalmTwice, CalmIsSound
<1> QED BY <1>10 DEF t, f

(* ------------------------- the inductive invariant ----------------------- *)

\* A new connection is sound.
LEMMA InitialState == Init => Inv
<1> SUFFICES ASSUME Init PROVE Inv
  OBVIOUS
<1>1. parser \in Parsers /\ script \in Scripts
  BY DEF Init
<1>2. Given
  BY <1>1, ScriptFacts
<1>3. Shape(c)
  BY DEF Init, Shape, Fields
<1>4. /\ c.tr = "open" /\ c.attached = TRUE /\ c.tpaused = FALSE /\ c.rpaused = FALSE /\ c.qpaused = FALSE
      /\ c.arrived = 0 /\ c.parsed = 0 /\ c.heads = 0 /\ c.done = 0 /\ c.todo = 0 /\ c.inflight = 0
      /\ c.ppaused = FALSE /\ c.stop = FALSE /\ c.failed = FALSE /\ c.new = <<>> /\ c.msgs = <<>>
  BY DEF Init
<1>5. /\ c.buf = [i \in Requests |-> 0] /\ c.eof = [i \in Requests |-> script[i].body = 0]
      /\ c.exc = [i \in Requests |-> "none"] /\ c.wake = FALSE
      /\ c.waiter = "pending" /\ c.pc = "waiter" /\ c.cur = 0 /\ c.h = "none" /\ c.keep = FALSE
      /\ c.keepalive = FALSE /\ c.timer = FALSE /\ c.moved = FALSE /\ c.closing = FALSE /\ c.force = FALSE
      /\ c.inprog = FALSE /\ c.hw = "none" /\ c.task = TRUE /\ c.cancel = FALSE /\ c.answered = <<>>
      /\ c.shut = "no"
  BY DEF Init
<1>6. Len(c.msgs) = 0 /\ Len(c.new) = 0 /\ Len(c.answered) = 0
  BY <1>4, <1>5
<1>7. Typed(c)
  <2>1. TransportTyped(c) BY <1>4 DEF TransportTyped
  <2>2. ParserTyped(c)
    <3>1. 0 \in Nat
      OBVIOUS
    <3> QED BY <1>4, <3>1, Zenon DEF ParserTyped
  <2>3. QueuesTyped(c) BY <1>4, <1>5, EmptySeq DEF QueuesTyped
  <2>4. BodiesTyped(c)
    <3>1. [i \in Requests |-> 0] \in [Requests -> Nat]
      OBVIOUS
    <3>2. [i \in Requests |-> script[i].body = 0] \in [Requests -> BOOLEAN]
      BY Zenon
    <3>3. [i \in Requests |-> "none"] \in [Requests -> {"none", "access", "lost", "cancel"}]
      OBVIOUS
    <3> QED BY <1>5, <3>1, <3>2, <3>3, Zenon DEF BodiesTyped
  <2>5. StartTyped(c) BY <1>5 DEF StartTyped
  <2>6. FlagsTyped(c) BY <1>5 DEF FlagsTyped
  <2> QED BY <1>3, <2>1, <2>2, <2>3, <2>4, <2>5, <2>6 DEF Typed
<1>8. Position(c)
  <2>1. Wire \in Nat
    BY <1>2 DEF Given, Wire
  <2> QED BY <1>2, <1>4, <2>1 DEF Position, Given
<1>9. Bodies(c)
  <2>1. \A r \in Requests : ~(r <= 0)
    BY <1>2 DEF Given
  <2>2. \A r \in Requests : c.eof[r] <=> script[r].body = 0
    BY <1>5, Zenon
  <2> QED BY <1>4, <2>1, <2>2 DEF Bodies
<1>10. Behind(c) /\ PausedFor(c) /\ OnlyFor(c) /\ Full(c)
  BY <1>4 DEF Behind, PausedFor, OnlyFor, Full
<1>11. Resumed(c) /\ Counts(c) /\ Failed(c)
  BY <1>4, <1>6 DEF Resumed, Counts, Failed
<1>12. Phases(c) /\ Waiting(c) /\ Open(c)
  BY <1>4, <1>5, <1>6 DEF Phases, Waiting, Open, Busy
<1>13. Answers(c) /\ Clean(c)
  BY <1>6 DEF Answers, Clean
<1>14. Handled(c)
  BY <1>5, <1>13 DEF Handled, Busy
<1>15. Upcoming(c)
  <2>1. Taken(c) = 0
    BY <1>5, <1>6 DEF Taken, Busy
  <2> QED BY <1>4, <1>6, <2>1 DEF Upcoming, Queued
<1> QED BY <1>1, <1>4, <1>7, <1>8, <1>9, <1>10, <1>11, <1>12, <1>13, <1>14, <1>15 DEF Inv, Sound, Parsed

\* Every step is one of those above.
LEMMA EveryStep ==
  ASSUME Given, Sound(c), Next
  PROVE  /\ UNCHANGED <<parser, script>>
         /\ \E s : c' = s /\ Sound(s)
<1> DEFINE Good == UNCHANGED <<parser, script>> /\ \E s : c' = s /\ Sound(s)
<1>0. ASSUME NEW s, Step(s), Sound(s) PROVE Good
  BY <1>0 DEF Step
<1> SUFFICES Good
  OBVIOUS
<1> HIDE DEF Good
<1> USE DEF Busy
<1>1. ASSUME NEW n \in 1..Wire, Receive(n) PROVE Good
  BY <1>0, <1>1, ReceiveSound DEF Receive
<1>2. CASE StartWakes
  <2> DEFINE x == [c EXCEPT !.waiter = "none"]
  <2>1. /\ c.pc = "waiter" /\ c.waiter \in {"set", "cancelled"}
        /\ Step(IF c.waiter = "cancelled" \/ c.cancel THEN Ended(x) ELSE BeginRequest(x))
    BY <1>2 DEF StartWakes
  <2>2. /\ c.waiter = "cancelled" \/ c.cancel => Sound(Ended(x))
        /\ ~(c.waiter = "cancelled" \/ c.cancel) => Sound(BeginRequest(x))
    BY <2>1, StartWakesSound
  <2> HIDE DEF x
  <2> QED BY <1>0, <2>1, <2>2
<1>3. CASE StartResumes
  <2> DEFINE k == [c EXCEPT !.keepalive = c.keep]
             z == [k EXCEPT !.exc[c.cur] = "access"]
             t == [k EXCEPT !.pc = "linger", !.h = "none", !.wake = FALSE]
  <2>1. /\ c.pc = "handler" /\ c.h \in {"ok", "reset", "error", "cancelled"}
        /\ Step(CASE c.cancel \/ c.h = "cancelled" -> Cancelled(c)
                  [] ~c.cancel /\ c.h = "error" -> Exit(ForceClose(c))
                  [] ~c.cancel /\ c.h = "reset" -> Exit(c)
                  [] OTHER -> IF c.eof[c.cur] THEN NextTurn(z)
                              ELSE IF c.force THEN AfterBody(k) ELSE t)
    BY <1>3 DEF StartResumes
  <2>2. /\ Sound(Cancelled(c)) /\ Sound(Exit(ForceClose(c))) /\ Sound(Exit(c))
        /\ c.h = "ok" => /\ c.eof[c.cur] => Sound(NextTurn(z))
                         /\ ~c.eof[c.cur] => Sound(AfterBody(k))
                         /\ ~c.eof[c.cur] => Sound(t)
    BY <2>1, StartResumesSound
  <2> HIDE DEF k, z, t
  <2>3. CASE c.cancel \/ c.h = "cancelled"
    BY <1>0, <2>1, <2>2, <2>3
  <2>4. CASE ~c.cancel /\ c.h = "error"
    BY <1>0, <2>1, <2>2, <2>4
  <2>5. CASE ~c.cancel /\ c.h = "reset"
    BY <1>0, <2>1, <2>2, <2>5
  <2>6. CASE ~c.cancel /\ c.h = "ok"
    BY <1>0, <2>1, <2>2, <2>6
  <2> QED BY <2>1, <2>3, <2>4, <2>5, <2>6
<1>4. CASE LingerReads
  BY <1>0, <1>4, LingerSound DEF LingerReads
<1>5. CASE LingerTimeout
  BY <1>0, <1>5, LingerSound DEF LingerTimeout
<1>6. CASE LingerCancelled
  BY <1>0, <1>6, LingerSound DEF LingerCancelled
<1>7. CASE HandlerReads
  BY <1>0, <1>7, HandlerReadsSound DEF HandlerReads
<1>8. CASE ReadWakes
  BY <1>0, <1>8, ReadWakesSound DEF ReadWakes
<1>9. CASE ResponseWritten
  BY <1>0, <1>9, ResponseWrittenSound DEF ResponseWritten
<1>10. CASE HandlerAborts
  BY <1>0, <1>10, HandlerAbortsSound DEF HandlerAborts
<1>11. CASE TaskCancelled
  BY <1>0, <1>11, TaskCancelledSound DEF TaskCancelled
<1>12. CASE CancelCaught
  BY <1>0, <1>12, CancelCaughtSound DEF CancelCaught
<1>13. ASSUME NEW k \in BOOLEAN, HandlerReturns(k) PROVE Good
  BY <1>0, <1>13, HandlerReturnsSound DEF HandlerReturns
<1>14. CASE PreShutdown
  BY <1>0, <1>14, PreShutdownSound DEF PreShutdown
<1>15. CASE ShutdownBegins
  BY <1>0, <1>15, ShutdownBeginsSound DEF ShutdownBegins
<1>16. CASE GracefulTimeout
  BY <1>0, <1>16, GracefulTimeoutSound DEF GracefulTimeout
<1>17. CASE GracefulEnds
  BY <1>0, <1>17, GracefulEndsSound DEF GracefulEnds
<1>18. CASE ShutdownCancels
  BY <1>0, <1>18, ShutdownCancelsSound DEF ShutdownCancels
<1>19. CASE ShutdownEnds
  <2> DEFINE v == c.task /\ c.pc # "ended"
  <2>1. Step([ForceClose(c) EXCEPT !.shut = "done", !.cancel = @ \/ v])
    BY <1>19 DEF ShutdownEnds
  <2>2. v \in BOOLEAN
    OBVIOUS
  <2> HIDE DEF v
  <2> QED BY <1>0, <2>1, <2>2, ShutdownEndsSound
<1>20. ASSUME NEW late \in BOOLEAN, KeepAliveExpires(late) PROVE Good
  BY <1>0, <1>20, KeepAliveSound DEF KeepAliveExpires
<1>21. CASE ConnectionLost
  <2> DEFINE v == Cancellation /\ c.task /\ c.pc # "ended"
             closed == [ForceClose(c) EXCEPT !.tr = "lost", !.timer = FALSE]
             failed == FailBody(closed, "lost")
  <2>1. Step([failed EXCEPT !.task = FALSE, !.cancel = @ \/ v])
    BY <1>21 DEF ConnectionLost
  <2>2. v \in BOOLEAN
    OBVIOUS
  <2> HIDE DEF v
  <2>3. Sound([failed EXCEPT !.task = FALSE, !.cancel = @ \/ v])
    BY <2>2, ConnectionLostSound
  <2> QED BY <1>0, <2>1, <2>3
<1>22. Good
  BY <1>1, <1>2, <1>3, <1>4, <1>5, <1>6, <1>7, <1>8, <1>9, <1>10, <1>11, <1>12, <1>13, <1>14, <1>15,
     <1>16, <1>17, <1>18, <1>19, <1>20, <1>21 DEF Next, Start, Task, Shutdown
<1> QED BY <1>22

\* What is sound of a value is sound of the connection once it has that value:
\* the script and the parser stay.
LEMMA SoundNext ==
  ASSUME NEW s, c' = s, parser' = parser, script' = script, Sound(s)
  PROVE  Sound(c)'
<1>0. Requests' = Requests
  BY DEF Requests
<1>1. \A r : Malformed(r)' <=> Malformed(r)
  BY DEF Malformed
<1>2. Sent' = Sent /\ Wire' = Wire
  BY DEF Sent, Wire
<1>3. /\ Typed(s) /\ Position(s) /\ Bodies(s) /\ Behind(s) /\ PausedFor(s) /\ Resumed(s) /\ Counts(s)
      /\ Failed(s) /\ s.new = <<>> /\ ~s.stop /\ OnlyFor(s) /\ Full(s)
      /\ Phases(s) /\ Answers(s) /\ Handled(s) /\ Upcoming(s) /\ Waiting(s) /\ Open(s)
  BY DEF Sound, Parsed
<1>4. Typed(c)'
  <2>1. Shape(c)' BY <1>3 DEF Typed, Shape
  <2>2. TransportTyped(c)' BY <1>3 DEF Typed, TransportTyped
  <2>3. ParserTyped(c)' BY <1>3 DEF Typed, ParserTyped
  <2>4. QueuesTyped(c)' BY <1>0, <1>3 DEF Typed, QueuesTyped
  <2>5. BodiesTyped(c)' BY <1>0, <1>3 DEF Typed, BodiesTyped
  <2>6. StartTyped(c)' BY <1>0, <1>3 DEF Typed, StartTyped
  <2>7. FlagsTyped(c)' BY <1>3 DEF Typed, FlagsTyped
  <2> QED BY <2>1, <2>2, <2>3, <2>4, <2>5, <2>6, <2>7 DEF Typed
<1>5. Position(c)' BY <1>2, <1>3 DEF Position
<1>6. Bodies(c)' BY <1>0, <1>3 DEF Bodies
<1>7. Behind(c)' BY <1>3 DEF Behind
<1>8. PausedFor(c)' /\ OnlyFor(c)' /\ Full(c)' BY <1>3 DEF PausedFor, OnlyFor, Full
<1>9. Resumed(c)' BY <1>3 DEF Resumed
<1>10. Counts(c)' BY <1>3 DEF Counts
<1>11. Failed(c)' BY <1>0, <1>1, <1>3 DEF Failed
<1>12. Phases(c)' BY <1>3 DEF Phases
<1>13. Answers(c)' BY <1>1, <1>3 DEF Answers
<1>14. Clean(s) => Clean(c)' BY <1>1 DEF Clean
<1>15. Handled(c)' BY <1>1, <1>3, <1>14 DEF Handled
<1>16. Upcoming(c)'
  <2>1. Clean(c)' => Clean(s) BY <1>1 DEF Clean
  <2>2. Live(c)' => Live(s) BY <1>1, <2>1 DEF Live
  <2>3. Taken(c)' = Taken(s) BY DEF Taken
  <2>4. \A b : Queued(s, b) => Queued(c, b)' BY <1>1 DEF Queued
  <2> QED BY <1>3, <2>2, <2>3, <2>4 DEF Upcoming
<1>17. Waiting(c)' BY <1>3 DEF Waiting
<1>18. Open(c)' BY <1>3 DEF Open
<1>19. (c.new = <<>>)' /\ (~c.stop)' BY <1>3
<1>20. Parsed(c)'
  BY <1>4, <1>5, <1>6, <1>7, <1>8, <1>9, <1>10, <1>11, <1>19 DEF Parsed
<1> QED BY <1>8, <1>12, <1>13, <1>15, <1>16, <1>17, <1>18, <1>20 DEF Sound

\* Every step keeps the invariant.
LEMMA InvIsInductive == Inv /\ [Next]_vars => Inv'
<1> SUFFICES ASSUME Inv, [Next]_vars PROVE Inv'
  OBVIOUS
<1>1. Given /\ Sound(c)
  BY ScriptFacts DEF Inv
<1>2. UNCHANGED <<parser, script>> /\ \E s : c' = s /\ Sound(s)
  <2>1. CASE Next
    BY <1>1, <2>1, EveryStep
  <2>2. CASE UNCHANGED vars
    BY <1>1, <2>2 DEF vars
  <2> QED BY <2>1, <2>2
<1>3. PICK s : c' = s /\ Sound(s)
  BY <1>2
<1>4. Sound(c)'
  BY <1>2, <1>3, SoundNext
<1> QED BY <1>2, <1>4 DEF Inv

\* In every state reached, the invariant holds.
LEMMA Invariance == Spec => []Inv
<1>1. Init => Inv
  BY InitialState
<1>2. Inv /\ [Next]_vars => Inv'
  BY InvIsInductive
<1> QED BY <1>1, <1>2, PTL DEF Spec

(* ------------------------------ the theorems ---------------------------- *)

\* The invariant implies the order of the responses.
LEMMA InvKeepsOrder == Inv => OrderKept
<1> SUFFICES ASSUME Inv PROVE OrderKept
  OBVIOUS
<1>1. /\ Given /\ Typed(c) /\ Position(c) /\ c.new = <<>> /\ ~c.stop /\ Phases(c) /\ Answers(c) /\ Open(c)
  BY ScriptFacts DEF Inv, Sound, Parsed
<1>2. c.heads \in Nat /\ c.done \in Nat /\ c.answered \in Seq(Requests)
  BY <1>1 DEF Typed, ParserTyped, QueuesTyped
<1>3. TypeOK
  <2>1. c \in Connections
    BY <1>1, TypedIsConnection
  <2>2. c.pc = "waiter" <=> c.waiter # "none"
    BY <1>1 DEF Phases
  <2>3. c.pc \in {"handler", "linger"} <=> c.cur # 0
    BY <1>1 DEF Phases
  <2>4. c.inprog <=> c.h \in {"running", "reading", "writing"}
    BY <1>1 DEF Phases, Busy
  <2>5. c.parsed <= c.arrived /\ c.done <= c.heads /\ c.heads <= c.done + 1
    BY <1>1 DEF Position
  <2> QED BY <1>1, <2>1, <2>2, <2>3, <2>4, <2>5 DEF TypeOK
<1>4. InOrder
  <2>1. DOMAIN c.answered = 1..Len(c.answered)
    BY <1>2
  <2> QED BY <1>1, <2>1 DEF InOrder, Answers, Malformed
<1>5. EndedIsClosed
  BY <1>1 DEF EndedIsClosed, Open
<1> QED BY <1>3, <1>4, <1>5 DEF OrderKept

\* The queue of whoever waits for a request is empty, and so are the reasons
\* to pause.
LEMMA WaitingForRequest ==
  ASSUME Inv, Alive, ~c.closing, WaitsForRequest
  PROVE  ~c.tpaused /\ c.msgs = <<>> /\ (c.parsed = c.arrived \/ c.inflight > 0)
<1>1. /\ Given /\ Typed(c) /\ Position(c) /\ Behind(c) /\ Resumed(c) /\ OnlyFor(c) /\ Full(c)
      /\ Phases(c) /\ Handled(c) /\ Upcoming(c) /\ Waiting(c)
  BY ScriptFacts DEF Inv, Sound, Parsed
<1>2. c.tr = "open" /\ c.attached /\ ~c.force /\ c.pc = "waiter" /\ c.waiter = "pending"
  BY DEF Alive, WaitsForRequest
<1>3. /\ c.heads \in Nat /\ c.done \in Nat /\ c.msgs \in Seq(Requests) /\ c.parsed \in Nat /\ c.arrived \in Nat
      /\ c.inflight \in Nat
  BY <1>1 DEF Typed, ParserTyped, QueuesTyped
<1>4. Len(c.msgs) = 0 /\ c.msgs = <<>> /\ c.heads = c.done
  BY <1>1, <1>2, <1>3, EmptySeq DEF Waiting
<1>5. c.h = "none" /\ c.cur = 0
  BY <1>1, <1>2 DEF Phases
<1>6. Live(c)
  BY <1>1, <1>2, <1>5 DEF Live, Handled
<1>7. ~c.failed
  BY <1>1, <1>4, <1>6 DEF Upcoming, Queued
<1>8. ~c.qpaused
  <2>1. \A n \in Nat \ {0} : ~(0 > n \div 2)
    OBVIOUS
  <2> QED BY <1>1, <1>4, <2>1 DEF Full, Given
<1>9. ~c.rpaused
  <2>1. ~(c.heads > c.done)
    BY <1>3, <1>4
  <2> QED BY <1>1, <2>1 DEF Behind
<1>10. ~c.tpaused
  BY <1>1, <1>2, <1>8, <1>9 DEF OnlyFor
<1>11. c.parsed < c.arrived => c.inflight > 0
  BY <1>1, <1>2, <1>4, <1>7, <1>8 DEF Resumed
<1>12. c.parsed <= c.arrived
  BY <1>1 DEF Position
<1>13. c.parsed = c.arrived \/ c.parsed < c.arrived
  BY <1>3, <1>12
<1> QED BY <1>4, <1>10, <1>11, <1>13

\* The body that is waited for is the one that the parser is in.
LEMMA WaitingForBody ==
  ASSUME Inv, Alive, ~c.closing, WaitsForBody
  PROVE  ~c.tpaused /\ c.parsed = c.arrived
<1>1. /\ Given /\ Typed(c) /\ Position(c) /\ Bodies(c) /\ Behind(c) /\ Resumed(c) /\ OnlyFor(c) /\ Full(c)
      /\ Phases(c) /\ Handled(c) /\ Upcoming(c) /\ Failed(c)
  BY ScriptFacts DEF Inv, Sound, Parsed
<1>2. /\ c.tr = "open" /\ c.attached /\ ~c.force /\ (c.h = "reading" \/ c.pc = "linger")
      /\ c.buf[c.cur] = 0 /\ ~c.eof[c.cur]
  BY DEF Alive, WaitsForBody
<1>3. /\ c.heads \in Nat /\ c.done \in Nat /\ c.msgs \in Seq(Requests) /\ Len(c.msgs) \in Nat
      /\ c.answered \in Seq(Requests) /\ Len(c.answered) \in Nat /\ c.cur \in Requests \cup {0}
  BY <1>1, LenProperties DEF Typed, ParserTyped, QueuesTyped, StartTyped
<1>4. c.cur \in Requests /\ c.cur \in Nat
  BY <1>1, <1>2, <1>3 DEF Phases, Given
<1>5. c.cur = Taken(c) /\ Live(c)
  <2>1. CASE c.h = "reading"
    <3>1. c.cur = Len(c.answered) + 1 /\ ~Malformed(c.cur) /\ Clean(c)
      BY <1>1, <2>1 DEF Handled, Busy
    <3>2. c.pc # "ended"
      BY <1>1, <2>1 DEF Phases
    <3> QED BY <2>1, <3>1, <3>2 DEF Taken, Live, Busy
  <2>2. CASE c.pc = "linger"
    <3>1. c.cur = Len(c.answered) /\ ~Malformed(c.cur) /\ Clean(c) /\ c.h = "none"
      BY <1>1, <2>2 DEF Handled, Phases
    <3>2. Taken(c) = Len(c.answered) + 0
      BY <3>1 DEF Taken, Busy
    <3>3. Taken(c) = Len(c.answered)
      BY <1>3, <3>2
    <3> QED BY <2>2, <3>1, <3>3 DEF Live
  <2> QED BY <1>2, <2>1, <2>2
<1>6. Queued(c, c.cur)
  BY <1>1, <1>5 DEF Upcoming
<1>7. c.cur > c.done
  <2>1. ~(c.cur <= c.done)
    BY <1>1, <1>2, <1>4 DEF Bodies
  <2> QED BY <1>3, <1>4, <2>1
<1>8. c.cur <= c.heads => c.cur = c.heads /\ c.heads > c.done
  BY <1>1, <1>3, <1>4, <1>7 DEF Position
<1>9. ~c.failed
  <2>1. SUFFICES ASSUME c.failed PROVE FALSE
    OBVIOUS
  <2>2. c.heads \in Requests /\ Malformed(c.heads)
    BY <1>1, <2>1 DEF Failed
  <2>3. c.heads = Len(script) /\ c.cur <= Len(script) /\ Len(script) \in Nat
    BY <1>1, <1>4, <2>2 DEF Given
  <2>4. c.cur = c.heads
    BY <1>4, <1>8, <2>3
  <2>5. script[c.cur].body = 0
    BY <1>1, <2>2, <2>4 DEF Given
  <2> QED BY <1>1, <1>2, <1>4, <1>7, <2>5 DEF Bodies
<1>10. c.heads = c.cur + Len(c.msgs)
  BY <1>6, <1>9 DEF Queued
<1>11. c.cur = c.heads /\ c.heads > c.done /\ Len(c.msgs) = 0
  <2>1. c.cur <= c.heads
    BY <1>3, <1>4, <1>10
  <2> QED BY <1>3, <1>4, <1>8, <1>10, <2>1
<1>12. ~c.qpaused
  <2>1. \A n \in Nat \ {0} : ~(0 > n \div 2)
    OBVIOUS
  <2> QED BY <1>1, <1>11, <2>1 DEF Full, Given
<1>13. ~c.rpaused
  <2>1. ~(c.buf[c.heads] > 0)
    BY <1>2, <1>11
  <2> QED BY <1>1, <2>1 DEF Behind
<1>14. c.parsed = c.arrived
  BY <1>1, <1>2, <1>9, <1>11, <1>13 DEF Resumed
<1> QED BY <1>1, <1>2, <1>12, <1>13, <1>14 DEF OnlyFor

\* It implies that nothing is withheld.
LEMMA InvFeeds == Inv => Fed
<1> SUFFICES ASSUME Inv PROVE Fed
  OBVIOUS
<1>1. PausedFor(c) /\ OnlyFor(c)
  BY DEF Inv, Sound, Parsed
<1>2. PausedForAReason
  BY <1>1 DEF PausedForAReason, Alive, PausedFor, OnlyFor
<1>3. NothingWithheld
  BY WaitingForRequest, WaitingForBody DEF NothingWithheld
<1> QED BY <1>2, <1>3 DEF Fed

\* Who closes the transport: start() when it has no request in its hands, the
\* timer while start() waits for one, and the end of the shutdown.
LEMMA ClosingStep ==
  ASSUME Inv, Next
  PROVE  ClosesIdle
<1> DEFINE Goal == ~c.inprog /\ c.waiter # "set"
<1> SUFFICES ASSUME c.tr = "open", c'.tr = "closed", c'.shut # "done" PROVE Goal
  BY DEF ClosesIdle
<1>0. /\ Given /\ Sound(c) /\ Shape(c) /\ Phases(c) /\ QuietTyped(c) /\ Parsed(c) /\ Full(c)
      /\ c.cur \in Requests \cup {0} /\ Open(c)
  BY ScriptFacts, SoundIsQuiet DEF Inv, Sound
<1>k. ASSUME NEW s, Step(s), s.tr # "closed" PROVE Goal
  BY <1>k DEF Step
<1>i. c.pc \in {"handler", "linger"} /\ c.h \notin Busy => Goal
  BY <1>0 DEF Phases
<1>j. c.waiter = "pending" => Goal
  BY <1>0 DEF Phases, Busy
<1> HIDE DEF Goal
<1>t. c.cur \in Requests => TakeBody(c).tr = "open" /\ Shape(TakeBody(c))
  <2>1. SUFFICES ASSUME c.cur \in Requests PROVE TakeBody(c).tr = "open" /\ Shape(TakeBody(c))
    OBVIOUS
  <2>2. Resumes(TakeBody(c), c)
    BY <1>0, <2>1, TakeBodyLeaves
  <2>3. Shape(TakeBody(c)) /\ Same(TakeBody(c), c, ByData)
    BY <2>2 DEF Resumes, Parsed, Typed
  <2> QED BY <2>3 DEF Same, Fields, ByData, ByParser
<1>1. ASSUME NEW n \in 1..Wire, Receive(n) PROVE Goal
  <2> DEFINE t == DataReceived([c EXCEPT !.arrived = @ + n])
  <2>1. Step(t) /\ c.arrived + n <= Wire
    BY <1>1 DEF Receive
  <2>2. t.tr = c.tr
    BY <1>0, <2>1, ReceiveSound
  <2> HIDE DEF t
  <2> QED BY <1>k, <2>1, <2>2
<1>2. CASE StartWakes
  <2> DEFINE x == [c EXCEPT !.waiter = "none"]
  <2>1. /\ c.pc = "waiter" /\ c.waiter \in {"set", "cancelled"}
        /\ Step(IF c.waiter = "cancelled" \/ c.cancel THEN Ended(x) ELSE BeginRequest(x))
    BY <1>2 DEF StartWakes
  <2>2. /\ c.waiter = "cancelled" \/ c.cancel => Ended(x).tr = c.tr
        /\ ~(c.waiter = "cancelled" \/ c.cancel) => BeginRequest(x).tr = c.tr
    BY <1>0, <2>1, StartWakesSound
  <2> HIDE DEF x
  <2> QED BY <1>k, <2>1, <2>2
<1>3. CASE StartResumes
  BY <1>i, <1>3 DEF StartResumes, Busy
<1>4. CASE LingerReads \/ LingerTimeout \/ LingerCancelled
  <2>1. c.pc = "linger"
    BY <1>4 DEF LingerReads, LingerTimeout, LingerCancelled
  <2>2. c.h = "none"
    BY <1>0, <2>1 DEF Phases
  <2> QED BY <1>i, <2>1, <2>2 DEF Busy
<1>5. CASE HandlerReads
  <2> DEFINE x == [c EXCEPT !.h = "reading", !.wake = FALSE]
  <2>1. c.h = "running" /\ Step(IF c.buf[c.cur] > 0 THEN TakeBody(c) ELSE x)
    BY <1>5 DEF HandlerReads
  <2>2. x.tr = c.tr BY <1>0 DEF Shape, Fields
  <2>3. c.cur \in Requests BY <1>0, <2>1 DEF Phases
  <2> HIDE DEF x
  <2> QED BY <1>k, <1>t, <2>1, <2>2, <2>3
<1>6. CASE ReadWakes
  <2> DEFINE x == [c EXCEPT !.h = "running", !.wake = FALSE]
             y == TakeBody(c)
             z == [y EXCEPT !.h = "running"]
  <2>1. c.h = "reading" /\ Step(IF Raises(c) \/ c.buf[c.cur] = 0 THEN x ELSE z)
    BY <1>6 DEF ReadWakes
  <2>2. x.tr = c.tr BY <1>0 DEF Shape, Fields
  <2>3. c.cur \in Requests BY <1>0, <2>1 DEF Phases
  <2>4. Shape(y) /\ y.tr = "open" BY <1>t, <2>3
  <2> HIDE DEF x, y
  <2>5. z.tr = y.tr BY <2>4 DEF Shape, Fields
  <2> HIDE DEF z
  <2> QED BY <1>k, <2>1, <2>2, <2>4, <2>5
<1>7. CASE ResponseWritten \/ HandlerAborts \/ TaskCancelled
  <2> DEFINE x == [c EXCEPT !.answered = Append(@, c.cur)]
             y == [c EXCEPT !.cancel = FALSE]
  <2>1. Shape(x) BY <1>0 DEF Shape
  <2>2. x.tr = c.tr /\ x.hw = c.hw BY <1>0 DEF Shape, Fields
  <2>3. Shape(y) BY <1>0 DEF Shape
  <2>4. y.tr = c.tr /\ y.hw = c.hw BY <1>0 DEF Shape, Fields
  <2>5. Step(TaskEnds(x, "ok")) \/ Step(TaskEnds(c, "reset")) \/ Step(TaskEnds(y, "cancelled"))
    BY <1>7 DEF ResponseWritten, HandlerAborts, TaskCancelled
  <2> HIDE DEF x, y
  <2>6. ASSUME NEW s, Shape(s), s.tr = "open", s.hw = c.hw, NEW r PROVE TaskEnds(s, r).tr = "open"
    <3>1. Same(TaskEnds(s, r), s, {"inprog", "hw", "h"})
      BY <1>0, <2>6, TaskEndsFields DEF QuietTyped
    <3> QED BY <2>6, <3>1 DEF Same, Fields
  <2>7. TaskEnds(x, "ok").tr = "open"
    BY <2>1, <2>2, <2>6
  <2>8. TaskEnds(c, "reset").tr = "open"
    BY <1>0, <2>6
  <2>9. TaskEnds(y, "cancelled").tr = "open"
    BY <2>3, <2>4, <2>6
  <2> QED BY <1>k, <2>5, <2>7, <2>8, <2>9
<1>8. CASE CancelCaught
  <2>1. [c EXCEPT !.cancel = FALSE, !.h = "running"].tr = c.tr
    BY <1>0 DEF Shape, Fields
  <2> QED BY <1>k, <1>8, <2>1 DEF CancelCaught
<1>9. ASSUME NEW k \in BOOLEAN, HandlerReturns(k) PROVE Goal
  <2> DEFINE x == [c EXCEPT !.h = "writing", !.keep = k /\ ~script[c.cur].last]
  <2>1. x.tr = c.tr
    BY <1>0 DEF Shape, Fields
  <2>2. Step(x)
    BY <1>9 DEF HandlerReturns
  <2> HIDE DEF x
  <2> QED BY <1>k, <2>1, <2>2
<1>10. CASE PreShutdown
  <2> DEFINE f == Close(c)
             x == [f EXCEPT !.shut = "pre"]
  <2>1. Step(x)
    BY <1>10 DEF PreShutdown
  <2>2. Calm(f, c) /\ Same(f, c, {"closing", "waiter"})
    BY <1>0, CloseCalm
  <2> HIDE DEF f
  <2>3. Shape(f) /\ f.tr = c.tr
    BY <2>2 DEF Calm, Same, Fields
  <2>4. x.tr = f.tr
    BY <2>3 DEF Shape, Fields
  <2> HIDE DEF x
  <2> QED BY <1>k, <2>1, <2>3, <2>4
<1>11. CASE ShutdownBegins
  <2> DEFINE x == [c EXCEPT !.force = TRUE, !.timer = FALSE, !.hw = IF c.inprog THEN "pending" ELSE "none",
                            !.shut = IF c.inprog THEN "graceful" ELSE "cancel"]
  <2>1. x.tr = c.tr
    BY <1>0 DEF Shape, Fields
  <2>2. Step(x)
    BY <1>11 DEF ShutdownBegins
  <2> HIDE DEF x
  <2> QED BY <1>k, <2>1, <2>2
<1>12. CASE GracefulTimeout
  <2>1. [c EXCEPT !.hw = "cancelled"].tr = c.tr
    BY <1>0 DEF Shape, Fields
  <2> QED BY <1>k, <1>12, <2>1 DEF GracefulTimeout
<1>13. CASE GracefulEnds
  <2> DEFINE x == [c EXCEPT !.hw = IF @ = "cancelled" THEN "none" ELSE @, !.shut = "cancel"]
  <2>1. x.tr = c.tr
    BY <1>0 DEF Shape, Fields
  <2>2. Step(x)
    BY <1>13 DEF GracefulEnds
  <2> HIDE DEF x
  <2> QED BY <1>k, <2>1, <2>2
<1>14. CASE ShutdownCancels
  <2> DEFINE f == FailBody(c, "cancel")
             x == [f EXCEPT !.shut = "wait"]
  <2>1. Step(x)
    BY <1>14 DEF ShutdownCancels
  <2>2. Calm(f, c) /\ Same(f, c, {"exc", "wake"})
    BY <1>0, FailBodyCalm
  <2> HIDE DEF f
  <2>3. Shape(f) /\ f.tr = c.tr
    BY <2>2 DEF Calm, Same, Fields
  <2>4. x.tr = f.tr
    BY <2>3 DEF Shape, Fields
  <2> HIDE DEF x
  <2> QED BY <1>k, <2>1, <2>3, <2>4
<1>15. CASE ShutdownEnds
  <2> DEFINE v == c.task /\ c.pc # "ended"
             f == ForceClose(c)
             x == [f EXCEPT !.shut = "done", !.cancel = @ \/ v]
  <2>1. Step(x)
    BY <1>15 DEF ShutdownEnds
  <2>2. Shape(f)
    BY <1>0, ForceCloseCalm DEF Calm, Open
  <2> HIDE DEF f, v
  <2>3. x.shut = "done"
    BY <2>2 DEF Shape, Fields
  <2> HIDE DEF x
  <2> QED BY <2>1, <2>3 DEF Step
<1>16. ASSUME NEW late \in BOOLEAN, KeepAliveExpires(late) PROVE Goal
  <2> DEFINE x == [c EXCEPT !.timer = FALSE, !.moved = FALSE]
             y == [x EXCEPT !.timer = TRUE]
  <2>1. Step(x) \/ Step(y) \/ c.waiter = "pending"
    BY <1>16 DEF KeepAliveExpires
  <2>2. Shape(x) BY <1>0 DEF Shape
  <2>3. x.tr = c.tr BY <1>0 DEF Shape, Fields
  <2>4. y.tr = x.tr BY <2>2 DEF Shape, Fields
  <2> HIDE DEF x, y
  <2> QED BY <1>k, <1>j, <2>1, <2>3, <2>4
<1>17. CASE ConnectionLost
  <2> DEFINE v == Cancellation /\ c.task /\ c.pc # "ended"
             f == ForceClose(c)
             x == [f EXCEPT !.tr = "lost", !.timer = FALSE]
             y == FailBody(x, "lost")
             t == [y EXCEPT !.task = FALSE, !.cancel = @ \/ v]
  <2>1. Step(t)
    BY <1>17 DEF ConnectionLost
  <2>2. Shape(f) /\ QuietTyped(f) /\ Same(f, c, {"force", "waiter", "attached", "tr"})
    BY <1>0, ForceCloseCalm DEF Calm, Open
  <2> HIDE DEF f, v
  <2>3. Shape(x) BY <2>2 DEF Shape
  <2>4. x.tr = "lost" /\ x.timer = FALSE BY <2>2 DEF Shape, Fields
  <2>5. Same(x, f, {"tr", "timer"}) BY <2>2 DEF Shape, Same
  <2> HIDE DEF x
  <2>6. QuietTyped(x) BY <2>2, <2>4, <2>5 DEF QuietTyped, Same, Fields
  <2>7. x.cur = c.cur BY <2>2, <2>5 DEF Same, Fields
  <2>8. Calm(y, x) /\ Same(y, x, {"exc", "wake"})
    BY <1>0, <2>3, <2>6, <2>7, FailBodyCalm
  <2> HIDE DEF y
  <2>9. Shape(y) /\ y.tr = "lost"
    BY <2>4, <2>8 DEF Calm, Same, Fields
  <2>10. t.tr = y.tr
    BY <2>9 DEF Shape, Fields
  <2> HIDE DEF t
  <2> QED BY <1>k, <2>1, <2>9, <2>10
<1> QED BY <1>1, <1>2, <1>3, <1>4, <1>5, <1>6, <1>7, <1>8, <1>9, <1>10, <1>11, <1>12, <1>13, <1>14, <1>15,
           <1>16, <1>17 DEF Next, Start, Task, Shutdown

\* start() answers the requests in the order in which they came, whatever the
\* peer pipelines and however the transport is paused, a malformed one being the
\* last; and when it ends it leaves no transport open, but for a shutdown to close
\* (RequestHandler.start, data_received, _process_keepalive, shutdown).
THEOREM OrderHolds == Spec => []OrderKept
BY Invariance, InvKeepsOrder, PTL

\* The transport is paused exactly while a body's reader is behind or the queue
\* is full, and whoever waits for the peer, start() for a request or a handler for
\* its body, has been given all that the parser may give
\* (data_received, resume_reading, _resume_msg_queue_reading).
THEOREM FeedHolds == Spec => []Fed
BY Invariance, InvFeeds, PTL

\* Neither the keep-alive timer nor start() closes the transport on a request that
\* is handled or has just been received; only a shutdown that is out of time does
\* (_process_keepalive, force_close, shutdown).
THEOREM ClosingHolds == Spec => ClosesNothingInHand
<1>1. Inv /\ [Next]_vars => [ClosesIdle]_vars
  BY ClosingStep
<1> QED BY <1>1, Invariance, PTL DEF Spec, ClosesNothingInHand
=============================================================================
