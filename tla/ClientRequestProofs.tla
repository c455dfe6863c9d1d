------------------------ MODULE ClientRequestProofs ------------------------
(***************************************************************************)
(* Proofs about ClientRequest, for any number of connections and redirects *)
(* and any length of body; and, at the end, about what the requests of a   *)
(* session share, which MCClient puts beside it.                           *)
(*                                                                         *)
(* Everything that is kept of a connection is its exchange x[c], and every *)
(* step changes one exchange by one of the operators of the model.  So the *)
(* argument has two layers: Sound, a property of a single exchange, is     *)
(* kept by each operator, whatever the rest of the session does; and a     *)
(* step that replaces one exchange by a sound one keeps IInv.              *)
(*                                                                         *)
(* CleanReuse is not inductive: that the request is written to the end     *)
(* when a connection goes back to the pool was decided when the writer     *)
(* ended, and Written carries it from there.                               *)
(***************************************************************************)
EXTENDS MCClient, TLAPS

\* The types.
Exchanges ==
  [lease : {"none", "pool", "leased"}, up : BOOLEAN, body : {"none", "bytes", "gen"},
   sent : Seq(Nat), whole : BOOLEAN, writer : {"none", "expect", "write", "flush"},
   cancel : BOOLEAN, asked : BOOLEAN, answer : {"none", "head", "eof"}, upgraded : BOOLEAN,
   keep : BOOLEAN, failed : BOOLEAN, attached : BOOLEAN, closed : BOOLEAN, conn : BOOLEAN,
   onDone : BOOLEAN, timed : BOOLEAN]
ReqsType ==
  [data : {"none", "bytes", "gen"}, expect : BOOLEAN, hops : 0 .. MaxRedirects,
   retry : BOOLEAN, origin : Origins \cup {NoOrigin}, auth : Origins \cup {NoOrigin},
   cookies : Origins \cup {NoOrigin}]
Gens == [taken : 0 .. Chunks, consumed : BOOLEAN]
Timers == {"off", "armed", "fired"}
Places == {"idle", "status", "held", "done"} \cup Awaits

Types ==
  /\ pc \in Places /\ cur \in Conns \cup {NoConn}
  /\ (pc \notin {"idle", "connect", "done"} => cur # NoConn)
  /\ timer \in Timers
  /\ req \in ReqsType /\ gen \in Gens
  /\ x \in [Conns -> Exchanges]

\* What the writer leaves behind: when it has ended and the connection is still
\* leased, the body is written, was not asked for, or the connection is of no use.
Written(e) ==
  /\ e.cancel => e.writer # "none"
  /\ e.writer = "expect" => ~e.asked
  /\ e.writer = "flush" => e.whole
  /\ e.writer = "none" /\ e.lease = "leased" => e.whole \/ ~e.asked \/ e.failed \/ ~e.up

\* What is in the pool: CleanReuse, and nobody has it.
Pooled(e) ==
  e.lease = "pool" =>
    ~e.conn /\ e.up /\ e.answer = "eof" /\ e.writer = "none" /\ (e.whole \/ ~e.asked)

\* Who has a lease is to give it up.
GivenUp(e) ==
  /\ e.lease = "leased" => e.conn
  /\ e.closed /\ e.lease = "leased" => e.cancel /\ e.onDone

Sound(e) == Written(e) /\ Pooled(e) /\ GivenUp(e)
Exch == x \in [Conns -> Exchanges] /\ \A c \in Conns : Sound(x[c])

\* As long as the timer is armed, _request() is before its end or a connection
\* will stop it.
Early == {"connect", "head", "redirect", "status"}
Held == \E c \in Conns : x[c].timed /\ x[c].conn
Owned == timer = "armed" => pc \in Early \/ Held

IInv == Types /\ Owned /\ Exch

\* A connection does not forget the timer it is to stop without stopping it.
Stops(e, f) == e.timed /\ e.conn => (f.timed /\ f.conn) \/ ~f.timed
-----------------------------------------------------------------------------
(* The operators on an exchange.                                           *)

LEMMA CloseLeaseType ==
  ASSUME NEW e \in Exchanges
  PROVE  CloseLease(e) \in Exchanges
<1>1. (e.up /\ e.lease # "leased") \in BOOLEAN
  OBVIOUS
<1>2. \A b \in BOOLEAN : [e EXCEPT !.timed = FALSE, !.lease = "none", !.up = b] \in Exchanges
  BY DEF Exchanges
<1>3. CloseLease(e) = [e EXCEPT !.timed = FALSE, !.lease = "none", !.up = (e.up /\ e.lease # "leased")]
  BY DEF CloseLease, Exchanges
<1> QED BY <1>1, <1>2, <1>3

LEMMA ReleaseLeaseType ==
  ASSUME NEW e \in Exchanges
  PROVE  ReleaseLease(e) \in Exchanges
<1>1. [e EXCEPT !.timed = FALSE] \in Exchanges
  BY DEF Exchanges
<1>2. [e EXCEPT !.timed = FALSE, !.lease = "pool"] \in Exchanges
  BY DEF Exchanges
<1> QED BY <1>1, <1>2, CloseLeaseType DEF ReleaseLease

LEMMA CleanupWriterType ==
  ASSUME NEW e \in Exchanges
  PROVE  CleanupWriter(e) \in Exchanges
  BY DEF CleanupWriter, Exchanges

LEMMA ReleaseConnectionType ==
  ASSUME NEW e \in Exchanges
  PROVE  ReleaseConnection(e) \in Exchanges
<1>1. \A f \in Exchanges : [f EXCEPT !.conn = FALSE] \in Exchanges
  BY ZenonT(60) DEF Exchanges
<1>2. [e EXCEPT !.onDone = TRUE] \in Exchanges
  BY DEF Exchanges
<1> QED BY <1>1, <1>2, ReleaseLeaseType DEF ReleaseConnection

\* Giving up the lease of an exchange that is not being written.
LEMMA ReleaseConnectionSound ==
  ASSUME NEW e \in Exchanges, Written(e), Pooled(e),
         e.lease = "leased" => e.conn,
         e.closed /\ e.lease = "leased" => e.writer = "none" \/ e.cancel
  PROVE  Sound(ReleaseConnection(e)) /\ Stops(e, ReleaseConnection(e))
<1>1. CASE ~e.conn
  BY <1>1 DEF ReleaseConnection, Sound, GivenUp, Stops
<1>2. CASE e.conn /\ e.writer # "none"
  <2> DEFINE f == [e EXCEPT !.onDone = TRUE]
  <2>1. ReleaseConnection(e) = f
    BY <1>2 DEF ReleaseConnection
  <2>2. Written(f) /\ Pooled(f) /\ GivenUp(f) /\ Stops(e, f)
    BY <1>2 DEF Exchanges, Written, Pooled, GivenUp, Stops
  <2> QED BY <2>1, <2>2 DEF Sound
<1>3. CASE e.conn /\ e.writer = "none"
  <2> DEFINE f == [ReleaseLease(e) EXCEPT !.conn = FALSE]
  <2>1. ReleaseConnection(e) = f
    BY <1>3 DEF ReleaseConnection
  <2>2. Written(f) /\ Pooled(f) /\ GivenUp(f) /\ Stops(e, f)
    <3>1. CASE e.lease # "leased"
      BY <1>3, <3>1 DEF Exchanges, Written, Pooled, GivenUp, Stops, ReleaseLease
    <3>2. CASE e.lease = "leased" /\ ShouldClose(e)
      BY <1>3, <3>2 DEF Exchanges, Written, Pooled, GivenUp, Stops, ReleaseLease, CloseLease
    <3>3. CASE e.lease = "leased" /\ ~ShouldClose(e)
      BY <1>3, <3>3 DEF Exchanges, Written, Pooled, GivenUp, Stops, ReleaseLease, ShouldClose
    <3> QED BY <3>1, <3>2, <3>3
  <2> QED BY <2>1, <2>2 DEF Sound
<1> QED BY <1>1, <1>2, <1>3

LEMMA ReleaseResponseSound ==
  ASSUME NEW e \in Exchanges, Written(e), Pooled(e), e.lease = "leased" => e.conn
  PROVE  /\ ReleaseResponse(e) \in Exchanges
         /\ Sound(ReleaseResponse(e)) /\ Stops(e, ReleaseResponse(e))
<1> DEFINE f == CleanupWriter([e EXCEPT !.closed = TRUE])
<1>1. f \in Exchanges
  <2>1. [e EXCEPT !.closed = TRUE] \in Exchanges
    BY DEF Exchanges
  <2> QED BY <2>1, CleanupWriterType
<1>2. /\ Written(f) /\ Pooled(f)
      /\ f.lease = "leased" => f.conn
      /\ f.writer = "none" \/ f.cancel
      /\ e.timed <=> f.timed
      /\ e.conn <=> f.conn
  BY DEF Exchanges, Written, Pooled, CleanupWriter
<1>3. ReleaseResponse(e) = ReleaseConnection(f)
  BY DEF ReleaseResponse
<1> HIDE DEF f
<1>4. Sound(ReleaseConnection(f)) /\ Stops(f, ReleaseConnection(f))
  BY <1>1, <1>2, ReleaseConnectionSound
<1> QED BY <1>1, <1>2, <1>3, <1>4, ReleaseConnectionType DEF Stops

LEMMA ResponseEofSound ==
  ASSUME NEW e \in Exchanges, Sound(e)
  PROVE  ResponseEof(e) \in Exchanges /\ Sound(ResponseEof(e)) /\ Stops(e, ResponseEof(e))
<1>1. ResponseEof(e) \in {e, ReleaseResponse(e)}
  BY DEF ResponseEof, ReleaseResponse
<1>2. Stops(e, e)
  BY DEF Stops
<1> QED BY <1>1, <1>2, ReleaseResponseSound DEF Sound, GivenUp

LEMMA CloseResponseSound ==
  ASSUME NEW e \in Exchanges, Sound(e)
  PROVE  CloseResponse(e) \in Exchanges /\ Sound(CloseResponse(e)) /\ Stops(e, CloseResponse(e))
<1> DEFINE f == CleanupWriter([e EXCEPT !.closed = TRUE])
<1>1. f \in Exchanges
  <2>1. [e EXCEPT !.closed = TRUE] \in Exchanges
    BY DEF Exchanges
  <2> QED BY <2>1, CleanupWriterType
<1>2. f.conn = e.conn
  BY DEF Exchanges, CleanupWriter
<1>3. CASE ~e.conn
  <2>1. CloseResponse(e) = f
    BY <1>2, <1>3 DEF CloseResponse
  <2>2. Written(f) /\ Pooled(f) /\ GivenUp(f) /\ Stops(e, f)
    BY <1>3 DEF Exchanges, Sound, Written, Pooled, GivenUp, CleanupWriter, Stops
  <2> QED BY <1>1, <2>1, <2>2 DEF Sound
<1>4. CASE e.conn
  <2> DEFINE g == [CloseLease(f) EXCEPT !.conn = FALSE]
  <2>1. CloseResponse(e) = g
    BY <1>2, <1>4 DEF CloseResponse
  <2>2. Written(g) /\ Pooled(g) /\ GivenUp(g) /\ Stops(e, g)
    BY <1>4 DEF Exchanges, Sound, Written, Pooled, GivenUp, CleanupWriter, CloseLease, Stops
  <2>3. g \in Exchanges
    <3>1. \A h \in Exchanges : [h EXCEPT !.conn = FALSE] \in Exchanges
      BY ZenonT(60) DEF Exchanges
    <3> QED BY <1>1, <3>1, CloseLeaseType
  <2> QED BY <2>1, <2>2, <2>3 DEF Sound
<1> QED BY <1>3, <1>4 DEF Exchanges

\* The end of the writer, when it is not the writer of a body that was cut short.
LEMMA WriterDoneSound ==
  ASSUME NEW e \in Exchanges, Pooled(e),
         e.lease = "leased" => e.conn /\ (e.whole \/ ~e.asked \/ e.failed \/ ~e.up),
         e.closed /\ e.lease = "leased" => e.onDone
  PROVE  WriterDone(e) \in Exchanges /\ Sound(WriterDone(e)) /\ Stops(e, WriterDone(e))
<1> DEFINE f == [e EXCEPT !.writer = "none", !.cancel = FALSE, !.onDone = FALSE]
<1>1. f \in Exchanges
  BY DEF Exchanges
<1>2. /\ Written(f) /\ Pooled(f)
      /\ f.lease = "leased" => f.conn
      /\ f.writer = "none"
      /\ ~e.onDone => Sound(f)
      /\ e.timed <=> f.timed
      /\ e.conn <=> f.conn
  BY DEF Exchanges, Written, Pooled, GivenUp, Sound
<1>3. WriterDone(e) = IF e.onDone THEN ReleaseConnection(f) ELSE f
  BY DEF WriterDone
<1> HIDE DEF f
<1>4. Sound(ReleaseConnection(f)) /\ Stops(f, ReleaseConnection(f)) /\ ReleaseConnection(f) \in Exchanges
  BY <1>1, <1>2, ReleaseConnectionSound, ReleaseConnectionType
<1> QED BY <1>1, <1>2, <1>3, <1>4 DEF Stops

LEMMA FreshSound == Fresh \in Exchanges /\ Sound(Fresh)
  BY DEF Fresh, Exchanges, Sound, Written, Pooled, GivenUp

LEMMA IdleSound == Idle \in Exchanges /\ Sound(Idle)
<1>1. Idle \in Exchanges
  BY FreshSound DEF Idle, Exchanges
<1>2. /\ Idle.lease = "pool" /\ Idle.up /\ Idle.answer = "eof" /\ Idle.whole
      /\ Idle.writer = "none" /\ ~Idle.cancel /\ ~Idle.conn
  BY DEF Idle, Fresh
<1> QED BY <1>1, <1>2 DEF Sound, Written, Pooled, GivenUp

LEMMA ForgottenSound ==
  ASSUME NEW e \in Exchanges, Sound(e)
  PROVE  /\ Forgotten(e) \in Exchanges /\ Sound(Forgotten(e))
         /\ e.timed /\ e.conn => Forgotten(e).timed /\ Forgotten(e).conn
<1>1. CASE e.lease = "leased" \/ e.writer # "none" \/ e.conn
  <2> DEFINE f == [e EXCEPT !.up = FALSE, !.keep = TRUE, !.failed = FALSE, !.answer = "none",
                            !.upgraded = FALSE]
  <2>4. e.lease # "pool"
    BY <1>1 DEF Sound, Pooled
  <2>1. Forgotten(e) = e \/ Forgotten(e) = f
    BY <1>1, <2>4 DEF Forgotten
  <2>2. f \in Exchanges
    BY DEF Exchanges
  <2>3. /\ f.lease = e.lease /\ f.writer = e.writer /\ f.asked = e.asked /\ f.whole = e.whole
        /\ f.cancel = e.cancel /\ f.conn = e.conn /\ f.closed = e.closed /\ f.onDone = e.onDone
        /\ f.timed = e.timed /\ ~f.up
    BY DEF Exchanges
  <2> HIDE DEF f
  <2>5. Sound(f)
    BY <2>3, <2>4 DEF Sound, Written, Pooled, GivenUp
  <2> QED BY <2>1, <2>2, <2>3, <2>5
<1>2. CASE e.lease = "pool" /\ ~e.conn /\ e.writer = "none"
  <2> DEFINE f == [Fresh EXCEPT !.lease = "pool", !.up = e.up, !.answer = e.answer,
                                !.whole = e.whole, !.asked = e.asked]
  <2>1. Forgotten(e) = f
    BY <1>2 DEF Forgotten
  <2>2. f \in Exchanges
    BY FreshSound DEF Exchanges
  <2>3. /\ f.lease = "pool" /\ f.up = e.up /\ f.answer = e.answer /\ f.whole = e.whole
        /\ f.asked = e.asked /\ f.writer = "none" /\ ~f.cancel /\ ~f.conn
    BY DEF Fresh
  <2> HIDE DEF f
  <2>4. Sound(f)
    BY <1>2, <2>3 DEF Sound, Written, Pooled, GivenUp
  <2> QED BY <1>2, <2>1, <2>2, <2>4
<1>3. CASE e.lease = "none" /\ ~e.conn /\ e.writer = "none"
  BY <1>3, FreshSound DEF Forgotten
<1> QED BY <1>1, <1>2, <1>3 DEF Exchanges, Sound, Pooled
-----------------------------------------------------------------------------
(* Steps that replace one exchange.                                        *)

LEMMA BecomesKeeps ==
  ASSUME Exch, NEW c \in Conns, NEW STATE e, e \in Exchanges, Sound(e), Becomes(c, e)
  PROVE  /\ Exch'
         /\ (x[c].timed /\ x[c].conn => e.timed /\ e.conn) => (Held => Held')
<1> DEFINE f == IF c = cur THEN e ELSE Forgotten(e)
<1>1. f \in Exchanges /\ Sound(f) /\ (e.timed /\ e.conn => f.timed /\ f.conn)
  BY ForgottenSound
<1>2. x' = [x EXCEPT ![c] = f]
  BY DEF Becomes
<1> HIDE DEF f
<1>3. x' \in [Conns -> Exchanges] /\ x'[c] = f /\ \A d \in Conns \ {c} : x'[d] = x[d]
  BY <1>1, <1>2 DEF Exch
<1>4. Exch'
  BY <1>1, <1>3 DEF Exch
<1>5. ASSUME Held, x[c].timed /\ x[c].conn => e.timed /\ e.conn
      PROVE  Held'
  BY <1>1, <1>3, <1>5 DEF Held
<1> QED BY <1>4, <1>5

LEMMA ExchangeKeeps ==
  ASSUME Exch, NEW c \in Conns, NEW STATE e, e \in Exchanges, Sound(e), Stops(x[c], e), Exchange(c, e),
         timer \in Timers
  PROVE  /\ Exch' /\ timer' \in Timers
         /\ timer' = "armed" => timer = "armed" /\ (Held => Held')
<1>1. Becomes(c, e) /\ TimerAfter(c, e)
  BY DEF Exchange
<1>2. timer' \in Timers /\ (timer' = "armed" => timer = "armed" /\ ~(x[c].timed /\ ~e.timed))
  BY <1>1 DEF TimerAfter, Timers
<1>3. Exch' /\ ((x[c].timed /\ x[c].conn => e.timed /\ e.conn) => (Held => Held'))
  BY <1>1, BecomesKeeps
<1> QED BY <1>2, <1>3 DEF Stops

LEMMA LeavesKeeps ==
  ASSUME Exch, cur \in Conns, NEW STATE e, e \in Exchanges, Sound(e), Leaves(e)
  PROVE  /\ Exch' /\ cur' = NoConn
         /\ (x[cur].timed /\ x[cur].conn => e.timed /\ e.conn) => (Held => Held')
<1> DEFINE f == Forgotten(e)
<1>1. f \in Exchanges /\ Sound(f) /\ (e.timed /\ e.conn => f.timed /\ f.conn)
  BY ForgottenSound
<1>2. x' = [x EXCEPT ![cur] = f] /\ cur' = NoConn
  BY DEF Leaves
<1> HIDE DEF f
<1>3. x' \in [Conns -> Exchanges] /\ x'[cur] = f /\ \A d \in Conns \ {cur} : x'[d] = x[d]
  BY <1>1, <1>2 DEF Exch
<1>4. Exch'
  BY <1>1, <1>3 DEF Exch
<1>5. ASSUME Held, x[cur].timed /\ x[cur].conn => e.timed /\ e.conn
      PROVE  Held'
  BY <1>1, <1>3, <1>5 DEF Held
<1> QED BY <1>2, <1>4, <1>5

LEMMA NoRequestType == NoRequest \in ReqsType
  BY RequestAssumption DEF NoRequest, ReqsType

LEMMA AuthType ==
  ASSUME NEW r \in ReqsType, NEW own
  PROVE  Auth(r, own) \in ReqsType
  BY DEF Auth, ReqsType

LEMMA FailsKeeps ==
  ASSUME IInv, cur \in Conns, NEW STATE e, e \in Exchanges, Sound(e), Fails(e)
  PROVE  IInv'
<1>1. Leaves(e) /\ Exch
  BY DEF IInv, Fails
<1>11. Exch' /\ cur' = NoConn
  BY <1>1, LeavesKeeps
<1>2. pc' = "done" /\ timer' = "off" /\ req' = NoRequest /\ gen' = gen
  BY DEF Fails
<1>3. Types'
  BY <1>11, <1>2, NoRequestType DEF IInv, Types, Places, Exch, Timers
<1>4. Owned'
  BY <1>2 DEF Owned
<1> QED BY <1>11, <1>3, <1>4 DEF IInv, Exch

LEMMA DoneKeeps ==
  ASSUME IInv, cur \in Conns, pc \notin Early, NEW STATE e, e \in Exchanges, Sound(e), Stops(x[cur], e),
         Done(e)
  PROVE  IInv'
<1>1. Leaves(e) /\ TimerAfter(cur, e)
  BY DEF Done
<1>2. pc' = "done" /\ req' = req /\ gen' = gen
  BY DEF Done
<1>3. timer' \in Timers /\ (timer' = "armed" => timer = "armed" /\ ~(x[cur].timed /\ ~e.timed))
  BY <1>1 DEF TimerAfter, Timers, IInv, Types
<1>31. Exch' /\ cur' = NoConn /\ ((x[cur].timed /\ x[cur].conn => e.timed /\ e.conn) => (Held => Held'))
  <2>1. Exch
    BY DEF IInv
  <2> QED BY <1>1, <2>1, LeavesKeeps
<1>4. /\ Exch' /\ cur' = NoConn
      /\ timer' = "armed" => timer = "armed" /\ (Held => Held')
  BY <1>3, <1>31 DEF Stops
<1>5. Types'
  BY <1>2, <1>3, <1>4 DEF Types, Places, Exch, IInv, Timers
<1>6. Owned'
  BY <1>4 DEF Owned, IInv, Held, Early
<1> QED BY <1>4, <1>5, <1>6 DEF IInv, Exch

\* A step that leaves the task where it is.
LEMMA ElsewhereKeeps ==
  ASSUME IInv, UNCHANGED <<pc, cur, req>>, gen' \in Gens, Exch', timer' \in Timers,
         timer' = "armed" => timer = "armed" /\ (Held => Held')
  PROVE  IInv'
<1>1. Types'
  BY DEF Types, IInv, Exch, Timers
<1>2. Owned'
  BY DEF Owned, IInv, Held
<1> QED BY <1>1, <1>2 DEF IInv, Exch
-----------------------------------------------------------------------------
(* The task, the caller and the timer.                                     *)

LEMMA InHand ==
  ASSUME IInv, pc \notin {"idle", "connect", "done"}
  PROVE  cur \in Conns /\ x[cur] \in Exchanges /\ Sound(x[cur])
  BY DEF IInv, Types, Exch, Timers

LEMMA StopsItself == \A e : Stops(e, e)
  BY DEF Stops

LEMMA RequestKeeps ==
  ASSUME IInv, NEW d \in Bodies, NEW idempotent \in BOOLEAN, NEW ex \in BOOLEAN, NEW total \in BOOLEAN,
         Request(d, idempotent, ex, total)
  PROVE  IInv'
<1>1. PICK g \in Given :
        req' = Auth([data |-> d, expect |-> ex, hops |-> 0, retry |-> idempotent,
                     origin |-> g.origin, auth |-> g.auth, cookies |-> g.cookies], FALSE)
  BY DEF Request
<1>11. [data |-> d, expect |-> ex, hops |-> 0, retry |-> idempotent,
        origin |-> g.origin, auth |-> g.auth, cookies |-> g.cookies] \in ReqsType
  BY RequestAssumption DEF ReqsType
<1>2. req' \in ReqsType /\ timer' \in Timers /\ pc' = "connect" /\ UNCHANGED <<cur, gen, x>>
  BY <1>1, <1>11, AuthType DEF Request, Timers
<1> QED BY <1>2 DEF IInv, Types, Owned, Places, Awaits, Timers, Exch, Held, Early

LEMMA ConnectFailsKeeps ==
  ASSUME IInv, pc' = "done", timer' = "off", req' = NoRequest, UNCHANGED <<cur, gen, x>>
  PROVE  IInv'
  BY NoRequestType DEF IInv, Types, Owned, Places, Exch, Held, Early, Timers

LEMMA SentSound ==
  ASSUME req \in ReqsType, NEW e
  PROVE  Sent(e) \in Exchanges /\ Sound(Sent(e)) /\ Sent(e).lease = "leased"
<1> DEFINE sent == IF req.data = "bytes" /\ ~req.expect THEN Whole ELSE <<>>
           writer == CASE req.expect -> "expect"
                       [] ~req.expect /\ req.data = "none" -> "none"
                       [] OTHER -> "write"
           whole == req.data = "none" /\ ~req.expect
           asked == ~req.expect
           f == [Fresh EXCEPT !.lease = "leased", !.up = TRUE, !.conn = TRUE, !.body = req.data,
                              !.sent = sent, !.whole = whole, !.asked = asked, !.writer = writer]
<1>1. sent \in Seq(Nat)
  BY RequestAssumption DEF Whole
<1>2. writer \in {"none", "expect", "write"}
      /\ (writer = "expect" => req.expect) /\ (writer = "none" => req.data = "none" /\ ~req.expect)
  BY DEF ReqsType
<1>3. whole \in BOOLEAN /\ asked \in BOOLEAN /\ req.data \in {"none", "bytes", "gen"}
  BY DEF ReqsType
<1>4. Sent(e) = f
  BY DEF Sent
<1>5. /\ f.lease = "leased" /\ f.up /\ f.conn /\ (f.whole <=> whole) /\ (f.asked <=> asked)
      /\ f.writer = writer /\ ~f.cancel /\ ~f.closed
  BY DEF Fresh
<1> HIDE DEF sent, writer
<1>6. f \in Exchanges
  <2> HIDE DEF whole, asked
  <2> QED BY <1>1, <1>2, <1>3, FreshSound DEF Exchanges
<1>7. Sound(f)
  <2> HIDE DEF f
  <2> QED BY <1>2, <1>5 DEF Sound, Written, Pooled, GivenUp
<1> QED BY <1>4, <1>5, <1>6, <1>7

LEMMA ConnectedKeeps ==
  ASSUME IInv, NEW c \in Conns, Connected(c)
  PROVE  IInv'
<1>1. Sent(x[c]) \in Exchanges /\ Sound(Sent(x[c]))
  BY SentSound DEF IInv, Types
<1>2. Exch /\ Becomes(c, Sent(x[c])) /\ pc' = "head" /\ cur' = c /\ UNCHANGED <<req, gen, timer>>
  BY DEF IInv, Connected
<1>3. Exch'
  BY <1>1, <1>2, BecomesKeeps
<1>4. Types'
  BY <1>2, <1>3, RequestAssumption DEF IInv, Types, Exch, Places, Awaits
<1> QED BY <1>2, <1>3, <1>4 DEF IInv, Owned, Exch, Held, Early

LEMMA ContinueKeeps ==
  ASSUME IInv, Continue
  PROVE  IInv'
<1> DEFINE sent == IF req.data = "bytes" THEN Whole ELSE <<>>
           e == [x[cur] EXCEPT !.writer = "write", !.asked = TRUE, !.sent = sent]
<1>1. cur \in Conns /\ x[cur] \in Exchanges /\ Sound(x[cur]) /\ x[cur].writer = "expect"
  BY InHand DEF Continue
<1>2. sent \in Seq(Nat)
  BY RequestAssumption DEF Whole
<1>3. Becomes(cur, e) /\ UNCHANGED <<pc, cur, req, gen, timer>>
  BY DEF Continue
<1> HIDE DEF sent
<1>4. e \in Exchanges /\ Sound(e) /\ (x[cur].timed /\ x[cur].conn => e.timed /\ e.conn)
  BY <1>1, <1>2 DEF Exchanges, Sound, Written, Pooled, GivenUp
<1> HIDE DEF e
<1>5. Exch
  BY DEF IInv
<1>6. Exch' /\ (Held => Held')
  BY <1>1, <1>3, <1>4, <1>5, BecomesKeeps
<1> QED BY <1>3, <1>6, ElsewhereKeeps DEF IInv, Types, Timers

LEMMA StartedKeeps ==
  ASSUME IInv, Started
  PROVE  IInv'
<1>1. cur \in Conns /\ x[cur] \in Exchanges /\ Sound(x[cur]) /\ timer \in Timers
  BY InHand DEF Started, IInv, Types, Timers
<1>2. PICK keep \in BOOLEAN, upgraded \in BOOLEAN :
        LET e == [x[cur] EXCEPT !.attached = TRUE, !.keep = keep, !.upgraded = upgraded]
        IN  Exchange(cur, IF e.answer = "eof" THEN ResponseEof(e) ELSE e)
  BY DEF Started
<1> DEFINE e == [x[cur] EXCEPT !.attached = TRUE, !.keep = keep, !.upgraded = upgraded]
           f == IF e.answer = "eof" THEN ResponseEof(e) ELSE e
<1>3. e \in Exchanges /\ Sound(e) /\ e.timed = x[cur].timed /\ e.conn = x[cur].conn
  <2>1. e \in Exchanges /\ e.timed = x[cur].timed /\ e.conn = x[cur].conn
    BY <1>1, ZenonT(60) DEF Exchanges
  <2>2. /\ e.lease = x[cur].lease /\ e.writer = x[cur].writer /\ e.asked = x[cur].asked
        /\ e.whole = x[cur].whole /\ e.cancel = x[cur].cancel /\ e.closed = x[cur].closed
        /\ e.onDone = x[cur].onDone /\ e.failed = x[cur].failed /\ e.up = x[cur].up
        /\ e.answer = x[cur].answer
    BY <1>1 DEF Exchanges
  <2> HIDE DEF e
  <2> QED BY <1>1, <2>1, <2>2 DEF Sound, Written, Pooled, GivenUp
<1>4. Exchange(cur, f)
  BY <1>2
<1> HIDE DEF e
<1>5. f \in Exchanges /\ Sound(f) /\ Stops(e, f)
  BY <1>3, ResponseEofSound, StopsItself
<1>6. Stops(x[cur], f)
  BY <1>3, <1>5 DEF Stops
<1> HIDE DEF f
<1>7. Exch' /\ timer' \in Timers /\ (timer' = "armed" => timer = "armed")
  BY <1>1, <1>4, <1>5, <1>6, ExchangeKeeps DEF IInv
<1>8. pc' \in {"redirect", "status"} /\ req' \in {req, NoRequest} /\ UNCHANGED <<cur, gen>>
  BY DEF Started
<1>9. Types' /\ Owned'
  BY <1>1, <1>7, <1>8, NoRequestType, RequestAssumption DEF IInv, Types, Owned, Exch, Timers, Places, Awaits, Held, Early
<1> QED BY <1>7, <1>9 DEF IInv, Exch

LEMMA StartFailsKeeps ==
  ASSUME IInv, StartFails
  PROVE  IInv'
<1> DEFINE e == CloseResponse(x[cur])
<1>1. cur \in Conns /\ x[cur] \in Exchanges /\ Sound(x[cur])
  BY InHand DEF StartFails
<1>2. e \in Exchanges /\ Sound(e)
  BY <1>1, CloseResponseSound
<1> HIDE DEF e
<1>3. CASE Retried
  <2>1. /\ pc' = "connect" /\ req' = Auth([req EXCEPT !.retry = FALSE], FALSE)
        /\ gen' = [gen EXCEPT !.consumed = FALSE] /\ Leaves(e) /\ timer' = timer
    BY <1>3 DEF StartFails, e
  <2>11. [req EXCEPT !.retry = FALSE] \in ReqsType
    BY DEF IInv, Types, ReqsType
  <2>2. req' \in ReqsType /\ gen' \in Gens
    BY <2>1, <2>11, AuthType DEF IInv, Types, Gens
  <2>3. Exch' /\ cur' = NoConn
    BY <1>1, <1>2, <2>1, LeavesKeeps DEF IInv
  <2> QED BY <2>1, <2>2, <2>3 DEF IInv, Types, Owned, Exch, Places, Awaits, Held, Early, Timers
<1>4. CASE ~Retried
  BY <1>1, <1>2, <1>4, FailsKeeps DEF StartFails, e
<1> QED BY <1>3, <1>4

LEMMA RedirectFailsKeeps ==
  ASSUME IInv, RedirectFails
  PROVE  IInv'
<1>1. cur \in Conns /\ x[cur] \in Exchanges /\ Sound(x[cur])
  BY InHand DEF RedirectFails
<1>2. ReleaseResponse(x[cur]) \in Exchanges /\ Sound(ReleaseResponse(x[cur]))
  BY <1>1, ReleaseResponseSound DEF Sound, GivenUp
<1>3. \A e \in {x[cur], ReleaseResponse(x[cur])} :
        CloseResponse(e) \in Exchanges /\ Sound(CloseResponse(e))
  BY <1>1, <1>2, CloseResponseSound
<1>4. Fails(CloseResponse(x[cur])) \/ Fails(CloseResponse(ReleaseResponse(x[cur])))
  BY DEF RedirectFails
<1> QED BY <1>1, <1>3, <1>4, FailsKeeps

LEMMA RedirectedKeeps ==
  ASSUME IInv, NEW rewritten \in BOOLEAN, NEW to \in Origins, NEW own \in BOOLEAN,
         Redirected(rewritten, to, own)
  PROVE  IInv'
<1>1. cur \in Conns /\ x[cur] \in Exchanges /\ Sound(x[cur])
  BY InHand DEF Redirected
<1>2. ReleaseResponse(x[cur]) \in Exchanges /\ Sound(ReleaseResponse(x[cur]))
  BY <1>1, ReleaseResponseSound DEF Sound, GivenUp
<1>3. Exch' /\ cur' = NoConn
  BY <1>1, <1>2, LeavesKeeps DEF IInv, Redirected
<1>4. req' \in ReqsType
  <2>1. Dropped(req, to) \in ReqsType /\ Dropped(req, to).hops = req.hops /\ Dropped(req, to).data = req.data
    BY DEF Dropped, IInv, Types, ReqsType
  <2>2. req.hops \in Nat /\ req.hops + 1 < MaxRedirects /\ MaxRedirects \in Nat
    BY RequestAssumption DEF Redirected, Repeatable, TooMany, IInv, Types, ReqsType
  <2>3. req.hops + 1 \in 0 .. MaxRedirects
    BY <2>2
  <2>4. (IF rewritten THEN "none" ELSE req.data) \in {"none", "bytes", "gen"}
    BY DEF IInv, Types, ReqsType
  <2> DEFINE r == [Dropped(req, to) EXCEPT !.origin = to, !.hops = req.hops + 1,
                                           !.data = IF rewritten THEN "none" ELSE req.data]
  <2>5. r \in ReqsType
    BY <2>1, <2>3, <2>4 DEF ReqsType
  <2>6. req' = Auth(r, own)
    BY <2>1 DEF Redirected
  <2> QED BY <2>5, <2>6, AuthType
<1>5. pc' = "connect" /\ UNCHANGED <<gen, timer>>
  BY DEF Redirected
<1> QED BY <1>3, <1>4, <1>5 DEF IInv, Types, Owned, Exch, Places, Awaits, Held, Early, Timers

LEMMA RedirectIsAnswerKeeps ==
  ASSUME IInv, RedirectIsAnswer
  PROVE  IInv'
  BY NoRequestType DEF RedirectIsAnswer, IInv, Types, Owned, Places, Exch, Held, Early, Timers

LEMMA StatusRaisesKeeps ==
  ASSUME IInv, StatusRaises
  PROVE  IInv'
<1>1. cur \in Conns /\ x[cur] \in Exchanges /\ Sound(x[cur])
  BY InHand DEF StatusRaises
<1>2. ReleaseResponse(x[cur]) \in Exchanges /\ Sound(ReleaseResponse(x[cur]))
  BY <1>1, ReleaseResponseSound DEF Sound, GivenUp
<1> QED BY <1>1, <1>2, FailsKeeps DEF StatusRaises

LEMMA StatusOkKeeps ==
  ASSUME IInv, StatusOk
  PROVE  IInv'
<1> DEFINE e == [x[cur] EXCEPT !.timed = x[cur].conn]
<1>1. cur \in Conns /\ x[cur] \in Exchanges /\ Sound(x[cur])
  BY InHand DEF StatusOk
<1>2. e \in Exchanges /\ Sound(e) /\ (x[cur].conn => e.timed /\ e.conn)
  BY <1>1 DEF Exchanges, Sound, Written, Pooled, GivenUp
<1>3. /\ Becomes(cur, e) /\ pc' = "ending" /\ UNCHANGED <<cur, req, gen>>
      /\ timer' = IF x[cur].conn THEN timer ELSE "off"
  BY DEF StatusOk
<1> HIDE DEF e
<1>4. Exch
  BY DEF IInv
<1>5. Exch'
  BY <1>1, <1>2, <1>3, <1>4, BecomesKeeps
<1>6. x[cur].conn => x'[cur].timed /\ x'[cur].conn
  BY <1>1, <1>2, <1>3, <1>4 DEF Becomes, Exch
<1>7. Types'
  BY <1>1, <1>3, <1>5, RequestAssumption DEF IInv, Types, Exch, Places, Awaits, Timers
<1>8. Owned'
  BY <1>1, <1>3, <1>6 DEF Owned, Held, Early
<1> QED BY <1>5, <1>7, <1>8 DEF IInv, Exch

LEMMA ReturnsKeeps ==
  ASSUME IInv, Returns
  PROVE  IInv'
  BY DEF Returns, IInv, Types, Owned, Places, Exch, Held, Early, Timers

LEMMA TraceRaisesKeeps ==
  ASSUME IInv, TraceRaises
  PROVE  IInv'
  BY InHand, FailsKeeps DEF TraceRaises

\* A response is released while its request has run its course.
LEMMA ReleaseKeeps ==
  ASSUME NEW e \in Exchanges, Sound(e)
  PROVE  /\ ReleaseResponse(e) \in Exchanges /\ Sound(ReleaseResponse(e)) /\ Stops(e, ReleaseResponse(e))
         /\ ReleaseConnection(e) \in Exchanges /\ Sound(ReleaseConnection(e)) /\ Stops(e, ReleaseConnection(e))
  BY ReleaseResponseSound, ReleaseConnectionSound, ReleaseConnectionType DEF Sound, GivenUp

LEMMA ReadDoneKeeps ==
  ASSUME IInv, pc \in {"held", "reading"}, ReadDone(x[cur])
  PROVE  IInv'
<1>1. cur \in Conns /\ x[cur] \in Exchanges /\ Sound(x[cur])
  BY InHand
<1>2. CASE ~x[cur].upgraded /\ x[cur].writer # "none"
  <2>1. pc' = "waiting" /\ UNCHANGED <<cur, req, gen>> /\ Exchange(cur, x[cur])
    BY <1>2 DEF ReadDone
  <2>2. Exch /\ timer \in Timers
    BY DEF IInv, Types, Timers
  <2>3. /\ Exch' /\ timer' \in Timers
        /\ timer' = "armed" => timer = "armed" /\ (Held => Held')
    BY <1>1, <2>1, <2>2, ExchangeKeeps, StopsItself
  <2>4. Types'
    BY <1>1, <2>1, <2>3, RequestAssumption DEF IInv, Types, Exch, Places, Awaits, Timers
  <2>5. Owned'
    BY <2>3 DEF IInv, Owned, Held, Exch, Early
  <2> QED BY <2>3, <2>4, <2>5 DEF IInv, Exch
<1>3. CASE ~(~x[cur].upgraded /\ x[cur].writer # "none")
  <2>1. Done(IF x[cur].upgraded THEN x[cur] ELSE ReleaseConnection(x[cur]))
    BY <1>3 DEF ReadDone
  <2>2. Done(x[cur]) \/ Done(ReleaseConnection(x[cur]))
    BY <2>1
  <2> QED BY <1>1, <2>2, ReleaseKeeps, StopsItself, DoneKeeps DEF Early
<1> QED BY <1>2, <1>3

LEMMA ReadKeeps ==
  ASSUME IInv, Read
  PROVE  IInv'
<1>1. cur \in Conns /\ x[cur] \in Exchanges /\ Sound(x[cur]) /\ pc = "held"
  BY InHand DEF Read
<1>2. CASE ReadDone(x[cur])
  BY <1>1, <1>2, ReadDoneKeeps
<1>3. CASE pc' = "reading" /\ UNCHANGED <<cur, req, gen, x, timer>>
  BY <1>1, <1>3 DEF IInv, Types, Owned, Places, Awaits, Exch, Held, Early, Timers
<1>4. CASE Done(CloseResponse(x[cur]))
  BY <1>1, <1>4, CloseResponseSound, DoneKeeps DEF Early
<1> QED BY <1>2, <1>3, <1>4 DEF Read

LEMMA ReadEndsKeeps ==
  ASSUME IInv, ReadEnds
  PROVE  IInv'
  BY ReadDoneKeeps DEF ReadEnds

LEMMA EndingKeeps ==
  ASSUME IInv, ReadFails \/ Release \/ Close \/ WaitEnds \/ Drop
  PROVE  IInv'
<1>1. /\ cur \in Conns /\ x[cur] \in Exchanges /\ Sound(x[cur]) /\ pc \notin Early
  BY InHand DEF ReadFails, Release, Close, WaitEnds, Drop, Early
<1>2. \/ Done(CloseResponse(x[cur])) \/ Done(ReleaseResponse(x[cur]))
      \/ Done(ReleaseConnection(x[cur])) \/ Done(x[cur])
  BY DEF ReadFails, Release, Close, WaitEnds, Drop
<1> QED BY <1>1, <1>2, CloseResponseSound, ReleaseKeeps, StopsItself, DoneKeeps

LEMMA ExitKeeps ==
  ASSUME IInv, Exit
  PROVE  IInv'
<1>1. cur \in Conns /\ x[cur] \in Exchanges /\ Sound(x[cur]) /\ Exch /\ timer \in Timers
  BY InHand DEF IInv, Exit, IInv, Types, Timers
<1>2. Exchange(cur, ReleaseResponse(x[cur])) /\ pc = "held" /\ pc' = "closing" /\ UNCHANGED <<cur, req, gen>>
  BY DEF Exit
<1>3. /\ Exch' /\ timer' \in Timers
      /\ timer' = "armed" => timer = "armed" /\ (Held => Held')
  BY <1>1, <1>2, ExchangeKeeps, ReleaseKeeps
<1>4. Types'
  BY <1>1, <1>2, <1>3, RequestAssumption DEF IInv, Types, Exch, Places, Awaits, Timers
<1>5. Owned'
  BY <1>2, <1>3 DEF IInv, Owned, Held, Exch, Early
<1> QED BY <1>3, <1>4, <1>5 DEF IInv, Exch

LEMMA CancelsKeep ==
  ASSUME IInv, Cancel \/ TimerFires
  PROVE  IInv'
<1>1. ASSUME Interrupted, pc \in Awaits
      PROVE  IInv'
  <2>1. CASE pc = "connect"
    BY <1>1, <2>1, ConnectFailsKeeps DEF Interrupted
  <2>2. ASSUME pc # "connect"
        PROVE  cur \in Conns /\ x[cur] \in Exchanges /\ Sound(x[cur])
    BY <1>1, <2>2, InHand DEF Awaits
  <2>3. CASE pc \in {"head", "redirect", "ending"}
    <3>1. Fails(CloseResponse(x[cur])) \/ Fails(x[cur])
      BY <1>1, <2>3 DEF Interrupted
    <3> QED BY <2>2, <2>3, <3>1, CloseResponseSound, FailsKeeps
  <2>4. CASE pc = "reading"
    <3>1. Done(CloseResponse(x[cur]))
      BY <1>1, <2>4 DEF Interrupted
    <3> QED BY <2>2, <2>4, <3>1, CloseResponseSound, DoneKeeps DEF Early
  <2>5. CASE pc \in {"waiting", "closing"}
    <3>1. Done(CleanupWriter(x[cur]))
      BY <1>1, <2>5 DEF Interrupted
    <3>2. CleanupWriter(x[cur]) \in Exchanges
      BY <2>2, <2>5, CleanupWriterType
    <3>3. Sound(CleanupWriter(x[cur])) /\ Stops(x[cur], CleanupWriter(x[cur]))
      BY <2>2, <2>5 DEF CleanupWriter, Exchanges, Sound, Written, Pooled, GivenUp, Stops
    <3> QED BY <2>2, <2>5, <3>1, <3>2, <3>3, DoneKeeps DEF Early
  <2> QED BY <1>1, <2>1, <2>3, <2>4, <2>5 DEF Awaits
<1>2. CASE Cancel
  BY <1>1, <1>2 DEF Cancel
<1>3. CASE TimerFires
  <2>1. CASE pc \in Timed /\ pc # "reading"
    BY <1>1, <1>3, <2>1 DEF TimerFires, Timed, Awaits
  <2>2. CASE pc = "reading"
    <3>1. pc' = "done" /\ timer' = "fired" /\ Leaves(CloseResponse(x[cur])) /\ UNCHANGED <<req, gen>>
      BY <1>3, <2>2 DEF TimerFires, Timed
    <3>2. cur \in Conns /\ CloseResponse(x[cur]) \in Exchanges /\ Sound(CloseResponse(x[cur])) /\ Exch
      BY <2>2, InHand, CloseResponseSound DEF IInv
    <3>3. Exch' /\ cur' = NoConn
      BY <3>1, <3>2, LeavesKeeps
    <3> QED BY <3>1, <3>3 DEF IInv, Types, Owned, Exch, Places, Held, Early, Timers
  <2>3. CASE pc \notin Timed
    <3>1. timer' = "fired" /\ UNCHANGED <<pc, cur, req, gen, x>>
      BY <1>3, <2>3 DEF TimerFires
    <3> QED BY <3>1 DEF IInv, Types, Owned, Exch, Held, Early, Timers
  <2> QED BY <2>1, <2>2, <2>3
<1> QED BY <1>2, <1>3
-----------------------------------------------------------------------------
(* The writers, the servers and the garbage collector.                     *)

\* A step of another actor: the exchange on c becomes e.
LEMMA OtherKeeps ==
  ASSUME IInv, NEW c \in Conns, NEW STATE e, e \in Exchanges, Sound(e), Stops(x[c], e), Exchange(c, e),
         UNCHANGED <<pc, cur, req>>, gen' \in Gens
  PROVE  IInv'
<1>1. Exch /\ timer \in Timers
  BY DEF IInv, Types, Timers
<1>2. /\ Exch' /\ timer' \in Timers
      /\ timer' = "armed" => timer = "armed" /\ (Held => Held')
  BY <1>1, ExchangeKeeps
<1> QED BY <1>2, ElsewhereKeeps

\* One that has nothing to do with the timer.
LEMMA QuietKeeps ==
  ASSUME IInv, NEW c \in Conns, NEW STATE e, e \in Exchanges, Sound(e), Becomes(c, e),
         x[c].timed /\ x[c].conn => e.timed /\ e.conn,
         UNCHANGED <<pc, cur, req, timer>>, gen' \in Gens
  PROVE  IInv'
<1>1. Exch /\ timer \in Timers
  BY DEF IInv, Types, Timers
<1>2. Exch' /\ (Held => Held')
  BY <1>1, BecomesKeeps
<1> QED BY <1>1, <1>2, ElsewhereKeeps

LEMMA CollectKeeps ==
  ASSUME IInv, NEW c \in Conns, Collect(c)
  PROVE  IInv'
<1> DEFINE f == CloseLease(x[c])
           e == [f EXCEPT !.conn = FALSE, !.closed = TRUE, !.writer = "none", !.cancel = FALSE]
<1>1. x[c] \in Exchanges /\ f \in Exchanges /\ gen \in Gens
  BY CloseLeaseType DEF IInv, Types
<1>2. f.lease = "none" /\ f.timed = FALSE
  BY <1>1 DEF CloseLease, Exchanges
<1>3. Exchange(c, e) /\ UNCHANGED <<pc, cur, req, gen>>
  BY DEF Collect
<1> HIDE DEF f
<1>4. e \in Exchanges /\ e.lease = "none" /\ ~e.timed /\ ~e.cancel /\ e.writer = "none"
  BY <1>1, <1>2, ZenonT(60) DEF Exchanges
<1> HIDE DEF e
<1>5. Sound(e) /\ Stops(x[c], e)
  BY <1>4 DEF Sound, Written, Pooled, GivenUp, Stops
<1> QED BY <1>1, <1>3, <1>4, <1>5, OtherKeeps

LEMMA WriteChunkKeeps ==
  ASSUME IInv, NEW c \in Conns, WriteChunk(c)
  PROVE  IInv'
<1> DEFINE e == [x[c] EXCEPT !.sent = Append(@, gen.taken + 1)]
<1>1. x[c] \in Exchanges /\ Sound(x[c]) /\ gen \in Gens /\ gen.taken < Chunks
  BY DEF IInv, Types, WriteChunk, Exch, Timers
<1>2. gen.taken + 1 \in 0 .. Chunks /\ gen.taken + 1 \in Nat
  BY <1>1, RequestAssumption DEF Gens
<1>3. gen' \in Gens
  BY <1>1, <1>2 DEF WriteChunk, Gens
<1>4. Append(x[c].sent, gen.taken + 1) \in Seq(Nat)
  BY <1>1, <1>2 DEF Exchanges
<1>5. e \in Exchanges /\ Sound(e) /\ e.timed = x[c].timed /\ e.conn = x[c].conn
  BY <1>1, <1>4, ZenonT(60) DEF Exchanges, Sound, Written, Pooled, GivenUp
<1>6. Becomes(c, e) /\ UNCHANGED <<pc, cur, req, timer>>
  BY DEF WriteChunk
<1> HIDE DEF e
<1> QED BY <1>3, <1>5, <1>6, QuietKeeps

\* The end of a writer that wrote the body, or whose failure is the protocol's.
LEMMA WriterEnds ==
  ASSUME NEW c \in Conns, NEW e \in Exchanges, NEW f \in Exchanges, Sound(e), e.writer # "none",
         f.lease = e.lease, f.conn = e.conn, f.asked = e.asked, f.timed = e.timed,
         f.closed = e.closed, f.onDone = e.onDone,
         f.whole \/ ~f.asked \/ f.failed \/ ~f.up
  PROVE  WriterDone(f) \in Exchanges /\ Sound(WriterDone(f)) /\ Stops(e, WriterDone(f))
<1>1. /\ Pooled(f) /\ (f.lease = "leased" => f.conn)
      /\ f.closed /\ f.lease = "leased" => f.onDone
  BY DEF Sound, Pooled, GivenUp
<1>2. WriterDone(f) \in Exchanges /\ Sound(WriterDone(f)) /\ Stops(f, WriterDone(f))
  BY <1>1, WriterDoneSound
<1> QED BY <1>2 DEF Stops

LEMMA WriteEofKeeps ==
  ASSUME IInv, NEW c \in Conns, WriteEof(c)
  PROVE  IInv'
<1> DEFINE e == [x[c] EXCEPT !.whole = TRUE, !.writer = "flush"]
           f == [x[c] EXCEPT !.whole = TRUE]
<1>1. x[c] \in Exchanges /\ Sound(x[c]) /\ x[c].writer = "write" /\ ~x[c].cancel
  BY DEF IInv, Types, WriteEof, Writes, Exch, Timers
<1>2. gen' \in Gens
  <2>1. (gen.consumed \/ x[c].body = "gen") \in BOOLEAN /\ gen \in Gens
    BY DEF IInv, Types
  <2>2. gen' = [gen EXCEPT !.consumed = gen.consumed \/ x[c].body = "gen"]
    BY <2>1 DEF WriteEof, Gens
  <2> QED BY <2>1, <2>2 DEF Gens
<1>3. e \in Exchanges /\ Sound(e) /\ e.timed = x[c].timed /\ e.conn = x[c].conn
  BY <1>1 DEF Exchanges, Sound, Written, Pooled, GivenUp
<1>4. f \in Exchanges /\ f.whole
      /\ f.lease = x[c].lease /\ f.conn = x[c].conn /\ f.asked = x[c].asked /\ f.timed = x[c].timed
      /\ f.closed = x[c].closed /\ f.onDone = x[c].onDone
  BY <1>1 DEF Exchanges
<1>5. /\ (Becomes(c, e) /\ UNCHANGED timer) \/ Exchange(c, WriterDone(f))
      /\ UNCHANGED <<pc, cur, req>>
  BY DEF WriteEof
<1> HIDE DEF e, f
<1>6. WriterDone(f) \in Exchanges /\ Sound(WriterDone(f)) /\ Stops(x[c], WriterDone(f))
  BY <1>1, <1>4, WriterEnds
<1>7. CASE Becomes(c, e) /\ UNCHANGED timer
  BY <1>2, <1>3, <1>5, <1>7, QuietKeeps
<1>8. CASE Exchange(c, WriterDone(f))
  BY <1>2, <1>5, <1>6, <1>8, OtherKeeps
<1> QED BY <1>5, <1>7, <1>8

LEMMA FlushedKeeps ==
  ASSUME IInv, NEW c \in Conns, Flushed(c)
  PROVE  IInv'
<1>1. x[c] \in Exchanges /\ Sound(x[c]) /\ x[c].writer = "flush" /\ x[c].whole /\ gen \in Gens
  BY DEF IInv, Types, Flushed, Sound, Written, Exch, Timers
<1>2. WriterDone(x[c]) \in Exchanges /\ Sound(WriterDone(x[c])) /\ Stops(x[c], WriterDone(x[c]))
  BY <1>1, WriterEnds
<1> QED BY <1>1, <1>2, OtherKeeps DEF Flushed

LEMMA WriteFailsKeeps ==
  ASSUME IInv, NEW c \in Conns, WriteFails(c)
  PROVE  IInv'
<1> DEFINE f == [x[c] EXCEPT !.failed = TRUE]
<1>1. x[c] \in Exchanges /\ Sound(x[c]) /\ x[c].writer = "write" /\ gen \in Gens
  BY DEF IInv, Types, WriteFails, Writes, Exch, Timers
<1>2. f \in Exchanges /\ f.failed
      /\ f.lease = x[c].lease /\ f.conn = x[c].conn /\ f.asked = x[c].asked /\ f.timed = x[c].timed
      /\ f.closed = x[c].closed /\ f.onDone = x[c].onDone
  BY <1>1 DEF Exchanges
<1>3. Exchange(c, WriterDone(f)) /\ UNCHANGED <<pc, cur, req, gen>>
  BY DEF WriteFails
<1> HIDE DEF f
<1>4. WriterDone(f) \in Exchanges /\ Sound(WriterDone(f)) /\ Stops(x[c], WriterDone(f))
  BY <1>1, <1>2, WriterEnds
<1> QED BY <1>1, <1>3, <1>4, OtherKeeps

LEMMA WriterDoneUntimed ==
  ASSUME NEW e \in Exchanges, ~e.timed
  PROVE  ~WriterDone(e).timed
<1> DEFINE f == [e EXCEPT !.writer = "none", !.cancel = FALSE, !.onDone = FALSE]
<1>1. f \in Exchanges /\ ~f.timed
  BY DEF Exchanges
<1>2. \A g \in Exchanges : ~g.timed => ~ReleaseConnection(g).timed
  BY DEF ReleaseConnection, ReleaseLease, CloseLease, Exchanges
<1> QED BY <1>1, <1>2 DEF WriterDone

\* A writer that is cancelled in the body closes the connection first.
LEMMA WriterCancelledKeeps ==
  ASSUME IInv, NEW c \in Conns, WriterCancelled(c)
  PROVE  IInv'
<1> DEFINE f == IF x[c].writer = "write" THEN CloseLease(x[c]) ELSE x[c]
<1>1. x[c] \in Exchanges /\ Sound(x[c]) /\ x[c].cancel
  BY DEF IInv, Types, WriterCancelled, Exch, Timers
<1>2. gen' \in Gens
  BY RequestAssumption DEF WriterCancelled, IInv, Types, Gens
<1>3. Exchange(c, WriterDone(f)) /\ UNCHANGED <<pc, cur, req>>
  BY DEF WriterCancelled
<1>4. WriterDone(f) \in Exchanges /\ Sound(WriterDone(f)) /\ Stops(x[c], WriterDone(f))
  <2>1. CASE x[c].writer = "write"
    <3>1. f = CloseLease(x[c]) /\ f \in Exchanges
      BY <1>1, <2>1, CloseLeaseType
    <3>2. f.lease = "none" /\ f.timed = FALSE
      BY <1>1, <3>1, ZenonT(60) DEF CloseLease, Exchanges
    <3> HIDE DEF f
    <3>3. WriterDone(f) \in Exchanges /\ Sound(WriterDone(f))
      BY <3>1, <3>2, WriterDoneSound DEF Pooled
    <3>4. ~WriterDone(f).timed
      BY <3>1, <3>2, WriterDoneUntimed
    <3> QED BY <3>3, <3>4 DEF Stops
  <2>2. CASE x[c].writer # "write"
    <3>1. f = x[c] /\ (f.whole \/ ~f.asked) /\ f.writer # "none"
      BY <1>1, <2>2 DEF Sound, Written, Exchanges
    <3> QED BY <1>1, <3>1, WriterEnds
  <2> QED BY <2>1, <2>2
<1> HIDE DEF f
<1> QED BY <1>2, <1>3, <1>4, OtherKeeps

LEMMA AnswerHeadKeeps ==
  ASSUME IInv, NEW c \in Conns, AnswerHead(c)
  PROVE  IInv'
<1> DEFINE e == [x[c] EXCEPT !.answer = "head"]
<1>1. x[c] \in Exchanges /\ Sound(x[c]) /\ x[c].lease = "leased" /\ gen \in Gens
  BY DEF IInv, Types, AnswerHead, Exch, Timers
<1>2. e \in Exchanges /\ Sound(e) /\ e.timed = x[c].timed /\ e.conn = x[c].conn
  BY <1>1 DEF Exchanges, Sound, Written, Pooled, GivenUp
<1>3. Becomes(c, e) /\ UNCHANGED <<pc, cur, req, gen, timer>>
  BY DEF AnswerHead
<1> HIDE DEF e
<1> QED BY <1>1, <1>2, <1>3, QuietKeeps

LEMMA AnswerEndKeeps ==
  ASSUME IInv, NEW c \in Conns, AnswerEnd(c)
  PROVE  IInv'
<1> DEFINE e == [x[c] EXCEPT !.answer = "eof"]
           f == IF e.attached THEN ResponseEof(e) ELSE e
<1>1. x[c] \in Exchanges /\ Sound(x[c]) /\ x[c].lease = "leased" /\ gen \in Gens
  BY DEF IInv, Types, AnswerEnd, Exch, Timers
<1>2. e \in Exchanges /\ Sound(e) /\ e.timed = x[c].timed /\ e.conn = x[c].conn
  BY <1>1 DEF Exchanges, Sound, Written, Pooled, GivenUp
<1>3. Exchange(c, f) /\ UNCHANGED <<pc, cur, req, gen>>
  BY DEF AnswerEnd
<1> HIDE DEF e
<1>4. f \in Exchanges /\ Sound(f) /\ Stops(e, f)
  BY <1>2, ResponseEofSound, StopsItself
<1>5. Stops(x[c], f)
  BY <1>2, <1>4 DEF Stops
<1> HIDE DEF f
<1> QED BY <1>1, <1>3, <1>4, <1>5, OtherKeeps

LEMMA LoseKeeps ==
  ASSUME IInv, NEW c \in Conns, Lose(c)
  PROVE  IInv'
<1> DEFINE e == [x[c] EXCEPT !.up = FALSE, !.failed = TRUE]
<1>1. x[c] \in Exchanges /\ Sound(x[c]) /\ x[c].lease # "none" /\ gen \in Gens
  BY DEF IInv, Types, Lose, Exch, Timers
<1>2. UNCHANGED <<pc, cur, req, gen, timer>>
  BY DEF Lose
<1>3. CASE x[c].lease = "pool"
  <2>1. Becomes(c, Fresh) /\ ~x[c].conn
    BY <1>1, <1>3 DEF Lose, Sound, Pooled
  <2> QED BY <1>1, <1>2, <2>1, FreshSound, QuietKeeps
<1>4. CASE x[c].lease # "pool"
  <2>1. Becomes(c, e)
    BY <1>4 DEF Lose
  <2>2. e \in Exchanges /\ Sound(e) /\ e.timed = x[c].timed /\ e.conn = x[c].conn
    BY <1>1, <1>4, ZenonT(60) DEF Exchanges, Sound, Written, Pooled, GivenUp
  <2> HIDE DEF e
  <2> QED BY <1>1, <1>2, <2>1, <2>2, QuietKeeps
<1> QED BY <1>3, <1>4
-----------------------------------------------------------------------------
(* The theorems.                                                           *)

LEMMA InitHolds == Init => IInv
<1> SUFFICES ASSUME Init PROVE IInv
  OBVIOUS
<1>1. pc = "idle" /\ cur = NoConn /\ timer = "off" /\ req = NoRequest /\ gen = [taken |-> 0, consumed |-> FALSE]
  BY DEF Init
<1>2. x \in [Conns -> Exchanges] /\ \A c \in Conns : Sound(x[c])
  <2>1. PICK idle \in BOOLEAN :
          x = [c \in Conns |-> IF idle /\ c = CHOOSE d \in Conns : TRUE THEN Idle ELSE Fresh]
    BY DEF Init
  <2>2. \A c \in Conns : x[c] \in {Idle, Fresh}
    BY <2>1
  <2>3. x = [c \in Conns |-> x[c]]
    BY <2>1
  <2> QED BY <2>2, <2>3, FreshSound, IdleSound
<1>3. gen \in Gens
  BY <1>1, RequestAssumption DEF Gens
<1> QED BY <1>1, <1>2, <1>3, NoRequestType DEF IInv, Types, Owned, Places, Exch, Held, Early, Timers

LEMMA NextKeeps == IInv /\ [Next]_vars => IInv'
<1> SUFFICES ASSUME IInv, [Next]_vars PROVE IInv'
  OBVIOUS
<1>1. CASE Task
  <2>1. CASE ConnectFails
    BY <2>1, ConnectFailsKeeps DEF ConnectFails
  <2>2. CASE \E c \in Conns : Connected(c)
    BY <2>2, ConnectedKeeps
  <2>3. CASE TaskRuns
    BY <2>3, StartedKeeps, StartFailsKeeps, StatusRaisesKeeps, StatusOkKeeps, ReturnsKeeps,
       RedirectFailsKeeps, RedirectIsAnswerKeeps, RedirectedKeeps DEF TaskRuns
  <2> QED BY <1>1, <2>1, <2>2, <2>3, ContinueKeeps, TraceRaisesKeeps, ReadEndsKeeps, EndingKeeps DEF Task
<1>2. CASE Caller
  <2>1. CASE \E d \in Bodies, idempotent, ex, total \in BOOLEAN : Request(d, idempotent, ex, total)
    BY <2>1, RequestKeeps
  <2> QED BY <1>2, <2>1, ReadKeeps, EndingKeeps, ExitKeeps, CancelsKeep DEF Caller
<1>3. CASE TimerFires
  BY <1>3, CancelsKeep
<1>4. CASE \E c \in Conns : Writer(c)
  BY <1>4, WriteChunkKeeps, WriteEofKeeps, FlushedKeeps, WriteFailsKeeps, WriterCancelledKeeps DEF Writer
<1>5. CASE \E c \in Conns : Server(c)
  BY <1>5, AnswerHeadKeeps, AnswerEndKeeps, LoseKeeps DEF Server
<1>6. CASE \E c \in Conns : Collect(c)
  BY <1>6, CollectKeeps
<1>7. CASE UNCHANGED vars
  BY <1>7 DEF vars, IInv, Types, Owned, Exch, Held, Early, Timers
<1> QED BY <1>1, <1>2, <1>3, <1>4, <1>5, <1>6, <1>7 DEF Next

\* The inductive invariant.
THEOREM InvariantCorrect == Spec => []IInv
  BY InitHolds, NextKeeps, PTL DEF Spec

\* A connection only goes back to the pool when its request was written to the
\* end and its answer read to the end, in whatever order writer, answer, caller
\* and network come (_response_eof, _release_connection, _write_bytes).
THEOREM CleanReuseCorrect == Spec => []CleanReuse
<1>1. IInv => CleanReuse
  BY DEF IInv, Sound, Pooled, CleanReuse, Exch
<1> QED BY <1>1, InvariantCorrect, PTL

\* The loop of _request() keeps what a request carries, as long as nothing else
\* changes it: credentials from the URL and from netrc are for the URL.
LEMMA AuthCarries ==
  ASSUME NEW r \in ReqsType, {r.auth, r.cookies} \subseteq {r.origin, NoOrigin}, NEW own
  PROVE  LET s == Auth(r, own)
         IN  /\ {s.auth, s.cookies} \subseteq {s.origin, NoOrigin}
             /\ s.origin \in Netrc => s.auth = s.origin
<1>1. CASE own \/ (r.auth = NoOrigin /\ r.origin \in Netrc)
  <2>1. Auth(r, own) = [r EXCEPT !.auth = r.origin]
    BY <1>1 DEF Auth
  <2> QED BY <2>1 DEF ReqsType
<1>2. CASE ~(own \/ (r.auth = NoOrigin /\ r.origin \in Netrc))
  <2>1. Auth(r, own) = r
    BY <1>2 DEF Auth
  <2> QED BY <1>2, <2>1
<1> QED BY <1>1, <1>2

\* Who changes the request, and to what.
LEMMA RequestChanges ==
  ASSUME [Next]_vars
  PROVE  \/ req' \in {req, NoRequest}
         \/ \E d \in Bodies, idempotent, ex, total \in BOOLEAN : Request(d, idempotent, ex, total)
         \/ req' = Auth([req EXCEPT !.retry = FALSE], FALSE)
         \/ \E rewritten, own \in BOOLEAN, to \in Origins : Redirected(rewritten, to, own)
<1>1. ASSUME Task
      PROVE  \/ req' \in {req, NoRequest} \/ req' = Auth([req EXCEPT !.retry = FALSE], FALSE)
             \/ \E rewritten, own \in BOOLEAN, to \in Origins : Redirected(rewritten, to, own)
  <2>1. CASE TaskRuns
    BY <2>1 DEF TaskRuns, Started, StartFails, Fails, StatusRaises, StatusOk, Returns, RedirectFails, RedirectIsAnswer
  <2> QED BY <1>1, <2>1 DEF Task, ConnectFails, Connected, Continue, TraceRaises, Fails, ReadEnds, ReadFails,
                            ReadDone, WaitEnds, Done
<1>2. ASSUME pc \in Awaits, Interrupted
      PROVE  req' \in {req, NoRequest}
  BY <1>2 DEF Interrupted, Awaits, Fails, Done
<1>3. ASSUME Caller
      PROVE  \/ req' \in {req, NoRequest}
             \/ \E d \in Bodies, idempotent, ex, total \in BOOLEAN : Request(d, idempotent, ex, total)
  BY <1>2, <1>3 DEF Caller, Read, ReadDone, Release, Close, Exit, Drop, Cancel, Done
<1>4. ASSUME TimerFires
      PROVE  req' \in {req, NoRequest}
  BY <1>2, <1>4 DEF TimerFires, Timed, Awaits
<1>5. ASSUME NEW c \in Conns, Writer(c) \/ Server(c) \/ Collect(c)
      PROVE  req' = req
  BY <1>5 DEF Writer, WriteChunk, WriteEof, Flushed, WriteFails, WriterCancelled,
              Server, AnswerHead, AnswerEnd, Lose, Collect
<1>6. CASE UNCHANGED vars
  BY <1>6 DEF vars
<1> QED BY <1>1, <1>3, <1>4, <1>5, <1>6 DEF Next

LEMMA CredentialsNext ==
  ASSUME IInv, CredentialsStay, [Next]_vars
  PROVE  CredentialsStay'
<1>0. req \in ReqsType
  BY DEF IInv, Types
<1>1. CASE req' \in {req, NoRequest}
  BY <1>1, RequestAssumption DEF CredentialsStay, NoRequest
<1>2. CASE \E d \in Bodies, idempotent, ex, total \in BOOLEAN : Request(d, idempotent, ex, total)
  <2>1. PICK d \in Bodies, idempotent, ex, total \in BOOLEAN : Request(d, idempotent, ex, total)
    BY <1>2
  <2>2. PICK g \in Given :
          req' = Auth([data |-> d, expect |-> ex, hops |-> 0, retry |-> idempotent,
                       origin |-> g.origin, auth |-> g.auth, cookies |-> g.cookies], FALSE)
    BY <2>1 DEF Request
  <2> DEFINE r == [data |-> d, expect |-> ex, hops |-> 0, retry |-> idempotent,
                   origin |-> g.origin, auth |-> g.auth, cookies |-> g.cookies]
  <2>3. r \in ReqsType /\ {r.auth, r.cookies} \subseteq {r.origin, NoOrigin}
    BY RequestAssumption DEF ReqsType
  <2>4. req' = Auth(r, FALSE)
    BY <2>2
  <2> HIDE DEF r
  <2> QED BY <2>3, <2>4, AuthCarries DEF CredentialsStay
<1>3. CASE req' = Auth([req EXCEPT !.retry = FALSE], FALSE)
  <2> DEFINE r == [req EXCEPT !.retry = FALSE]
  <2>1. r \in ReqsType /\ {r.auth, r.cookies} \subseteq {r.origin, NoOrigin}
    BY <1>0 DEF ReqsType, CredentialsStay
  <2>2. req' = Auth(r, FALSE)
    BY <1>3
  <2> HIDE DEF r
  <2> QED BY <2>1, <2>2, AuthCarries DEF CredentialsStay
\* The next hop: what it carries is for the origin that is left, which is the one
\* that is gone to, or is dropped.
<1>4. CASE \E rewritten, own \in BOOLEAN, to \in Origins : Redirected(rewritten, to, own)
  <2>1. PICK rewritten \in BOOLEAN, own \in BOOLEAN, to \in Origins : Redirected(rewritten, to, own)
    BY <1>4
  <2> DEFINE r == [Dropped(req, to) EXCEPT !.origin = to, !.hops = @ + 1,
                                           !.data = IF rewritten THEN "none" ELSE @]
  <2>2. req' = Auth(r, own) /\ pc = "redirect" /\ Repeatable(rewritten)
    BY <2>1 DEF Redirected
  <2>3. req.hops \in Nat /\ req.hops + 1 < MaxRedirects /\ MaxRedirects \in Nat
    BY <1>0, <2>2, RequestAssumption DEF Repeatable, TooMany, ReqsType
  <2>4. req.hops + 1 \in 0 .. MaxRedirects
    BY <2>3
  <2>5. /\ Dropped(req, to) \in ReqsType /\ Dropped(req, to).hops = req.hops
        /\ {Dropped(req, to).auth, Dropped(req, to).cookies} \subseteq {to, NoOrigin}
    BY <1>0 DEF Dropped, ReqsType, CredentialsStay
  <2>6. r \in ReqsType /\ {r.auth, r.cookies} \subseteq {r.origin, NoOrigin}
    BY <2>4, <2>5 DEF ReqsType
  <2> HIDE DEF r
  <2> QED BY <2>2, <2>6, AuthCarries DEF CredentialsStay
<1> QED BY <1>1, <1>2, <1>3, <1>4, RequestChanges

\* What a request carries, credentials and cookies, was given for the origin it
\* goes to, however often redirects leave it and come back; an origin with an
\* entry in netrc gets credentials on every visit (_request).
THEOREM CredentialsStayCorrect == Spec => []CredentialsStay
<1>1. Init => CredentialsStay
  BY RequestAssumption DEF Init, NoRequest, CredentialsStay
<1>2. IInv /\ CredentialsStay /\ [Next]_vars => CredentialsStay'
  BY CredentialsNext
<1> QED BY <1>1, <1>2, InvariantCorrect, PTL DEF Spec

\* A closed response has given its connection up, or its writer is being stopped
\* and will; a total timeout outlives no request (_release_connection, _request).
THEOREM GivesUpCorrect == Spec => []GivesUp
<1>1. IInv => TypeOK
  <2> SUFFICES ASSUME IInv PROVE TypeOK
    OBVIOUS
  <2>1. gen.taken \in 0 .. Chunks /\ req.hops \in 0 .. MaxRedirects
    BY DEF IInv, Types, Gens, ReqsType
  <2>2. \A c \in Conns :
         /\ x[c].lease \in {"none", "pool", "leased"} /\ x[c].answer \in {"none", "head", "eof"}
         /\ x[c].writer \in {"none", "expect", "write", "flush"} /\ (x[c].cancel => x[c].writer # "none")
    BY DEF IInv, Types, Exchanges, Sound, Written, Exch, Timers
  <2> QED BY <2>1, <2>2 DEF IInv, Types, Places, TypeOK, Exch, Timers
<1>2. IInv => ClosedGivesUp
  BY DEF IInv, Sound, GivenUp, ClosedGivesUp, Exch
<1>3. IInv => TimerIsOwned
  BY DEF IInv, Owned, TimerIsOwned, Over, Exch, Held, Early
<1>4. IInv => GivesUp
  BY <1>1, <1>2, <1>3 DEF GivesUp
<1> QED BY <1>4, InvariantCorrect, PTL

(***************************************************************************)
(* What requests share: the components "dns" and "digest" of MCClient,     *)
(* whose invariants SessionProofs proves inductive.                        *)
(***************************************************************************)
SharedInv == (component = "dns" => Shared!IInv) /\ (component = "digest" => Shared!DigestInv)

\* Whichever component moves begins as it does by itself ...
LEMMA SharedInit == ClientInit => SharedInv
BY ClientAssumption, Shared!InitHolds, Shared!DigestInitHolds DEF ClientInit, SharedInv

\* ... and its steps are its own.
LEMMA SharedNext == SharedInv /\ [ClientNext]_<<component, vars, dnsVars>> => SharedInv'
<1> SUFFICES ASSUME SharedInv, [ClientNext]_<<component, vars, dnsVars>> PROVE SharedInv'
  OBVIOUS
<1>1. CASE component = "dns"
  <2>1. [Shared!Next]_(Shared!vars) /\ component' = component
    BY <1>1 DEF ClientNext, dnsVars, Shared!vars, Shared!cacheVars, Shared!lookupVars, Shared!callVars
  <2> QED
    BY <1>1, <2>1, ClientAssumption, Shared!CacheStep, Shared!CallStep, Shared!PartsNext DEF SharedInv
<1>2. CASE component = "digest"
  <2>1. [Shared!Digest!Next]_(Shared!Digest!vars) /\ component' = component
    BY <1>2 DEF ClientNext, dnsVars, Shared!Digest!vars
  <2> QED
    BY <1>2, <2>1, ClientAssumption, Shared!DigestNext DEF SharedInv
<1>3. CASE component \notin {"dns", "digest"}
  BY <1>3 DEF ClientNext, SharedInv
<1> QED
  BY <1>1, <1>2, <1>3

\* However the requests of a session interleave and are cancelled, a caller that
\* shares a lookup is interrupted only by its own cancellation or close(), and is
\* answered; the throttle and the cache stay exact; and a request that shares a
\* digest middleware answers the challenge of its own response, with the count of
\* what was sent (_resolve_host, _DNSCacheTable, DigestAuthMiddleware.__call__).
THEOREM IsolationCorrect == ClientSpec => []Isolation
<1>1. SharedInv => Isolation
  BY DEF SharedInv, Isolation, Shared!IInv, Shared!DigestInv
<1> QED
  BY SharedInit, SharedNext, <1>1, PTL DEF ClientSpec
=============================================================================
