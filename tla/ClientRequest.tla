---------------------------- MODULE ClientRequest ----------------------------
(***************************************************************************)
(* One request of a ClientSession: _request() of aiohttp/client.py with    *)
(* its retry, redirects and total timeout, and the ClientRequest and       *)
(* ClientResponse of aiohttp/client_reqrep.py it uses: the task that       *)
(* writes the request body, the head and body of the answer, and every way *)
(* the caller may end the response.                                        *)
(*                                                                         *)
(* A redirect or a retry leaves the exchange of the previous hop to end by *)
(* itself (its writer is cancelled but has yet to run), so the state of an *)
(* exchange is kept per connection, in x.                                  *)
(*                                                                         *)
(* Abstractions: "bytes" are a body that is replayed from memory, "gen"    *)
(* is an iterator that is read once.  A status is the   *)
(* branch it selects.  The pool is what ConnectionLease promises, to one   *)
(* task.  The awaits before connect() (netrc, proxies) are part of it.     *)
(* Credentials, and the cookies a caller gives, are the origin they were   *)
(* given for; a netrc entry of a host is one of each origin of that host.  *)
(***************************************************************************)
EXTENDS Integers, Sequences, FiniteSets

CONSTANTS
  Conns,         \* connections
  NoConn,        \* "no connection"
  MaxRedirects,  \* max_redirects
  Bodies,        \* the kinds of body a caller may pass
  Chunks,        \* the chunks of a body
  Origins,       \* origins a URL may have
  NoOrigin,      \* "no origin": nothing is carried
  Netrc,         \* origins with an entry in netrc, when trust_env is given
  Given          \* what callers ask for: the origin of the URL, and whether there
                 \* are credentials (in a header or in the URL) and cookies for it

ASSUME RequestAssumption ==
  /\ NoConn \notin Conns /\ {MaxRedirects, Chunks} \subseteq Nat \ {0}
  /\ Bodies \subseteq {"none", "bytes", "gen"}
  /\ NoOrigin \notin Origins /\ Netrc \subseteq Origins
  /\ \A g \in Given : g.origin \in Origins /\ {g.auth, g.cookies} \subseteq {g.origin, NoOrigin}

VARIABLES
  pc,     \* where the task is
  cur,    \* the connection of the request or response it is at
  req,    \* what the next request is built from
  gen,    \* the caller's iterator: chunks taken; whether the payload is consumed
  x,      \* the exchange on each connection
  timer   \* the total timeout: "off", "armed", "fired"

vars == <<pc, cur, req, gen, x, timer>>

Whole == [i \in 1 .. Chunks |-> i]
Over == {"idle", "done"}

Fresh ==
  [lease |-> "none",      \* "none", "pool" or "leased": Connection._protocol
   up |-> FALSE,          \* the transport is connected
   body |-> "none", sent |-> <<>>, whole |-> FALSE,  \* whole: write_eof() was called
   writer |-> "none",     \* the writer task: none, "expect", "write" or "flush"
   cancel |-> FALSE,      \* its cancellation is requested
   asked |-> TRUE,        \* the server was not asked for a 100 Continue it has yet to send
   answer |-> "none",     \* "none", "head" or "eof": how much of it has arrived
   upgraded |-> FALSE,    \* it switches protocols
   keep |-> TRUE,         \* neither side asks for the connection to be closed
   failed |-> FALSE,      \* the protocol has an exception
   attached |-> FALSE,    \* start() of the response has returned
   closed |-> FALSE,      \* ClientResponse._closed
   conn |-> FALSE,        \* ClientResponse._connection is not None
   onDone |-> FALSE,      \* _release_connection() is a callback of the writer
   timed |-> FALSE]       \* the connection cancels the total timeout when released

\* origin is that of the URL; auth and cookies say what the headers carry: the
\* origin for which their credentials, and the caller's cookies, were given.
NoRequest ==
  [data |-> "none", expect |-> FALSE, hops |-> 0, retry |-> FALSE,
   origin |-> NoOrigin, auth |-> NoOrigin, cookies |-> NoOrigin]
Idle == [Fresh EXCEPT !.lease = "pool", !.up = TRUE, !.answer = "eof", !.whole = TRUE]

\* The pool is empty or holds a connection of an earlier request.
Init ==
  /\ pc = "idle" /\ cur = NoConn /\ timer = "off"
  /\ req = NoRequest /\ gen = [taken |-> 0, consumed |-> FALSE]
  /\ \E idle \in BOOLEAN :
       x = [c \in Conns |-> IF idle /\ c = CHOOSE d \in Conns : TRUE THEN Idle ELSE Fresh]
-----------------------------------------------------------------------------
(* The connection and the response.                                        *)

\* ResponseHandler.should_close
ShouldClose(e) == ~e.up \/ ~e.keep \/ e.failed \/ e.answer # "eof" \/ e.upgraded

\* Connection.close() and Connection.release(): both run the callbacks.
CloseLease(e) ==
  [e EXCEPT !.timed = FALSE, !.lease = "none", !.up = @ /\ e.lease # "leased"]
ReleaseLease(e) ==
  IF e.lease # "leased" THEN [e EXCEPT !.timed = FALSE]
  ELSE IF ShouldClose(e) THEN CloseLease(e)
       ELSE [e EXCEPT !.timed = FALSE, !.lease = "pool"]

CleanupWriter(e) == [e EXCEPT !.cancel = e.writer # "none"]

ReleaseConnection_Forgets(e) ==  \* mutant: nothing is left for the writer to do
  IF e.conn /\ e.writer = "none" THEN [ReleaseLease(e) EXCEPT !.conn = FALSE] ELSE e
ReleaseConnection(e) ==
  CASE ~e.conn -> e
    [] e.conn /\ e.writer = "none" -> [ReleaseLease(e) EXCEPT !.conn = FALSE]
    [] OTHER -> [e EXCEPT !.onDone = TRUE]

ResponseEof(e) ==
  IF e.closed \/ e.upgraded THEN e
  ELSE ReleaseConnection(CleanupWriter([e EXCEPT !.closed = TRUE]))

CloseResponse(e) ==
  LET f == CleanupWriter([e EXCEPT !.closed = TRUE])
  IN  IF e.conn THEN [CloseLease(f) EXCEPT !.conn = FALSE] ELSE f
ReleaseResponse(e) == ReleaseConnection(CleanupWriter([e EXCEPT !.closed = TRUE]))

\* The callbacks of the writer task: __reset_writer, then _release_connection.
WriterDone_StaysCancelled(e) ==  \* mutant: the cancellation is left for the next writer
  LET f == [e EXCEPT !.writer = "none", !.onDone = FALSE]
  IN  IF e.onDone THEN ReleaseConnection(f) ELSE f
WriterDone(e) ==
  LET f == [e EXCEPT !.writer = "none", !.cancel = FALSE, !.onDone = FALSE]
  IN  IF e.onDone THEN ReleaseConnection(f) ELSE f

\* Nothing refers to an exchange that is over and that the task has left.
Forgotten(e) ==
  CASE e.lease = "leased" \/ e.writer # "none" \/ e.conn ->
         IF e.up /\ e.keep /\ ~e.failed THEN e
         ELSE [e EXCEPT !.up = FALSE, !.keep = TRUE, !.failed = FALSE, !.answer = "none", !.upgraded = FALSE]
    [] e.lease = "pool" -> [Fresh EXCEPT !.lease = "pool", !.up = e.up, !.answer = e.answer,
                              !.whole = e.whole, !.asked = e.asked]
    [] OTHER -> Fresh

\* The exchange on c becomes e, and the callbacks of its connection ran.
Becomes(c, e) == x' = [x EXCEPT ![c] = IF c = cur THEN e ELSE Forgotten(e)]
TimerAfter(c, e) == timer' = IF x[c].timed /\ ~e.timed THEN "off" ELSE timer
Exchange(c, e) == Becomes(c, e) /\ TimerAfter(c, e)
Leaves(e) == cur' = NoConn /\ x' = [x EXCEPT ![cur] = Forgotten(e)]
-----------------------------------------------------------------------------
(* _request(), until the head of the answer.                               *)

\* The head of the loop: credentials in the URL replace those of the headers;
\* if there are none at all, netrc is looked up.
Auth(r, own) ==
  IF own \/ (r.auth = NoOrigin /\ r.origin \in Netrc) THEN [r EXCEPT !.auth = r.origin] ELSE r

\* A request is made, with an idempotent method or not; its total timeout is
\* started.
Request(d, idempotent, ex, total) ==
  /\ pc = "idle" /\ (d = "none" => idempotent /\ ~ex)
  /\ \E g \in Given :
       req' = Auth([data |-> d, expect |-> ex, hops |-> 0, retry |-> idempotent,
                    origin |-> g.origin, auth |-> g.auth, cookies |-> g.cookies], FALSE)
  /\ timer' = IF total THEN "armed" ELSE "off"
  /\ pc' = "connect" /\ UNCHANGED <<cur, gen, x>>

\* An exception leaves _request(): the timer is stopped, the response is left.
Fails_KeepsTimer(e) ==  \* mutant: the timer is not cancelled
  pc' = "done" /\ Leaves(e) /\ req' = NoRequest /\ UNCHANGED <<gen, timer>>
Fails(e) == pc' = "done" /\ Leaves(e) /\ timer' = "off" /\ req' = NoRequest /\ UNCHANGED gen

\* connect() fails; such an error is never retried.
ConnectFails ==
  /\ pc = "connect" /\ pc' = "done" /\ timer' = "off" /\ req' = NoRequest /\ UNCHANGED <<cur, gen, x>>

\* ClientRequest(): a body that is built again from the caller's iterator is a
\* new payload, which has not been consumed.  _send(): the writer task starts,
\* unless there is nothing to write.
Sent(e) ==
  [Fresh EXCEPT !.lease = "leased", !.up = TRUE, !.conn = TRUE,
     !.body = req.data, !.sent = IF req.data = "bytes" /\ ~req.expect THEN Whole ELSE <<>>, !.whole = req.data = "none" /\ ~req.expect, !.asked = ~req.expect,
     !.writer = CASE req.expect -> "expect"
                  [] ~req.expect /\ req.data = "none" -> "none"
                  [] OTHER -> "write"]

\* connect() returns c, idle in the pool or new.
New == {c \in Conns : x[c] = Fresh}
Connected(c) ==
  /\ pc = "connect"
  /\ x[c].lease = "pool" \/ (c \in New /\ c = CHOOSE d \in New : TRUE)
  /\ cur' = c /\ Becomes(c, Sent(x[c])) /\ pc' = "head"
  /\ UNCHANGED <<req, gen, timer>>

\* start() gets an informational answer.
Continue ==
  /\ pc = "head" /\ x[cur].writer = "expect" /\ x[cur].up /\ x[cur].answer = "none"
  /\ Becomes(cur, [x[cur] EXCEPT !.writer = "write", !.asked = TRUE,
                             !.sent = IF req.data = "bytes" THEN Whole ELSE <<>>])
  /\ UNCHANGED <<pc, cur, req, gen, timer>>

\* start() returns the answer; on_eof() calls back at once if it is complete.
\* The loop is left ("status") unless the answer is a redirect.
Started ==
  /\ pc = "head" /\ x[cur].answer # "none" /\ ~x[cur].failed
  /\ \E keep, upgraded \in BOOLEAN :
       LET e == [x[cur] EXCEPT !.attached = TRUE, !.keep = keep, !.upgraded = upgraded]
       IN  Exchange(cur, IF e.answer = "eof" THEN ResponseEof(e) ELSE e)
  /\ \/ pc' = "redirect" /\ UNCHANGED req
     \/ pc' = "status" /\ req' = NoRequest
  /\ UNCHANGED <<cur, gen>>

\* start() raises: the connection is lost, the answer is malformed, or the
\* writer failed.  A lost connection is retried, once.
Retried == req.retry /\ x[cur].failed
StartFails ==
  /\ pc = "head"
  /\ \/ x[cur].failed \/ x[cur].answer = "head"
  /\ IF Retried
     THEN /\ pc' = "connect" /\ req' = Auth([req EXCEPT !.retry = FALSE], FALSE)
          /\ gen' = [gen EXCEPT !.consumed = FALSE]
          /\ Leaves(CloseResponse(x[cur])) /\ UNCHANGED timer
     ELSE Fails(CloseResponse(x[cur]))
-----------------------------------------------------------------------------
(* _request(), after it.                                                   *)

\* The branches that end a redirect: too many of them, a body that cannot be
\* sent again, an unusable location.
\* 303, and 301 and 302 of a POST, become a GET without a body.
TooMany == req.hops + 1 >= MaxRedirects
Repeatable(rewritten) == ~TooMany /\ (rewritten \/ ~gen.consumed)
RedirectFails ==
  /\ pc = "redirect"
  /\ \/ (TooMany \/ gen.consumed) /\ Fails(CloseResponse(x[cur]))
     \/ ~TooMany /\ Fails(CloseResponse(ReleaseResponse(x[cur])))

\* What was given for one origin is not carried to another.
Dropped_AuthOnly(r, to) ==  \* mutant: the caller's cookies go wherever the redirect leads
  IF r.origin = to THEN r ELSE [r EXCEPT !.auth = NoOrigin]
Dropped(r, to) == IF r.origin = to THEN r ELSE [r EXCEPT !.auth = NoOrigin, !.cookies = NoOrigin]

\* The next hop, to a URL that may hold credentials of its own.
Redirected(rewritten, to, own) ==
  /\ pc = "redirect" /\ Repeatable(rewritten)
  /\ req' = Auth([Dropped(req, to) EXCEPT !.origin = to, !.hops = @ + 1,
                                         !.data = IF rewritten THEN "none" ELSE @], own)
  /\ Leaves(ReleaseResponse(x[cur])) /\ pc' = "connect" /\ UNCHANGED <<gen, timer>>

\* A redirect without a location is the answer.
RedirectIsAnswer ==
  /\ pc = "redirect" /\ ~TooMany
  /\ pc' = "status" /\ req' = NoRequest /\ UNCHANGED <<cur, gen, x, timer>>

\* raise_for_status: the response's own method releases it, a caller's does not.
StatusRaises ==
  /\ pc = "status"
  /\ Fails(ReleaseResponse(x[cur])) \/ Fails(x[cur])

\* The timer is to stop with the connection, if there is one still.
StatusOk ==
  /\ pc = "status" /\ pc' = "ending"
  /\ Becomes(cur, [x[cur] EXCEPT !.timed = x[cur].conn])
  /\ timer' = IF x[cur].conn THEN timer ELSE "off"
  /\ UNCHANGED <<cur, req, gen>>

\* The trace callbacks at the end, and at a redirect: they return or raise.
Returns == pc = "ending" /\ pc' = "held" /\ UNCHANGED <<cur, req, gen, x, timer>>
TraceRaises == pc \in {"redirect", "ending"} /\ Fails(x[cur])
-----------------------------------------------------------------------------
(* The caller has the response.                                            *)

Done(e) == pc' = "done" /\ Leaves(e) /\ TimerAfter(cur, e) /\ UNCHANGED <<req, gen>>

\* read(): once the body is there, the writer is awaited.
ReadDone(e) ==
  IF ~e.upgraded /\ e.writer # "none"
  THEN pc' = "waiting" /\ UNCHANGED <<cur, req, gen>> /\ Exchange(cur, e)
  ELSE Done(IF e.upgraded THEN e ELSE ReleaseConnection(e))
Read ==
  /\ pc = "held"
  /\ CASE x[cur].answer = "eof" -> ReadDone(x[cur])
       [] x[cur].answer # "eof" /\ timer # "fired" ->
            pc' = "reading" /\ UNCHANGED <<cur, req, gen, x, timer>>
       [] OTHER -> Done(CloseResponse(x[cur]))
ReadEnds == pc = "reading" /\ x[cur].answer = "eof" /\ ReadDone(x[cur])
ReadFails == pc = "reading" /\ x[cur].failed /\ Done(CloseResponse(x[cur]))

Release == pc = "held" /\ Done(ReleaseResponse(x[cur]))
Close == pc = "held" /\ Done(CloseResponse(x[cur]))

\* __aexit__()
Exit ==
  /\ pc = "held" /\ pc' = "closing"
  /\ Exchange(cur, ReleaseResponse(x[cur])) /\ UNCHANGED <<cur, req, gen>>

\* _wait_released() and wait_for_close(): the writer is done.
WaitEnds ==
  /\ pc \in {"waiting", "closing"} /\ x[cur].writer = "none"
  /\ Done(IF pc = "waiting" THEN ReleaseConnection(x[cur]) ELSE ReleaseResponse(x[cur]))

\* The caller forgets the response.
Drop == pc = "held" /\ Done(x[cur])

\* Nothing refers to the response any more: __del__, of it or its connection.
Collect(c) ==
  /\ pc \in Over \/ c # cur
  /\ x[c].attached /\ x[c].conn /\ ~x[c].closed /\ x[c].writer \in {"none", "expect"}
  /\ Exchange(c, [CloseLease(x[c]) EXCEPT !.conn = FALSE, !.closed = TRUE, !.writer = "none", !.cancel = FALSE])
  /\ UNCHANGED <<pc, cur, req, gen>>

\* The task is cancelled at the await it is at.  The await of a task cancels
\* that task.
Interrupted ==
  CASE pc = "connect" -> pc' = "done" /\ timer' = "off" /\ req' = NoRequest /\ UNCHANGED <<cur, gen, x>>
    [] pc = "head" -> Fails(CloseResponse(x[cur]))
    [] pc \in {"redirect", "ending"} -> Fails(x[cur])
    [] pc = "reading" -> Done(CloseResponse(x[cur]))
    [] pc \in {"waiting", "closing"} -> Done(CleanupWriter(x[cur]))
Awaits == {"connect", "head", "redirect", "ending", "reading", "waiting", "closing"}
Cancel == pc \in Awaits /\ Interrupted

\* The total timeout: it cancels the task only in a block of its timer.
Timed == {"connect", "head", "redirect", "reading"}
TimerFires ==
  /\ timer = "armed"
  /\ IF pc \in Timed
     THEN IF pc = "reading"
          THEN /\ pc' = "done" /\ timer' = "fired"
               /\ Leaves(CloseResponse(x[cur])) /\ UNCHANGED <<req, gen>>
          ELSE Interrupted
     ELSE timer' = "fired" /\ UNCHANGED <<pc, cur, req, gen, x>>

-----------------------------------------------------------------------------
(* The writer task of an exchange: _write_bytes().                         *)

Writes(c) == x[c].writer = "write" /\ ~x[c].cancel

\* One chunk of the iterator.  Bytes are one write, when the writer starts.
WriteChunk(c) ==
  /\ Writes(c) /\ x[c].body = "gen" /\ gen.taken < Chunks /\ x[c].up
  /\ gen' = [gen EXCEPT !.taken = @ + 1]
  /\ Becomes(c, [x[c] EXCEPT !.sent = Append(@, gen.taken + 1)])
  /\ UNCHANGED <<pc, cur, req, timer>>

\* write_with_length() returns: write_eof(), which may have to drain.
WriteEof(c) ==
  /\ Writes(c) /\ (x[c].body = "gen" => gen.taken = Chunks)
  /\ gen' = [gen EXCEPT !.consumed = @ \/ x[c].body = "gen"]
  /\ \/ Becomes(c, [x[c] EXCEPT !.whole = TRUE, !.writer = "flush"]) /\ UNCHANGED timer
     \/ Exchange(c, WriterDone([x[c] EXCEPT !.whole = TRUE]))
  /\ UNCHANGED <<pc, cur, req>>
Flushed(c) ==
  /\ x[c].writer = "flush" /\ Exchange(c, WriterDone(x[c]))
  /\ UNCHANGED <<pc, cur, req, gen>>

\* The body raises, or the transport does: the exception is the protocol's.
WriteFails(c) ==
  /\ Writes(c) /\ Exchange(c, WriterDone([x[c] EXCEPT !.failed = TRUE]))
  /\ UNCHANGED <<pc, cur, req, gen>>

\* The writer is cancelled.  Inside write_with_length() it closes the
\* connection, and a cancelled iterator is exhausted.
WriterCancelled_Open(c) ==  \* mutant: the connection is not closed
  /\ x[c].cancel /\ UNCHANGED <<pc, cur, req, gen>> /\ Exchange(c, WriterDone(x[c]))
WriterCancelled(c) ==
  /\ x[c].cancel
  /\ Exchange(c, WriterDone(IF x[c].writer = "write" THEN CloseLease(x[c]) ELSE x[c]))
  /\ \/ UNCHANGED gen
     \/ (x[c].writer = "write" /\ x[c].body = "gen" /\ gen' = [gen EXCEPT !.taken = Chunks])
  /\ UNCHANGED <<pc, cur, req>>
-----------------------------------------------------------------------------
(* The server and the network.                                             *)

\* The head of an answer, whether or not the request was read.
AnswerHead(c) ==
  /\ x[c].lease = "leased" /\ x[c].up /\ x[c].answer = "none"
  /\ Becomes(c, [x[c] EXCEPT !.answer = "head"])
  /\ UNCHANGED <<pc, cur, req, gen, timer>>
AnswerEnd(c) ==
  /\ x[c].lease = "leased" /\ x[c].up /\ x[c].answer = "head"
  /\ LET e == [x[c] EXCEPT !.answer = "eof"]
     IN  Exchange(c, IF e.attached THEN ResponseEof(e) ELSE e)
  /\ UNCHANGED <<pc, cur, req, gen>>
Lose(c) ==
  /\ x[c].lease # "none" /\ x[c].up
  /\ Becomes(c, IF x[c].lease = "pool" THEN Fresh ELSE [x[c] EXCEPT !.up = FALSE, !.failed = TRUE])
  /\ UNCHANGED <<pc, cur, req, gen, timer>>
-----------------------------------------------------------------------------
TaskRuns ==
  \/ Started \/ StartFails \/ StatusRaises \/ StatusOk \/ Returns
  \/ RedirectFails \/ RedirectIsAnswer
  \/ (\E rewritten, own \in BOOLEAN, to \in Origins : Redirected(rewritten, to, own))

Task ==
  \/ ConnectFails \/ (\E c \in Conns : Connected(c)) \/ Continue \/ TaskRuns \/ TraceRaises
  \/ ReadEnds \/ ReadFails \/ WaitEnds
Caller ==
  \/ (\E d \in Bodies, idempotent, ex, total \in BOOLEAN : Request(d, idempotent, ex, total))
  \/ Read \/ Release \/ Close \/ Exit \/ Drop \/ Cancel
Writer(c) ==
  WriteChunk(c) \/ WriteEof(c) \/ Flushed(c) \/ WriteFails(c) \/ WriterCancelled(c)
Server(c) ==
  AnswerHead(c) \/ AnswerEnd(c) \/ Lose(c)

Next ==
  \/ Task \/ Caller \/ TimerFires
  \/ \E c \in Conns : Writer(c) \/ Server(c) \/ Collect(c)

Spec == Init /\ [][Next]_vars
-----------------------------------------------------------------------------
(* Properties.                                                             *)

\* Every variable has its type, and only a running writer is being cancelled.
TypeOK ==
  /\ pc \in {"idle", "status", "held", "done"} \cup Awaits /\ cur \in Conns \cup {NoConn}
  /\ timer \in {"off", "armed", "fired"} /\ gen.taken \in 0 .. Chunks /\ req.hops \in 0 .. MaxRedirects
  /\ (pc \notin {"idle", "connect", "done"} => cur # NoConn)
  /\ \A c \in Conns :
       /\ x[c].lease \in {"none", "pool", "leased"} /\ x[c].answer \in {"none", "head", "eof"}
       /\ x[c].writer \in {"none", "expect", "write", "flush"} /\ (x[c].cancel => x[c].writer # "none")

\* A connection goes back to the pool only when its request was written to the
\* end and its answer read to the end, whichever ended first, unless the server
\* never asked for the body (_response_eof, _release_connection, _write_bytes).
CleanReuse ==
  \A c \in Conns : x[c].lease = "pool" =>
    x[c].up /\ x[c].answer = "eof" /\ x[c].writer = "none" /\ (x[c].whole \/ ~x[c].asked)

\* Whatever the redirects, and the retry among them: a request carries only
\* credentials and cookies that were given for the origin it goes to, also when
\* it leaves that origin and comes back; and an origin that netrc has credentials
\* for gets some on every visit (the loop of _request).
CredentialsStay ==
  /\ {req.auth, req.cookies} \subseteq {req.origin, NoOrigin}
  /\ req.origin \in Netrc => req.auth = req.origin

\* The total timeout is not left armed by a request that is over: as long as it
\* is armed the task is in _request(), or a response will stop it (_request).
TimerIsOwned ==
  timer = "armed" => pc \notin Over \/ \E c \in Conns : x[c].timed /\ x[c].conn

\* A response that is closed gives up its connection by itself: it has, or its
\* writer is being stopped and will when it ends (_release_connection,
\* __reset_writer).
ClosedGivesUp ==
  \A c \in Conns : x[c].closed /\ x[c].lease = "leased" =>
    x[c].cancel /\ x[c].onDone /\ x[c].conn

\* A closed response, and a request that is over, have given up their connection
\* and their timer.
GivesUp == TypeOK /\ ClosedGivesUp /\ TimerIsOwned

\* What the comment in _write_bytes says of a body that has not been fully
\* sent: the connection cannot be reused.
UnsentIsNotReused == \A c \in Conns : x[c].lease = "pool" => x[c].whole

\* What the comment in _request says of a body that cannot be replayed: a
\* redirect fails rather than send less than the body.
RedirectReplays ==
  [][pc = "redirect" /\ pc' = "connect" /\ req'.data = "gen" => gen.taken = 0]_vars
=============================================================================
