--------------------------- MODULE RequestHandler ---------------------------
(***************************************************************************)
(* One server connection: RequestHandler of web_protocol.py with the       *)
(* request parser in front of it, the request bodies, the keep-alive timer *)
(* and the orderly shutdown of Server and BaseRunner.                      *)
(*                                                                         *)
(* The peer pipelines the requests of a script; start() takes them off the *)
(* queue one at a time, runs the handler, writes the response, reads what  *)
(* is left of the body and waits for the next.  Two conditions pause the   *)
(* transport, a full queue of requests and a full body buffer, and each is *)
(* undone by a reader that re-enters the parser; hence one record for the  *)
(* connection, with operators from record to record.                       *)
(*                                                                         *)
(* Abstractions: a request is a head and a number of body pieces with      *)
(* Content-Length; an unfinished head counts as not arrived.  Tasks are    *)
(* eager (Python 3.12).  Upgrades are left out.                            *)
(***************************************************************************)
EXTENDS Integers, Sequences, FiniteSets, SequencesExt

CONSTANTS
  Parsers,      \* subset of {"python", "extension"}
  Scripts,      \* sequences of requests [body, last, bad]
  MaxQueue,     \* MAX_MSG_QUEUE_SIZE
  Limit,        \* read_bufsize, in pieces
  Cancellation  \* Server.handler_cancellation

ASSUME ServerAssumption ==
  /\ Parsers \subseteq {"python", "extension"}
  /\ MaxQueue \in Nat \ {0} /\ Limit \in Nat \ {0}
  /\ Cancellation \in BOOLEAN
  /\ \A s \in Scripts :
       /\ s \in Seq([body : Nat, last : BOOLEAN, bad : BOOLEAN])
       /\ \A i \in DOMAIN s : s[i].last \/ s[i].bad => i = Len(s)
       /\ \A i \in DOMAIN s : s[i].bad => s[i].body = 0  \* its payload is EMPTY_PAYLOAD

VARIABLES
  parser,  \* the implementation of the parser
  script,  \* what the peer sends
  c        \* the connection

vars == <<parser, script, c>>

Requests == DOMAIN script

\* What the peer has sent when its i-th request is complete, in heads and pieces.
Sent[i \in 0..Len(script)] == IF i = 0 THEN 0 ELSE Sent[i - 1] + 1 + script[i].body
Wire == Sent[Len(script)]

Init ==
  /\ parser \in Parsers /\ script \in Scripts
  /\ c = [tr |-> "open",        \* the transport: "open", "closed" by us, "lost"
          attached |-> TRUE,    \* self.transport is not None
          tpaused |-> FALSE,    \* transport.pause_reading() is in effect
          rpaused |-> FALSE,    \* _reading_paused, for a body
          qpaused |-> FALSE,    \* _msg_queue_paused
          arrived |-> 0,        \* tokens received
          parsed |-> 0,         \* tokens the parser has consumed
          heads |-> 0, done |-> 0, \* requests begun and completed by the parser
          todo |-> 0,           \* body pieces of the current request to come
          inflight |-> 0,       \* _msg_in_flight of the parser
          ppaused |-> FALSE,    \* _paused of the parser
          stop |-> FALSE,       \* the parser stops for this feed
          failed |-> FALSE,     \* the parser met a malformed request
          new |-> <<>>,         \* messages of this feed
          msgs |-> <<>>,        \* _messages
          buf |-> [i \in Requests |-> 0], \* body pieces in the stream
          eof |-> [i \in Requests |-> script[i].body = 0],
          exc |-> [i \in Requests |-> "none"],
          wake |-> FALSE,       \* the future a body reader waits for is done
          waiter |-> "pending", \* _waiter of start(), which runs at once
          pc |-> "waiter",      \* where start() is
          cur |-> 0,            \* the request it handles
          h |-> "none",         \* where the task of that request is
          keep |-> FALSE,       \* keep_alive of its response
          keepalive |-> FALSE,  \* _keepalive
          timer |-> FALSE,      \* _keepalive_handle
          moved |-> FALSE,      \* _next_keepalive_close_time is later than the timer
          closing |-> FALSE, force |-> FALSE, \* _close and _force_close
          inprog |-> FALSE,     \* _request_in_progress
          hw |-> "none",        \* _handler_waiter
          task |-> TRUE,        \* _task_handler is not None
          cancel |-> FALSE,     \* start() has been cancelled and has not noticed
          answered |-> <<>>,    \* requests answered
          shut |-> "no"]        \* shutdown()
----------------------------------------------------------------------------
(* Pausing, the body stream, and the parser.                               *)

PauseTransport(s) == IF s.attached THEN [s EXCEPT !.tpaused = TRUE] ELSE s

\* Both reasons to pause must have gone.
ResumeTransport_OneReason(s) ==   \* mutant
  IF s.attached /\ ~s.rpaused THEN [s EXCEPT !.tpaused = FALSE] ELSE s
ResumeTransport(s) ==
  IF s.attached /\ ~s.rpaused /\ ~s.qpaused THEN [s EXCEPT !.tpaused = FALSE] ELSE s

\* StreamReader.feed_data()
FeedBody(s, n) ==
  LET fed == [s EXCEPT !.parsed = @ + n, !.todo = @ - n, !.buf[s.heads] = @ + n,
                       !.wake = @ \/ s.cur = s.heads]
  IN  IF fed.buf[s.heads] > 2 * Limit
      THEN PauseTransport([fed EXCEPT !.rpaused = TRUE, !.ppaused = TRUE]) ELSE fed

\* StreamReader.feed_eof() resumes the transport; EMPTY_PAYLOAD does nothing.
FeedEof(s) ==
  IF s.eof[s.heads] THEN s
  ELSE ResumeTransport([s EXCEPT !.eof[s.heads] = TRUE, !.rpaused = FALSE,
                                 !.wake = @ \/ s.cur = s.heads])

\* The extension looks at a pause after each piece, the Python parser does not
\* in a body with Content-Length.
AfterPiece(s) ==
  IF parser = "extension" /\ s.ppaused THEN [s EXCEPT !.ppaused = FALSE, !.stop = TRUE] ELSE s

\* The extension counts a request when it is complete, the Python parser when
\* its head is.
MessageComplete(s) ==
  LET fed == [FeedEof(s) EXCEPT !.done = @ + 1]
  IN  IF parser = "python" THEN fed
      ELSE [fed EXCEPT !.inflight = @ + 1, !.stop = s.inflight + 1 >= MaxQueue]

\* A malformed request raises: what was parsed before it in this feed is lost.
MessageHead(s) ==
  LET r == s.heads + 1
      head == [s EXCEPT !.parsed = @ + 1, !.heads = r, !.todo = script[r].body]
  IN  IF script[r].bad THEN [head EXCEPT !.new = <<r>>, !.failed = TRUE, !.stop = TRUE]
      ELSE [head EXCEPT !.new = Append(@, r), !.inflight = @ + IF parser = "python" THEN 1 ELSE 0]

QueueFull(s) == parser = "python" /\ s.inflight >= MaxQueue

\* One turn of the parser, if there is anything for it to do.
ParseTurn(s) ==
  LET left == s.arrived - s.parsed
  IN  CASE s.stop -> s
        [] ~s.stop /\ s.heads > s.done /\ s.todo = 0 -> MessageComplete(s)
        [] ~s.stop /\ s.heads > s.done /\ s.todo > 0 /\ left > 0 ->
             AfterPiece(FeedBody(s, IF left < s.todo THEN left ELSE s.todo))
        [] ~s.stop /\ s.heads = s.done /\ left > 0 /\ ~QueueFull(s) -> MessageHead(s)
        [] OTHER -> s

\* It takes turns until there is not: every head and piece that is left is good
\* for two turns at most, and the request that is being parsed for one more.
Turns(s) == 2 * (s.arrived - s.parsed) + s.heads - s.done
Parse(s) ==
  LET after[n \in 0..Turns(s)] == IF n = 0 THEN s ELSE ParseTurn(after[n - 1])
  IN  after[Turns(s)]

\* HttpParser.feed_data(); after an error the extension repeats it.
ParserFeed(s) ==
  LET clear == [s EXCEPT !.new = <<>>, !.stop = FALSE]
  IN  IF ~s.failed THEN Parse(clear)
      ELSE IF parser = "extension" THEN [clear EXCEPT !.new = <<s.heads>>] ELSE clear

Enqueue_Front(s) == [s EXCEPT !.msgs = s.new \o @, !.new = <<>>]   \* mutant
Enqueue(s) == [s EXCEPT !.msgs = @ \o s.new, !.new = <<>>]

\* data_received(), with no new data when called to resume.
DataReceived(s) ==
  IF s.force \/ s.closing THEN s
  ELSE LET fed == ParserFeed(s)
           queued == [Enqueue(fed) EXCEPT !.stop = FALSE,
                        !.waiter = IF fed.new # <<>> /\ @ = "pending" THEN "set" ELSE @]
       IN  IF ~queued.qpaused /\ Len(queued.msgs) >= MaxQueue
           THEN PauseTransport([queued EXCEPT !.qpaused = TRUE]) ELSE queued

\* BaseProtocol.resume_reading(), called by a reader of the body.
ResumeReading(s) == ResumeTransport(DataReceived([s EXCEPT !.rpaused = FALSE]))

ResumeMsgQueueReading_NoReparse(s) ==   \* mutant: the parser's tail is forgotten
  ResumeTransport([s EXCEPT !.qpaused = FALSE])
ResumeMsgQueueReading(s) ==
  LET fed == DataReceived(s)
  IN  IF Len(fed.msgs) >= MaxQueue THEN fed ELSE ResumeTransport([fed EXCEPT !.qpaused = FALSE])
----------------------------------------------------------------------------
(* start()                                                                 *)

CancelWaiter(s) == IF s.waiter = "pending" THEN [s EXCEPT !.waiter = "cancelled"] ELSE s
Close(s) == CancelWaiter([s EXCEPT !.closing = TRUE])
ForceClose(s) ==
  LET forced == CancelWaiter([s EXCEPT !.force = TRUE])
  IN  IF s.attached THEN [forced EXCEPT !.attached = FALSE, !.tr = "closed"] ELSE forced

Ended(s) == [s EXCEPT !.pc = "ended", !.h = "none", !.cur = 0, !.wake = FALSE, !.cancel = FALSE]

Exit_Open(s) == [Ended(s) EXCEPT !.task = s.force]   \* mutant: the transport stays open
\* After the loop: the transport is closed in order.
Exit(s) ==
  IF s.force THEN Ended(s)
  ELSE [Ended(s) EXCEPT !.task = FALSE, !.tr = IF s.attached THEN "closed" ELSE @]

\* A cancellation ends start(); in the body of the loop it also closes.
Cancelled(s) == Ended(ForceClose(s))

\* Takes a request off the queue and starts its task.  A malformed one has its
\* response already.
BeginRequest(s) ==
  LET r == Head(s.msgs)
      popped == [s EXCEPT !.msgs = Tail(@), !.inflight = IF @ > 0 THEN @ - 1 ELSE 0]
      fed == IF s.qpaused /\ Len(popped.msgs) <= MaxQueue \div 2
             THEN ResumeMsgQueueReading(popped) ELSE popped
  IN  [fed EXCEPT !.pc = "handler", !.cur = r, !.inprog = TRUE, !.wake = FALSE, !.keep = FALSE,
                  !.h = IF script[r].bad THEN "writing" ELSE "running"]

\* The end of the loop's body, and its next turn.
ArmTimer(s) == [s EXCEPT !.timer = TRUE, !.moved = s.timer]

NextTurn(s) ==
  LET idle == [s EXCEPT !.h = "none", !.cur = 0, !.wake = FALSE]
  IN  IF ~s.keepalive \/ s.closing \/ s.force THEN Exit(s)
      ELSE LET armed == ArmTimer(idle)
           IN  IF armed.msgs # <<>> THEN BeginRequest(armed)
               ELSE [armed EXCEPT !.pc = "waiter", !.waiter = "pending"]

\* A body that was not read to its end closes the connection.
AfterBody(s) ==
  LET body == IF ~s.eof[s.cur] /\ ~s.force THEN Close(s) ELSE s
  IN  NextTurn([body EXCEPT !.exc[s.cur] = "access"])
----------------------------------------------------------------------------
(* Actions                                                                 *)

Step(s) == c' = s /\ UNCHANGED <<parser, script>>

Receive(n) ==
  /\ c.tr = "open" /\ c.attached /\ ~c.tpaused
  /\ c.arrived + n <= Wire
  /\ Step(DataReceived([c EXCEPT !.arrived = @ + n]))

\* start() wakes from the wait for a request.
StartWakes ==
  /\ c.pc = "waiter" /\ c.waiter \in {"set", "cancelled"}
  /\ LET s == [c EXCEPT !.waiter = "none"]
     IN  Step(IF c.waiter = "cancelled" \/ c.cancel THEN Ended(s) ELSE BeginRequest(s))

\* The handler reads the body: what is there, or it waits.
TakeBody(s) == ResumeReading([s EXCEPT !.buf[s.cur] = 0, !.wake = FALSE])
Raises(s) == s.exc[s.cur] # "none"

HandlerReads ==
  /\ c.h = "running" /\ ~Raises(c)
  /\ c.buf[c.cur] > 0 \/ ~c.eof[c.cur]
  /\ c.attached \/ c.buf[c.cur] > 0
  /\ Step(IF c.buf[c.cur] > 0 THEN TakeBody(c) ELSE [c EXCEPT !.h = "reading", !.wake = FALSE])

ReadWakes ==
  /\ c.h = "reading" /\ c.wake /\ ~c.cancel
  /\ Step(IF Raises(c) \/ c.buf[c.cur] = 0 THEN [c EXCEPT !.h = "running", !.wake = FALSE]
          ELSE [TakeBody(c) EXCEPT !.h = "running"])

\* The handler returns a response, or raises and an error response is made;
\* then the response is written.
HandlerReturns(keep) ==
  /\ c.h = "running"
  /\ Step([c EXCEPT !.h = "writing", !.keep = keep /\ ~script[c.cur].last])

\* The end of the task: the finally clause of _handle_request.
TaskEnds_InProgress(s, result) ==   \* mutant: shutdown() would wait for a task that is done
  [s EXCEPT !.hw = IF @ = "pending" THEN "set" ELSE @, !.h = result]
TaskEnds(s, result) ==
  [s EXCEPT !.inprog = FALSE, !.hw = IF @ = "pending" THEN "set" ELSE @,
            !.h = IF s.hw = "cancelled" THEN "error" ELSE result]

ResponseWritten ==
  /\ c.h = "writing" /\ ~c.cancel
  /\ Step(IF c.attached THEN TaskEnds([c EXCEPT !.answered = Append(@, c.cur)], "ok")
          ELSE TaskEnds(c, "reset"))

\* An error after part of a response has been sent.
HandlerAborts == c.h = "running" /\ Step(TaskEnds(c, "reset"))

\* CancelledError reaches the task, from start() or from the body; a handler
\* may catch it.
TaskCancelled ==
  /\ \/ c.h \in {"running", "reading"} /\ (c.cancel \/ c.exc[c.cur] = "cancel")
     \/ c.h = "writing" /\ c.cancel
  /\ Step(TaskEnds([c EXCEPT !.cancel = FALSE], "cancelled"))

CancelCaught ==
  /\ c.h \in {"running", "reading"} /\ c.cancel
  /\ Step([c EXCEPT !.cancel = FALSE, !.h = "running"])

\* start() wakes when the task is done.
StartResumes ==
  /\ c.pc = "handler" /\ c.h \in {"ok", "reset", "error", "cancelled"}
  /\ LET s == [c EXCEPT !.keepalive = c.keep]
     IN Step(CASE c.cancel \/ c.h = "cancelled" -> Cancelled(c)
               [] ~c.cancel /\ c.h = "error" -> Exit(ForceClose(c))
               [] ~c.cancel /\ c.h = "reset" -> Exit(c)
               [] OTHER -> IF c.eof[c.cur] THEN NextTurn([s EXCEPT !.exc[c.cur] = "access"])
                           ELSE IF c.force THEN AfterBody(s)
                           ELSE [s EXCEPT !.pc = "linger", !.h = "none", !.wake = FALSE])

\* Lingering: reads and drops the rest of the body, until a timeout.
LingerReads ==
  /\ c.pc = "linger" /\ ~c.cancel
  /\ c.eof[c.cur] \/ c.buf[c.cur] > 0
  /\ Step(IF c.eof[c.cur] THEN AfterBody(c) ELSE TakeBody(c))
LingerTimeout == c.pc = "linger" /\ ~c.cancel /\ Step(AfterBody(c))
LingerCancelled == c.pc = "linger" /\ c.cancel /\ Step(Cancelled(c))

\* _process_keepalive(), perhaps late: the time it was moved to has passed too.
KeepAliveExpires_Busy(late) ==      \* mutant: a request that has just arrived is not noticed
  /\ c.timer
  /\ LET s == [c EXCEPT !.timer = FALSE, !.moved = FALSE]
     IN  Step(IF c.force \/ ~c.keepalive THEN s
              ELSE IF c.moved /\ ~late THEN [s EXCEPT !.timer = TRUE]
              ELSE IF c.waiter # "none" THEN ForceClose(s) ELSE s)
KeepAliveExpires(late) ==
  /\ c.timer
  /\ LET s == [c EXCEPT !.timer = FALSE, !.moved = FALSE]
     IN  Step(IF c.force \/ ~c.keepalive THEN s
              ELSE IF c.moved /\ ~late THEN [s EXCEPT !.timer = TRUE]
              ELSE IF c.waiter = "pending" THEN ForceClose(s) ELSE s)

\* set_exception() of a request body
FailBody(s, exc) ==
  IF s.h \in {"running", "reading"} /\ script[s.cur].body > 0
  THEN [s EXCEPT !.exc[s.cur] = exc, !.wake = TRUE] ELSE s

\* connection_lost().  A task that was woken runs before it: it is scheduled
\* by a later callback of the event loop.
ConnectionLost ==
  /\ c.tr # "lost" /\ c.waiter # "set"
  /\ LET closed == [ForceClose(c) EXCEPT !.tr = "lost", !.timer = FALSE]
         failed == FailBody(closed, "lost")
     IN  Step([failed EXCEPT !.task = FALSE, !.cancel = @ \/ (Cancellation /\ c.task /\ c.pc # "ended")])

\* BaseRunner.cleanup(): Server.pre_shutdown(), later Server.shutdown().
PreShutdown == c.shut = "no" /\ Step([Close(c) EXCEPT !.shut = "pre"])

Listed == c.tr # "lost" \/ c.pc # "ended"  \* in Server._connections

ShutdownBegins ==
  /\ c.shut = "pre" /\ Listed
  /\ Step([c EXCEPT !.force = TRUE, !.timer = FALSE, !.hw = IF c.inprog THEN "pending" ELSE "none",
                    !.shut = IF c.inprog THEN "graceful" ELSE "cancel"])

\* The handler is done, or the timeout cancels the wait, which shutdown()
\* learns in a later turn.
GracefulTimeout == c.shut = "graceful" /\ c.hw = "pending" /\ Step([c EXCEPT !.hw = "cancelled"])
GracefulEnds ==
  /\ c.shut = "graceful" /\ c.hw \in {"set", "cancelled"}
  /\ Step([c EXCEPT !.hw = IF @ = "cancelled" THEN "none" ELSE @, !.shut = "cancel"])

ShutdownCancels == c.shut = "cancel" /\ Step([FailBody(c, "cancel") EXCEPT !.shut = "wait"])

\* start() is done, or has had its time.
ShutdownEnds ==
  /\ c.shut = "wait"
  /\ Step([ForceClose(c) EXCEPT !.shut = "done", !.cancel = @ \/ (c.task /\ c.pc # "ended")])

Start == StartWakes \/ StartResumes \/ LingerReads \/ LingerTimeout \/ LingerCancelled
Task ==
  \/ HandlerReads \/ ReadWakes \/ ResponseWritten \/ HandlerAborts \/ TaskCancelled \/ CancelCaught
  \/ \E keep \in BOOLEAN : HandlerReturns(keep)
Shutdown ==
  PreShutdown \/ ShutdownBegins \/ GracefulTimeout \/ GracefulEnds \/ ShutdownCancels \/ ShutdownEnds

Next ==
  \/ \E n \in 1..Wire : Receive(n)
  \/ Start \/ Task \/ Shutdown
  \/ \E late \in BOOLEAN : KeepAliveExpires(late)
  \/ ConnectionLost

Spec == Init /\ [][Next]_vars
----------------------------------------------------------------------------
(* Properties                                                              *)

Connections ==
  [tr : {"open", "closed", "lost"}, attached : BOOLEAN, tpaused : BOOLEAN, rpaused : BOOLEAN, qpaused : BOOLEAN,
   arrived : Nat, parsed : Nat, heads : Nat, done : Nat, todo : Nat, inflight : Nat, ppaused : BOOLEAN,
   stop : BOOLEAN, failed : BOOLEAN, new : Seq(Requests), msgs : Seq(Requests),
   buf : [Requests -> Nat], eof : [Requests -> BOOLEAN], exc : [Requests -> {"none", "access", "lost", "cancel"}],
   wake : BOOLEAN, waiter : {"none", "pending", "set", "cancelled"}, pc : {"waiter", "handler", "linger", "ended"},
   cur : Requests \cup {0}, h : {"none", "running", "reading", "writing", "ok", "reset", "error", "cancelled"},
   keep : BOOLEAN, keepalive : BOOLEAN, timer : BOOLEAN, moved : BOOLEAN, closing : BOOLEAN, force : BOOLEAN,
   inprog : BOOLEAN, hw : {"none", "pending", "set", "cancelled"}, task : BOOLEAN, cancel : BOOLEAN,
   answered : Seq(Requests), shut : {"no", "pre", "graceful", "cancel", "wait", "done"}]

\* Type correctness, with where start() and the request's task can be together.
TypeOK ==
  /\ c \in Connections
  /\ c.pc = "waiter" <=> c.waiter # "none"
  /\ c.pc \in {"handler", "linger"} <=> c.cur # 0
  /\ c.inprog <=> c.h \in {"running", "reading", "writing"}
  /\ c.parsed <= c.arrived /\ c.done <= c.heads /\ c.heads <= c.done + 1
  /\ c.new = <<>> /\ ~c.stop

Alive == c.tr = "open" /\ c.attached /\ ~c.force

\* Responses come in the order of the requests, each once and with none left
\* out, whatever is pipelined; only the response to a malformed request may
\* overtake those that came with it.
InOrder ==
  \A i \in DOMAIN c.answered :
    \/ c.answered[i] = i
    \/ script[c.answered[i]].bad /\ i = Len(c.answered) /\ i <= c.answered[i]

\* The transport is paused exactly for one of the two reasons, however the
\* two readers that undo them interleave and re-enter each other.
PausedForAReason == Alive => (c.tpaused <=> c.rpaused \/ c.qpaused)

\* Something on this connection waits for the peer.
WaitsForRequest == c.pc = "waiter" /\ c.waiter = "pending"
WaitsForBody ==
  /\ c.h = "reading" \/ c.pc = "linger"
  /\ ~c.wake /\ c.buf[c.cur] = 0 /\ ~c.eof[c.cur] /\ ~Raises(c)

\* Whoever waits for the peer has been given all that arrived, and the transport
\* is read for more.  Not while closing, see BodyWhileClosing; and not when the
\* parser counts requests as queued that are not, see NoRequestStuck.  (A parser
\* that has failed has a last message for start(), which does not wait then.)
NothingWithheld ==
  Alive /\ ~c.closing =>
    /\ WaitsForRequest \/ WaitsForBody => ~c.tpaused
    /\ WaitsForRequest => c.msgs = <<>> /\ (c.parsed = c.arrived \/ c.inflight > 0)
    /\ WaitsForBody => c.parsed = c.arrived

\* "reading resumes as the queue drains": a server that waits for a request has
\* none in its hands.
NoRequestStuck == Alive /\ ~c.closing /\ WaitsForRequest /\ ~c.failed => c.parsed = c.arrived

\* "set active ones to close upon completion" (docs/web_advanced.rst): a handler
\* that runs when the shutdown begins gets the rest of its request's body.  The
\* code breaks it: data_received() drops what arrives after close().
BodyWhileClosing == Alive /\ c.shut = "pre" /\ WaitsForBody => c.parsed = c.arrived

\* When start() has ended nobody serves the connection, and it is closed, however
\* start() ended; only what ends during a shutdown is left for its end to close.
EndedIsClosed == c.pc = "ended" /\ c.tr = "open" => c.shut \notin {"no", "done"}

\* Responses come in the order of the requests, and nobody leaves a connection
\* open that is no longer served.
OrderKept == TypeOK /\ InOrder /\ EndedIsClosed

\* Reading is paused for a reason, and whoever waits for the peer has been given
\* all that it sent.
Fed == PausedForAReason /\ NothingWithheld

\* Until a shutdown runs out of time, the server never closes a connection with
\* a request in its hands: one that is handled, or that has just been received
\* when the keep-alive timer expires.
ClosesIdle == c.tr = "open" /\ c'.tr = "closed" /\ c'.shut # "done" => ~c.inprog /\ c.waiter # "set"
ClosesNothingInHand == [][ClosesIdle]_vars
=============================================================================
