--------------------------- MODULE ClientWebSocket ---------------------------
(***************************************************************************)
(* The client's WebSocket: ClientWebSocketResponse of aiohttp/client_ws.py *)
(* with its receive(), close() and heartbeat, over the message queue       *)
(* WebSocketDataQueue of aiohttp/_websocket/reader_py.py.                  *)
(*                                                                         *)
(* A task of Tasks calls receive() or close(), any number of times.  A     *)
(* call runs until it awaits something: cpu is the task that is running,   *)
(* and everything else happens when there is none.                         *)
(*                                                                         *)
(* Abstractions: a message is its type, and a read from the socket holds   *)
(* one message.  send_frame() of WebSocketWriter returns at once, or later *)
(* (when it has to drain), or raises.  A timer may fire at any time it is  *)
(* armed.  "ping" is a ping or a pong: autoping is on.  A ping of the       *)
(* heartbeat that has to drain has done so before the next one is sent.    *)
(***************************************************************************)
EXTENDS Integers, Sequences, FiniteSets, SequencesExt

CONSTANTS
  Tasks,    \* tasks that call receive() and close()
  NoTask,   \* "no task"
  Limit,    \* _limit of the queue, in messages
  Uses      \* ways to use a socket: whether autoclose and heartbeat= are given, the
            \* tasks that call, and those of them whose receive() may be cancelled
            \* or time out, and close() cancelled

ASSUME ClientAssumption ==
  /\ NoTask \notin Tasks /\ Limit \in Nat \ {0}
  /\ Uses \subseteq [autoclose : BOOLEAN, heartbeat : BOOLEAN,
                     callers : SUBSET Tasks, cancellable : SUBSET Tasks]

VARIABLES
  use,   \* how the socket is used: _autoclose, _heartbeat, and by which tasks
  ws,    \* the response: flags, close code, transport, CLOSE frames sent
  queue, \* WebSocketDataQueue: messages, eof, exception, waiter, reading paused
  hb,    \* the heartbeat: timers, deferred reset, whether a ping task is running
  pc,    \* where each task is
  fut,   \* the future each task awaits: "none", "pending", "done", "failed" (has
         \* the queue's exception) or "cancelled"
  cpu,   \* the task that is running
  ready  \* woken tasks, in the order the event loop resumes them

taskVars == <<pc, fut, cpu>>
vars == <<use, ws, queue, hb, taskVars, ready>>

Closers == {"close", "closeWait", "closeSend", "closeWrite", "closeNext", "closeMore",
            "closeRead", "closeGot"}

Init ==
  /\ use \in Uses
  /\ ws = [closed |-> FALSE, closing |-> FALSE, code |-> "none", waiting |-> FALSE,
           closeWait |-> NoTask, transport |-> "open", closeFrames |-> 0]
  /\ queue = [buffer |-> <<>>, eof |-> FALSE, exception |-> "none", waiter |-> NoTask, paused |-> FALSE]
  /\ hb = [timer |-> use.heartbeat, stale |-> FALSE, reset |-> FALSE, pong |-> FALSE, ping |-> FALSE]
  /\ pc = [t \in Tasks |-> "idle"] /\ fut = [t \in Tasks |-> "none"]
  /\ cpu = NoTask /\ ready = <<>>
-----------------------------------------------------------------------------
(* Heartbeat.                                                              *)

\* _cancel_heartbeat(): the timers, the deferred reset and the ping task.
CancelHeartbeat(h) ==
  [timer |-> FALSE, stale |-> FALSE, reset |-> FALSE, pong |-> FALSE, ping |-> FALSE]

ResetHeartbeat_NoTimer(h) == [h EXCEPT !.pong = FALSE]  \* mutant: the timer is not armed

\* _reset_heartbeat(): a timer that is armed is left, and becomes too early.
ResetHeartbeat(h) ==
  [h EXCEPT !.pong = FALSE, !.timer = TRUE, !.stale = h.timer]

SetClosed(w) == [w EXCEPT !.closed = TRUE]
SetClosing(w) == [w EXCEPT !.closing = TRUE]

\* response.close()
CloseResponse(w) == [w EXCEPT !.transport = IF @ = "open" THEN "closing" ELSE @]
Abnormal(w) == CloseResponse([w EXCEPT !.code = "abnormal"])
-----------------------------------------------------------------------------
(* WebSocketDataQueue.                                                     *)

\* _release_waiter() of the queue q, or its exception.
Released(q, how) ==
  [t \in Tasks |-> IF t = q.waiter /\ fut[t] = "pending" THEN how ELSE fut[t]]

\* feed_data(); internal messages have no size.
Size(q) == Cardinality({i \in DOMAIN q.buffer : q.buffer[i] \notin {"closing", "error"}})
Fed(q, msg) ==
  LET all == [q EXCEPT !.buffer = Append(@, msg), !.waiter = NoTask]
  IN  [all EXCEPT !.paused = @ \/ Size(all) > Limit]

\* A message is taken, and reading resumes below the limit.
Popped(q) ==
  LET rest == [q EXCEPT !.buffer = Tail(@)]
  IN  [rest EXCEPT !.paused = @ /\ Size(rest) >= Limit]

\* What the read of the task t finds in the queue, a message or the exception
\* it raises, and the queue after it.
Found(t) ==
  CASE fut[t] = "failed" -> "protocol"
    [] fut[t] # "failed" /\ queue.buffer # <<>> -> Head(queue.buffer)
    [] fut[t] # "failed" /\ queue.buffer = <<>> /\ queue.exception # "none" -> queue.exception
    [] OTHER -> "eof"
Taken(t) == IF fut[t] = "failed" \/ queue.buffer = <<>> THEN queue ELSE Popped(queue)

\* reader.read(): the task goes on at got, at once or when its future at
\* wait is done.
Read(t, wait, got) ==
  IF queue.buffer # <<>> \/ queue.eof
  THEN /\ pc' = [pc EXCEPT ![t] = got] /\ cpu' = t
       /\ UNCHANGED <<queue, fut>>
  ELSE /\ queue' = [queue EXCEPT !.waiter = t]
       /\ pc' = [pc EXCEPT ![t] = wait] /\ fut' = [fut EXCEPT ![t] = "pending"]
       /\ cpu' = NoTask
-----------------------------------------------------------------------------
(* Tasks.                                                                  *)

Idle == cpu = NoTask
Running(t, at) == pc[t] = at /\ cpu = t
Resumes(t, at) == pc[t] = at /\ Idle /\ ready # <<>> /\ Head(ready) = t
Woken(t, at) == Resumes(t, at) /\ fut[t] = "done"
Cancelled(t, at) == Resumes(t, at) /\ fut[t] = "cancelled"
Answered(t, at) == Resumes(t, at) /\ fut[t] \in {"done", "failed"}

\* A task whose future is done is put behind those that are ready.
Schedule ==
  LET over(t) == fut'[t] \in {"done", "failed", "cancelled"}
  IN  ready' = SelectSeq(ready, over) \o SetToSeq({t \in Tasks : fut[t] = "pending" /\ over(t)})

\* The task t goes on at the step at; it leaves its call at "idle".
\* Other futures may have changed as well.
GoWith(t, at, futures) ==
  /\ pc' = [pc EXCEPT ![t] = at]
  /\ fut' = [futures EXCEPT ![t] = "none"]
  /\ cpu' = IF at = "idle" THEN NoTask ELSE t

Go(t, at) == GoWith(t, at, fut)

\* t awaits the future of the step at.
Await(t, at) ==
  /\ pc' = [pc EXCEPT ![t] = at]
  /\ fut' = [fut EXCEPT ![t] = "pending"]
  /\ cpu' = NoTask

\* An idle task may call receive() or close(), which starts at the step at;
\* once the socket is closed and nobody is reading, both return at once.
Calls(t, at) == Running(t, at) \/ (Idle /\ t \in use.callers /\ pc[t] = "idle" /\ (ws.waiting \/ ~ws.closed))
-----------------------------------------------------------------------------
(* receive()                                                               *)

\* The head of the loop: RuntimeError, CLOSED, close() and CLOSED, or a read.
Receive_AnyNumber(t) ==  \* mutant: receive() may be called by two tasks
  /\ Calls(t, "receive") /\ ~ws.closed /\ ~ws.closing
  /\ ws' = [ws EXCEPT !.waiting = TRUE]
  /\ Read(t, "read", "got")
  /\ UNCHANGED <<use, hb>>

ReceiveRefused(t) ==
  /\ Running(t, "receive") /\ (ws.waiting \/ ws.closed)
  /\ Go(t, "idle") /\ UNCHANGED <<use, ws, queue, hb>>

ReceiveCloses(t) ==
  /\ Calls(t, "receive") /\ ~ws.waiting /\ ~ws.closed /\ ws.closing
  /\ pc' = [pc EXCEPT ![t] = "close"] /\ cpu' = t
  /\ UNCHANGED <<use, ws, queue, hb, fut>>

Receive(t) ==
  /\ Calls(t, "receive") /\ ~ws.waiting /\ ~ws.closed /\ ~ws.closing
  /\ ws' = [ws EXCEPT !.waiting = TRUE]
  /\ Read(t, "read", "got")
  /\ UNCHANGED <<use, hb>>

\* The finally clause of the read: who waits to close may go on.
NotWaiting_Kept(w) == [w EXCEPT !.closeWait = NoTask]  \* mutant: an exception skips it
NotWaiting(w) == [w EXCEPT !.waiting = FALSE, !.closeWait = NoTask]
CloserWoken_Never == fut  \* mutant: who waits to close is not woken
CloserWoken ==
  [t \in Tasks |-> IF ws.closeWait = t /\ pc[t] = "closeWait" /\ fut[t] = "pending"
                   THEN "done" ELSE fut[t]]

\* What the code of a received CLOSE leaves in _close_code: 0, of a CLOSE
\* without a code, is falsy like None.
PeerCodes == {"peer", "none"}

\* The read has a message or an exception for receive().
Got(t) ==
  /\ Running(t, "got") \/ Answered(t, "read")
  /\ queue' = Taken(t)
  /\ UNCHANGED use
  /\ LET w == NotWaiting(ws)
         msg == Found(t)
         go(at) == GoWith(t, at, CloserWoken)
     IN  CASE msg \in {"text", "error"} -> ws' = w /\ UNCHANGED hb /\ go("idle")
           [] msg = "ping" -> ws' = w /\ UNCHANGED hb /\ go("pong")
           [] msg = "close" ->
                /\ \E code \in PeerCodes : ws' = SetClosing([w EXCEPT !.code = code])
                /\ hb' = CancelHeartbeat(hb)
                /\ go(IF ~ws.closed /\ use.autoclose THEN "close" ELSE "idle")
           [] msg = "closing" ->
                ws' = SetClosing(w) /\ hb' = CancelHeartbeat(hb) /\ go("idle")
           [] msg \in {"eof", "protocol"} ->
                /\ ws' = [w EXCEPT !.code = IF msg = "eof" THEN "ok" ELSE "protocol"]
                /\ UNCHANGED hb /\ go("close")

\* The read was cancelled, or receive_timeout has expired.
GotCancelled(t) ==
  /\ Cancelled(t, "read")
  /\ queue' = [queue EXCEPT !.waiter = NoTask]
  /\ ws' = [NotWaiting(ws) EXCEPT !.code = "abnormal"]
  /\ GoWith(t, "idle", CloserWoken)
  /\ UNCHANGED <<use, hb>>

\* A ping is answered, then receive() loops; the pong may have to drain.
Pong(t) ==
  /\ Running(t, "pong")
  /\ \/ Go(t, "receive")
     \/ ws.transport = "open" /\ Await(t, "pongWrite")
     \/ ws.transport # "open" /\ Go(t, "idle")
  /\ UNCHANGED <<use, ws, queue, hb>>

PongWritten(t) ==
  /\ \/ Woken(t, "pongWrite") /\ Go(t, "receive")
     \/ /\ Cancelled(t, "pongWrite") \/ (Woken(t, "pongWrite") /\ ws.transport = "lost")
        /\ Go(t, "idle")
  /\ UNCHANGED <<use, ws, queue, hb>>
-----------------------------------------------------------------------------
(* close()                                                                 *)

\* close() first breaks a receive() of another task ...
CloseBreaksReceive(t) ==
  /\ Calls(t, "close") /\ ws.waiting /\ ~ws.closing
  /\ ws' = [SetClosing(ws) EXCEPT !.closeWait = t]
  /\ hb' = CancelHeartbeat(hb)
  /\ queue' = Fed(queue, "closing")
  /\ pc' = [pc EXCEPT ![t] = "closeWait"]
  /\ fut' = [Released(queue, "done") EXCEPT ![t] = "pending"]
  /\ cpu' = NoTask /\ UNCHANGED use

CloseDirect(t) ==
  /\ \/ Calls(t, "close") /\ ~(ws.waiting /\ ~ws.closing)
     \/ Woken(t, "closeWait")
  /\ Go(t, "closeSend") /\ UNCHANGED <<use, ws, queue, hb>>

CloseWaitCancelled(t) ==
  /\ Cancelled(t, "closeWait")
  /\ Go(t, "idle") /\ UNCHANGED <<use, ws, queue, hb>>

\* ... returns if another call was faster ...
CloseTwice(t) ==
  /\ Running(t, "closeSend") /\ ws.closed
  /\ Go(t, "idle") /\ UNCHANGED <<use, ws, queue, hb>>

\* ... sends CLOSE, at once or with a drain ...
CloseSends_Unmarked(t) ==  \* mutant: the response is marked closed too late
  /\ Running(t, "closeSend") /\ ~ws.closed /\ ws.transport = "open"
  /\ ws' = [ws EXCEPT !.closeFrames = @ + 1]
  /\ Await(t, "closeWrite")
  /\ UNCHANGED <<use, queue, hb>>

CloseSends(t) ==
  /\ Running(t, "closeSend") /\ ~ws.closed /\ ws.transport = "open"
  /\ ws' = SetClosed([ws EXCEPT !.closeFrames = @ + 1])
  /\ hb' = CancelHeartbeat(hb)
  /\ Go(t, "closeNext") \/ Await(t, "closeWrite")
  /\ UNCHANGED <<use, queue>>

CloseFails(t) ==
  /\ Running(t, "closeSend") /\ ~ws.closed /\ ws.transport # "open"
  /\ ws' = Abnormal(SetClosed(ws)) /\ hb' = CancelHeartbeat(hb)
  /\ Go(t, "idle") /\ UNCHANGED <<use, queue>>

CloseWritten(t) ==
  /\ \/ Woken(t, "closeWrite") /\ Go(t, "closeNext") /\ UNCHANGED ws
     \/ /\ Cancelled(t, "closeWrite") \/ (Woken(t, "closeWrite") /\ ws.transport = "lost")
        /\ Go(t, "idle") /\ ws' = Abnormal(ws)
  /\ UNCHANGED <<use, queue, hb>>

\* ... and, unless the peer's code is known, reads up to the peer's CLOSE.
CloseDone(t) ==
  /\ Running(t, "closeNext") /\ ws.code # "none"
  /\ ws' = CloseResponse(ws)
  /\ Go(t, "idle") /\ UNCHANGED <<use, queue, hb>>

CloseReads(t) ==
  /\ Running(t, "closeNext") /\ ws.code = "none"
  /\ Read(t, "closeRead", "closeGot")
  /\ UNCHANGED <<use, ws, hb>>

CloseReadsOn(t) ==
  /\ Running(t, "closeMore")
  /\ Read(t, "closeRead", "closeGot")
  /\ UNCHANGED <<use, ws, hb>>

CloseGot(t) ==
  /\ Running(t, "closeGot") \/ Answered(t, "closeRead")
  /\ queue' = Taken(t)
  /\ \/ /\ Found(t) = "close"
        /\ \E code \in PeerCodes : ws' = CloseResponse([ws EXCEPT !.code = code])
        /\ Go(t, "idle")
     \/ Found(t) \in {"eof", "protocol"} /\ ws' = Abnormal(ws) /\ Go(t, "idle")
     \/ Found(t) \in {"text", "ping", "closing", "error"} /\ UNCHANGED ws /\ Go(t, "closeMore")
  /\ UNCHANGED <<use, hb>>

\* The read was cancelled, or ws_close has expired.
CloseReadCancelled_KeepsOpen(t) ==  \* mutant
  /\ Cancelled(t, "closeRead")
  /\ queue' = [queue EXCEPT !.waiter = NoTask]
  /\ ws' = [ws EXCEPT !.code = "abnormal"]
  /\ Go(t, "idle") /\ UNCHANGED <<use, hb>>

CloseReadCancelled(t) ==
  /\ Cancelled(t, "closeRead")
  /\ queue' = [queue EXCEPT !.waiter = NoTask]
  /\ ws' = Abnormal(ws)
  /\ Go(t, "idle") /\ UNCHANGED <<use, hb>>
-----------------------------------------------------------------------------
(* What happens to a task that is suspended.                               *)

Abort(t) ==
  /\ Idle /\ fut[t] \in {"pending", "done", "failed"}
  /\ fut' = [fut EXCEPT ![t] = "cancelled"]
  /\ UNCHANGED <<use, ws, queue, hb, pc, cpu>>

\* task.cancel(), or receive_timeout.
Cancel(t) == t \in use.cancellable /\ Abort(t)

\* ws_close: the timeout of close() around its read.
CloseTimeout(t) == pc[t] = "closeRead" /\ Abort(t)

\* The drain ends.
Drained(t) ==
  /\ Idle /\ pc[t] \in {"pongWrite", "closeWrite"} /\ fut[t] = "pending"
  /\ fut' = [fut EXCEPT ![t] = "done"]
  /\ UNCHANGED <<use, ws, queue, hb, pc, cpu>>
-----------------------------------------------------------------------------
(* The peer and the connection.                                            *)

\* _on_data_received()
DataReceived(h) == IF use.heartbeat THEN [h EXCEPT !.reset = TRUE] ELSE h

CanArrive ==
  /\ Idle /\ ws.transport = "open" /\ ~queue.paused /\ queue.exception # "protocol"

PeerSends(msg) ==
  /\ CanArrive
  /\ hb' = DataReceived(hb)
  /\ queue' = Fed(queue, msg) /\ fut' = Released(queue, "done")
  /\ UNCHANGED <<use, ws, pc, cpu>>

\* The parser refuses a frame.
ProtocolError ==
  /\ CanArrive
  /\ hb' = DataReceived(hb)
  /\ queue' = [queue EXCEPT !.eof = TRUE, !.exception = "protocol", !.waiter = NoTask]
  /\ fut' = Released(queue, "failed")
  /\ UNCHANGED <<use, ws, pc, cpu>>

\* The peer ends the connection.
PeerCloses ==
  /\ Idle /\ ws.transport = "open"
  /\ ws' = [ws EXCEPT !.transport = "closing"]
  /\ UNCHANGED <<use, queue, hb, taskVars>>

\* connection_lost(): feed_eof() of the parser, unless it has failed.
ConnectionLost ==
  /\ Idle /\ ws.transport = "closing"
  /\ ws' = [ws EXCEPT !.transport = "lost"]
  /\ \/ /\ queue.exception # "protocol"
        /\ queue' = [queue EXCEPT !.eof = TRUE, !.exception = "none", !.waiter = NoTask]
        /\ fut' = Released(queue, "done")
     \/ queue.exception = "protocol" /\ UNCHANGED <<queue, fut>>
  /\ UNCHANGED <<use, hb, pc, cpu>>
-----------------------------------------------------------------------------
(* The event loop's calls of the heartbeat.                                *)

FlushHeartbeatReset ==
  /\ Idle /\ hb.reset
  /\ hb' = [ResetHeartbeat(hb) EXCEPT !.reset = FALSE]
  /\ UNCHANGED <<use, ws, queue, taskVars>>

\* _handle_ping_pong_exception(), with the heartbeat h.
PingPongFails(h) ==
  IF ws.closed THEN hb' = h /\ UNCHANGED <<ws, queue, fut>>
  ELSE /\ ws' = Abnormal(SetClosed(ws)) /\ hb' = CancelHeartbeat(h)
       /\ IF ws.waiting /\ ~ws.closing
          THEN queue' = Fed(queue, "error") /\ fut' = Released(queue, "done")
          ELSE UNCHANGED <<queue, fut>>

\* _send_heartbeat() before a deferred reset, or too early ...
HeartbeatDeferred ==
  /\ Idle /\ hb.timer
  /\ \/ hb.reset /\ hb' = [hb EXCEPT !.timer = FALSE, !.stale = FALSE]
     \/ ~hb.reset /\ hb.stale /\ hb' = [hb EXCEPT !.stale = FALSE]
  /\ UNCHANGED <<use, ws, queue, taskVars>>

\* ... or in time: a PING, and the wait for an answer.
SendHeartbeat ==
  LET armed == [hb EXCEPT !.timer = FALSE, !.stale = FALSE, !.pong = TRUE]
  IN  /\ Idle /\ hb.timer /\ ~hb.reset /\ ~hb.ping
      /\ \/ /\ ws.transport = "open"
            /\ hb' = armed \/ hb' = [armed EXCEPT !.ping = TRUE]
            /\ UNCHANGED <<ws, queue, fut>>
         \/ ws.transport # "open" /\ PingPongFails(armed)
      /\ UNCHANGED <<use, pc, cpu>>

\* A ping task that had to drain ends.
PingTaskDone ==
  LET done == [hb EXCEPT !.ping = FALSE]
  IN  /\ Idle /\ hb.ping
      /\ \/ hb' = done /\ UNCHANGED <<ws, queue, fut>>
         \/ ws.transport = "lost" /\ PingPongFails(done)
      /\ UNCHANGED <<use, pc, cpu>>

PongNotReceived ==
  /\ Idle /\ hb.pong
  /\ PingPongFails([hb EXCEPT !.pong = FALSE])
  /\ UNCHANGED <<use, pc, cpu>>
-----------------------------------------------------------------------------
Step(t) ==
  \/ ReceiveRefused(t) \/ ReceiveCloses(t) \/ Receive(t) \/ Got(t) \/ GotCancelled(t)
  \/ Pong(t) \/ PongWritten(t)
  \/ CloseBreaksReceive(t) \/ CloseDirect(t) \/ CloseWaitCancelled(t) \/ CloseTwice(t)
  \/ CloseSends(t) \/ CloseFails(t) \/ CloseWritten(t) \/ CloseDone(t)
  \/ CloseReads(t) \/ CloseReadsOn(t) \/ CloseGot(t) \/ CloseReadCancelled(t)

PeerMessage == \E msg \in {"text", "ping", "close"} : PeerSends(msg)

HeartbeatStep ==
  FlushHeartbeatReset \/ HeartbeatDeferred \/ SendHeartbeat \/ PingTaskDone \/ PongNotReceived

Next ==
  \/ \E t \in Tasks : Step(t) /\ Schedule
  \/ \E t \in Tasks : Cancel(t) /\ Schedule
  \/ \E t \in Tasks : CloseTimeout(t) /\ Schedule
  \/ \E t \in Tasks : Drained(t) /\ Schedule
  \/ PeerMessage /\ Schedule
  \/ ProtocolError /\ Schedule
  \/ PeerCloses /\ Schedule
  \/ ConnectionLost /\ Schedule
  \/ HeartbeatStep /\ Schedule

Spec == Init /\ [][Next]_vars

\* The event loop runs what is ready; timers of the heartbeat and of close()
\* expire; a drain ends, with data read by the peer or with the connection;
\* a transport that is closing is lost.
FairSpec ==
  /\ Spec
  /\ \A t \in Tasks : /\ WF_vars(pc[t] # "idle" /\ Step(t) /\ Schedule) /\ WF_vars(Drained(t) /\ Schedule)
                      /\ WF_vars(CloseTimeout(t) /\ Schedule)
  /\ WF_vars(ConnectionLost /\ Schedule) /\ WF_vars(FlushHeartbeatReset /\ Schedule)
  /\ WF_vars((HeartbeatDeferred \/ SendHeartbeat) /\ Schedule)
  /\ WF_vars(PingTaskDone /\ Schedule) /\ WF_vars(PongNotReceived /\ Schedule)
-----------------------------------------------------------------------------
(* Properties.                                                             *)

Messages == {"text", "ping", "close", "closing", "error"}
Responses ==
  [closed : BOOLEAN, closing : BOOLEAN, waiting : BOOLEAN,
   code : {"none", "ok", "abnormal", "peer", "protocol"}, closeWait : Tasks \cup {NoTask},
   transport : {"open", "closing", "lost"}, closeFrames : Nat]
Queues ==
  [buffer : Seq(Messages), eof : BOOLEAN, exception : {"none", "protocol"},
   waiter : Tasks \cup {NoTask}, paused : BOOLEAN]
Heartbeats == [timer : BOOLEAN, stale : BOOLEAN, reset : BOOLEAN, pong : BOOLEAN, ping : BOOLEAN]
Futures == {"none", "pending", "done", "failed", "cancelled"}

TypeOK ==
  /\ use \in Uses /\ ws \in Responses /\ queue \in Queues /\ hb \in Heartbeats
  /\ pc \in [Tasks -> {"idle", "receive", "read", "got", "pong", "pongWrite"} \cup Closers]
  /\ fut \in [Tasks -> Futures]
  /\ cpu \in Tasks \cup {NoTask}

\* _waiting says that a receive() is reading, and there is one at most.
OneReceiver ==
  /\ ws.waiting <=> \E t \in Tasks : pc[t] \in {"read", "got"}
  /\ \A t, u \in Tasks : pc[t] \in {"read", "got"} /\ pc[u] \in {"read", "got"} => t = u

\* Who waits for a message is the waiter of the queue, so that the next
\* message, the end of the stream or an exception reaches it: a receive()
\* and a close() never wait side by side (WebSocketDataQueue.read() asserts
\* it; close() breaks the receive() first).  With three tasks, one cancelled
\* while it reads, the code breaks this for a close(): a second close() goes
\* past the receive() that the first has broken but that has not run yet, and
\* read() of the cancelled receive() then clears the waiter of that close().
ReaderIsWaiter ==
  \A t \in Tasks : pc[t] \in {"read", "closeRead"} /\ fut[t] = "pending" => queue.waiter = t

\* However many tasks close the socket, one CLOSE frame is sent.
OneCloseFrame == ws.closeFrames <= 1

\* As long as the socket is open its heartbeat is alive: a timer, a reset that
\* will arm one, or the deadline of a ping that has been sent.
HeartbeatArmed ==
  use.heartbeat /\ ~ws.closed /\ ~ws.closing => hb.timer \/ hb.reset \/ hb.pong

\* A closed socket has given its connection up once no close() is going on,
\* however the last one ended.
ClosedIsReleased ==
  ws.closed /\ (\A t \in Tasks : pc[t] \notin Closers) => ws.transport # "open"

\* All together: one task is next to get a message, and a socket that is
\* closed has told the peer once and has given its connection up.
SocketSound == TypeOK /\ OneReceiver /\ ReaderIsWaiter /\ OneCloseFrame /\ ClosedIsReleased

PeerActs == PeerMessage \/ PeerCloses \/ ProtocolError
Quiet == <>[][~PeerActs]_vars

\* close() returns when the peer falls silent, with or without its CLOSE.
CloseReturns == Quiet => \A t \in Tasks : pc[t] \in Closers ~> pc[t] \notin Closers

\* "ws_close: A timeout for the websocket to close" (client_reference.rst).
\* The code breaks it: the timeout starts again with each message.
CloseTimesOut == \A t \in Tasks : pc[t] \in Closers ~> pc[t] \notin Closers
=============================================================================
