--------------------------- MODULE ServerWebSocket ---------------------------
(***************************************************************************)
(* The server's WebSocket once it is prepared: WebSocketResponse of        *)
(* aiohttp/web_ws.py with receive(), close() and the heartbeat, over the   *)
(* message queue of aiohttp/_websocket/reader_py.py.                       *)
(*                                                                         *)
(* Unlike the client, close() marks the socket closed and sends its CLOSE  *)
(* before it breaks the receive() of another task, and one timeout spans   *)
(* all it reads.                                                           *)
(*                                                                         *)
(* A call runs until it awaits something: cpu is the task that is running, *)
(* everything else happens when there is none.  A message is its type, and *)
(* a read from the socket holds one.  A timer may fire whenever it is      *)
(* armed.  autoping is on; "ping" is a ping or a pong.                      *)
(***************************************************************************)
EXTENDS Integers, Sequences, FiniteSets, SequencesExt

CONSTANTS
  Tasks,       \* the handler and the tasks it shares the socket with
  NoTask,      \* "no task"
  Limit,       \* _limit of the queue, in messages
  Heartbeat,   \* whether heartbeat= is given
  Cancellable  \* tasks that may be cancelled, or have a receive_timeout

ASSUME ServerAssumption ==
  /\ NoTask \notin Tasks /\ Cancellable \subseteq Tasks
  /\ Limit \in Nat \ {0} /\ Heartbeat \in BOOLEAN

VARIABLES
  ws,    \* the response: _autoclose, _closed, _closing, _close_code, _waiting, who
         \* waits on _close_wait, its transport, CLOSE frames sent, and whether a
         \* close() was cancelled in that wait
  queue, \* WebSocketDataQueue: messages, eof, exception, waiter, reading paused
  hb,    \* timer, too early, deferred reset, deadline of the pong, ping task
  pc,    \* where each task is
  fut,   \* the future it awaits: "none", "pending", "done", "failed", "cancelled"
  cpu,   \* the task that is running
  ready  \* woken tasks, in the order the event loop resumes them

vars == <<ws, queue, hb, pc, fut, cpu, ready>>

NoTimers == [timer |-> FALSE, early |-> FALSE, reset |-> FALSE, pong |-> FALSE, ping |-> FALSE]

Init ==
  /\ \E a \in BOOLEAN :
       ws = [autoclose |-> a, closed |-> FALSE, closing |-> FALSE, code |-> "none",
             waiting |-> FALSE, closeWait |-> NoTask, transport |-> "open",
             closeFrames |-> 0, abandoned |-> FALSE]
  /\ queue = [buffer |-> <<>>, eof |-> FALSE, failed |-> FALSE, waiter |-> NoTask, paused |-> FALSE]
  /\ hb = [NoTimers EXCEPT !.timer = Heartbeat]
  /\ pc = [t \in Tasks |-> "idle"] /\ fut = [t \in Tasks |-> "none"]
  /\ cpu = NoTask /\ ready = <<>>
-----------------------------------------------------------------------------
(* The parts of the response.                                              *)

CancelHeartbeat(h) == NoTimers

\* _reset_heartbeat(): a timer that is armed is left, and becomes too early.
ResetHeartbeat(h) == [h EXCEPT !.pong = FALSE, !.timer = TRUE, !.early = h.timer, !.reset = FALSE]

SetClosed(w) == [w EXCEPT !.closed = TRUE]
SetClosing(w, code) == [w EXCEPT !.closing = TRUE, !.code = code]
CloseTransport(w) == [w EXCEPT !.transport = IF @ = "open" THEN "closing" ELSE @]
SetCodeCloseTransport(w, code) == CloseTransport([w EXCEPT !.code = code])

\* feed_data(); internal messages have no size.
Size(buffer) == Len(SelectSeq(buffer, LAMBDA m : m \notin {"closing", "error"}))
Fed(q, msg) ==
  LET buffer == Append(q.buffer, msg)
  IN  [q EXCEPT !.buffer = buffer, !.waiter = NoTask, !.paused = @ \/ Size(buffer) > Limit]

\* The future of the queue's waiter gets a result or the queue's exception.
Released(how) ==
  [t \in Tasks |-> IF t = queue.waiter /\ fut[t] = "pending" THEN how ELSE fut[t]]

\* What a read finds, and the queue it leaves.
Found(t) ==
  CASE fut[t] # "failed" /\ queue.buffer # <<>> -> Head(queue.buffer)
    [] fut[t] = "failed" \/ queue.failed -> "invalid"
    [] OTHER -> "eof"
Taken(t) ==
  IF fut[t] = "failed" \/ queue.buffer = <<>> THEN queue
  ELSE LET rest == Tail(queue.buffer)
       IN  [queue EXCEPT !.buffer = rest, !.paused = @ /\ Size(rest) >= Limit]
-----------------------------------------------------------------------------
(* Tasks.                                                                  *)

Idle == cpu = NoTask
Running(t, at) == pc[t] = at /\ cpu = t
Resumes(t, at, how) == pc[t] = at /\ Idle /\ ready # <<>> /\ Head(ready) = t /\ fut[t] \in how

\* A task whose future is done is put behind those that are ready.
Schedule ==
  LET over(t) == fut'[t] \in {"done", "failed", "cancelled"}
  IN  ready' = SelectSeq(ready, over) \o SetToSeq({t \in Tasks : fut[t] = "pending" /\ over(t)})

\* t goes on at the step at, or leaves its call at "idle"; other futures may
\* have changed as well.
GoWith(t, at, futures) ==
  /\ pc' = [pc EXCEPT ![t] = at]
  /\ fut' = [futures EXCEPT ![t] = "none"]
  /\ cpu' = IF at = "idle" THEN NoTask ELSE t
Go(t, at) == GoWith(t, at, fut)

Await(t, at) ==
  /\ pc' = [pc EXCEPT ![t] = at]
  /\ fut' = [fut EXCEPT ![t] = "pending"]
  /\ cpu' = NoTask

\* reader.read(): goes on at got, at once or when the future is done.
Read(t, wait, got) ==
  IF queue.buffer # <<>> \/ queue.eof
  THEN Go(t, got) /\ UNCHANGED queue
  ELSE Await(t, wait) /\ queue' = [queue EXCEPT !.waiter = t]

\* An idle task may start a call, as long as it has an effect.
Calls(t, at) == Running(t, at) \/ (Idle /\ pc[t] = "idle" /\ ~ws.closed)
-----------------------------------------------------------------------------
(* receive()                                                               *)

\* RuntimeError, CLOSED or CLOSING at the head of the loop.
ReceiveRefused(t) ==
  /\ Running(t, "receive") /\ (ws.waiting \/ ws.closed \/ ws.closing)
  /\ Go(t, "idle") /\ UNCHANGED <<ws, queue, hb>>

Receive_AnyNumber(t) ==  \* mutant: two tasks may receive
  /\ Calls(t, "receive") /\ ~ws.closed /\ ~ws.closing
  /\ ws' = [ws EXCEPT !.waiting = TRUE]
  /\ Read(t, "read", "got") /\ UNCHANGED hb

Receive(t) ==
  /\ Calls(t, "receive") /\ ~ws.waiting /\ ~ws.closed /\ ~ws.closing
  /\ ws' = [ws EXCEPT !.waiting = TRUE]
  /\ Read(t, "read", "got") /\ UNCHANGED hb

\* The finally clause: _waiting, and who waits in close() goes on.
NotWaiting(w) == [w EXCEPT !.waiting = FALSE, !.closeWait = NoTask]
CloserWoken_Never == fut  \* mutant: nobody tells close()
CloserWoken ==
  [t \in Tasks |-> IF ws.closeWait = t /\ pc[t] = "closeWait" /\ fut[t] = "pending"
                   THEN "done" ELSE fut[t]]

Got(t) ==
  /\ Running(t, "got") \/ Resumes(t, "read", {"done", "failed"})
  /\ queue' = Taken(t)
  /\ LET w == NotWaiting(ws)
         msg == Found(t)
         go(at) == GoWith(t, at, CloserWoken)
     IN  CASE msg \in {"text", "error"} -> ws' = w /\ UNCHANGED hb /\ go("idle")
           [] msg = "ping" -> ws' = w /\ UNCHANGED hb /\ go("pong")
           [] msg = "close" -> /\ ws' = SetClosing(w, "peer") /\ hb' = CancelHeartbeat(hb)
                               /\ go(IF ~ws.closed /\ ws.autoclose THEN "closeNoDrain" ELSE "idle")
           [] msg = "closing" -> ws' = SetClosing(w, "ok") /\ hb' = CancelHeartbeat(hb) /\ go("idle")
           [] msg = "eof" -> ws' = [w EXCEPT !.code = "ok"] /\ UNCHANGED hb /\ go("close")
           [] msg = "invalid" -> ws' = [w EXCEPT !.code = "error"] /\ UNCHANGED hb /\ go("close")

\* The read was cancelled, or receive_timeout has expired.
GotCancelled(t) ==
  /\ Resumes(t, "read", {"cancelled"})
  /\ queue' = [queue EXCEPT !.waiter = NoTask]
  /\ ws' = NotWaiting(ws)
  /\ GoWith(t, "idle", CloserWoken) /\ UNCHANGED hb

\* A ping is answered, then receive() loops.  send_frame() raises after CLOSE
\* or on a transport that closes.
Pong(t) ==
  /\ Running(t, "pong")
  /\ IF ws.closed \/ ws.transport # "open" THEN Go(t, "idle") ELSE Go(t, "receive") \/ Await(t, "pongWrite")
  /\ UNCHANGED <<ws, queue, hb>>

PongWritten(t) ==
  /\ \/ Resumes(t, "pongWrite", {"done"}) /\ Go(t, IF ws.transport = "lost" THEN "idle" ELSE "receive")
     \/ Resumes(t, "pongWrite", {"cancelled"}) /\ Go(t, "idle")
  /\ UNCHANGED <<ws, queue, hb>>
-----------------------------------------------------------------------------
(* close()                                                                 *)

Closers == {"close", "closeNoDrain", "closeWrite", "closeNext", "closeWait", "closeEnd", "closeMore",
            "closeRead", "closeGot"}

CloseTwice(t) ==
  /\ pc[t] \in {"close", "closeNoDrain"} /\ cpu = t /\ ws.closed
  /\ Go(t, "idle") /\ UNCHANGED <<ws, queue, hb>>

\* The socket is closed before anything is awaited; CLOSE is sent and, for
\* drain=True or a writer that is full, drained.
CloseSends(t) ==
  /\ Calls(t, "close") \/ Running(t, "closeNoDrain")
  /\ ~ws.closed /\ ws.transport = "open"
  /\ ws' = SetClosed([ws EXCEPT !.closeFrames = @ + 1]) /\ hb' = CancelHeartbeat(hb)
  /\ Go(t, "closeNext") \/ Await(t, "closeWrite")
  /\ UNCHANGED queue

CloseFails(t) ==
  /\ Calls(t, "close") \/ Running(t, "closeNoDrain")
  /\ ~ws.closed /\ ws.transport # "open"
  /\ ws' = SetCodeCloseTransport(SetClosed(ws), "abnormal") /\ hb' = CancelHeartbeat(hb)
  /\ Go(t, "idle") /\ UNCHANGED queue

CloseWritten(t) ==
  /\ \/ Resumes(t, "closeWrite", {"done"}) /\ ws.transport # "lost" /\ Go(t, "closeNext") /\ UNCHANGED ws
     \/ /\ Resumes(t, "closeWrite", {"cancelled"}) \/ (Resumes(t, "closeWrite", {"done"}) /\ ws.transport = "lost")
        /\ ws' = SetCodeCloseTransport(ws, "abnormal") /\ Go(t, "idle")
  /\ UNCHANGED <<queue, hb>>

\* Another task is in receive(): it is broken first.
CloseBreaksReceive(t) ==
  /\ Running(t, "closeNext") /\ ws.waiting
  /\ ws' = [ws EXCEPT !.closeWait = t]
  /\ queue' = Fed(queue, "closing")
  /\ pc' = [pc EXCEPT ![t] = "closeWait"]
  /\ fut' = [Released("done") EXCEPT ![t] = "pending"]
  /\ cpu' = NoTask /\ UNCHANGED hb

CloseGoesOn(t) ==
  /\ (Running(t, "closeNext") /\ ~ws.waiting) \/ Resumes(t, "closeWait", {"done"})
  /\ Go(t, "closeEnd") /\ UNCHANGED <<ws, queue, hb>>

CloseWaitCancelled(t) ==
  /\ Resumes(t, "closeWait", {"cancelled"})
  /\ ws' = [ws EXCEPT !.abandoned = TRUE]
  /\ Go(t, "idle") /\ UNCHANGED <<queue, hb>>

\* receive() has met the peer's CLOSE or the close() itself ...
CloseEnds_KeepsTransport(t) ==  \* mutant: the peer is trusted to close
  Running(t, "closeEnd") /\ ws.closing /\ Go(t, "idle") /\ UNCHANGED <<ws, queue, hb>>

CloseEnds(t) ==
  /\ Running(t, "closeEnd") /\ ws.closing
  /\ ws' = CloseTransport(ws)
  /\ Go(t, "idle") /\ UNCHANGED <<queue, hb>>

\* ... or close() reads up to the peer's CLOSE, under one timeout.
CloseReads(t) ==
  /\ (Running(t, "closeEnd") /\ ~ws.closing) \/ Running(t, "closeMore")
  /\ Read(t, "closeRead", "closeGot") /\ UNCHANGED <<ws, hb>>

CloseGot(t) ==
  /\ Running(t, "closeGot") \/ Resumes(t, "closeRead", {"done", "failed"})
  /\ queue' = Taken(t)
  /\ \/ Found(t) = "close" /\ ws' = SetCodeCloseTransport(ws, "peer") /\ Go(t, "idle")
     \/ Found(t) \in {"eof", "invalid"} /\ ws' = SetCodeCloseTransport(ws, "abnormal") /\ Go(t, "idle")
     \/ Found(t) \in {"text", "ping", "closing", "error"} /\ UNCHANGED ws /\ Go(t, "closeMore")
  /\ UNCHANGED hb

CloseReadCancelled(t) ==
  /\ Resumes(t, "closeRead", {"cancelled"})
  /\ queue' = [queue EXCEPT !.waiter = NoTask]
  /\ ws' = SetCodeCloseTransport(ws, "abnormal")
  /\ Go(t, "idle") /\ UNCHANGED hb
-----------------------------------------------------------------------------
(* What happens to a task that is suspended.                               *)

Abort(t) ==
  /\ Idle /\ fut[t] \in {"pending", "done", "failed"}
  /\ fut' = [fut EXCEPT ![t] = "cancelled"]
  /\ UNCHANGED <<ws, queue, hb, pc, cpu>>

Cancel(t) == t \in Cancellable /\ Abort(t)
CloseTimeout(t) == pc[t] = "closeRead" /\ Abort(t)

\* The drain ends, with the socket writable again or lost.
Drained(t) ==
  /\ Idle /\ pc[t] \in {"pongWrite", "closeWrite"} /\ fut[t] = "pending"
  /\ fut' = [fut EXCEPT ![t] = "done"]
  /\ UNCHANGED <<ws, queue, hb, pc, cpu>>
-----------------------------------------------------------------------------
(* The peer and the connection.                                            *)

DataReceived == IF Heartbeat THEN [hb EXCEPT !.reset = TRUE] ELSE hb
CanArrive == Idle /\ ws.transport = "open" /\ ~queue.paused /\ ~queue.failed

PeerSends(msg) ==
  /\ CanArrive
  /\ hb' = DataReceived
  /\ queue' = Fed(queue, msg) /\ fut' = Released("done")
  /\ UNCHANGED <<ws, pc, cpu>>

\* The parser refuses a frame.
InvalidFrame ==
  /\ CanArrive
  /\ hb' = DataReceived
  /\ queue' = [queue EXCEPT !.eof = TRUE, !.failed = TRUE, !.waiter = NoTask]
  /\ fut' = Released("failed")
  /\ UNCHANGED <<ws, pc, cpu>>

PeerCloses ==
  /\ Idle /\ ws.transport = "open"
  /\ ws' = [ws EXCEPT !.transport = "closing"]
  /\ UNCHANGED <<queue, hb, pc, fut, cpu>>

\* connection_lost(): feed_eof() of the parser, which clears the exception.
ConnectionLost ==
  /\ Idle /\ ws.transport = "closing"
  /\ ws' = [ws EXCEPT !.transport = "lost"]
  /\ queue' = [queue EXCEPT !.eof = TRUE, !.failed = FALSE, !.waiter = NoTask]
  /\ fut' = Released("done")
  /\ UNCHANGED <<hb, pc, cpu>>
-----------------------------------------------------------------------------
(* The event loop's calls of the heartbeat.                                *)

FlushHeartbeatReset ==
  /\ Idle /\ hb.reset
  /\ hb' = ResetHeartbeat(hb)
  /\ UNCHANGED <<ws, queue, pc, fut, cpu>>

\* _handle_ping_pong_exception(), with the heartbeat h.
PingPongFails_Silent(h) ==  \* mutant: the receiver is not told
  IF ws.closed THEN hb' = h /\ UNCHANGED <<ws, queue, fut>>
  ELSE /\ ws' = [SetClosed(ws) EXCEPT !.code = "abnormal"] /\ hb' = NoTimers /\ UNCHANGED <<queue, fut>>

PingPongFails(h) ==
  IF ws.closed THEN hb' = h /\ UNCHANGED <<ws, queue, fut>>
  ELSE /\ ws' = SetCodeCloseTransport(SetClosed(ws), "abnormal") /\ hb' = CancelHeartbeat(h)
       /\ IF ws.waiting /\ ~ws.closing
          THEN queue' = Fed(queue, "error") /\ fut' = Released("done")
          ELSE UNCHANGED <<queue, fut>>

\* _send_heartbeat() before a deferred reset, or too early ...
HeartbeatDeferred ==
  /\ Idle /\ hb.timer
  /\ \/ hb.reset /\ hb' = [hb EXCEPT !.timer = FALSE, !.early = FALSE]
     \/ ~hb.reset /\ hb.early /\ hb' = [hb EXCEPT !.early = FALSE]
  /\ UNCHANGED <<ws, queue, pc, fut, cpu>>

\* ... or in time: a PING, and the wait for an answer.
SendHeartbeat ==
  LET armed == [hb EXCEPT !.timer = FALSE, !.pong = TRUE]
  IN  /\ Idle /\ hb.timer /\ ~hb.reset /\ ~hb.early /\ ~hb.ping
      /\ \/ /\ ws.transport = "open" /\ ~ws.closed
            /\ hb' = armed \/ hb' = [armed EXCEPT !.ping = TRUE]
            /\ UNCHANGED <<ws, queue, fut>>
         \/ (ws.transport # "open" \/ ws.closed) /\ PingPongFails(armed)
      /\ UNCHANGED <<pc, cpu>>

\* A ping task that had to drain ends.
PingTaskDone ==
  LET done == [hb EXCEPT !.ping = FALSE]
  IN  /\ Idle /\ hb.ping
      /\ \/ hb' = done /\ UNCHANGED <<ws, queue, fut>>
         \/ ws.transport = "lost" /\ PingPongFails(done)
      /\ UNCHANGED <<pc, cpu>>

PongNotReceived ==
  LET late == [hb EXCEPT !.pong = FALSE]
  IN  /\ Idle /\ hb.pong
      /\ IF ws.transport = "lost" THEN hb' = late /\ UNCHANGED <<ws, queue, fut>> ELSE PingPongFails(late)
      /\ UNCHANGED <<pc, cpu>>
-----------------------------------------------------------------------------
Step(t) ==
  \/ ReceiveRefused(t) \/ Receive(t) \/ Got(t) \/ GotCancelled(t) \/ Pong(t) \/ PongWritten(t)
  \/ CloseTwice(t) \/ CloseSends(t) \/ CloseFails(t) \/ CloseWritten(t)
  \/ CloseBreaksReceive(t) \/ CloseGoesOn(t) \/ CloseWaitCancelled(t) \/ CloseEnds(t)
  \/ CloseReads(t) \/ CloseGot(t) \/ CloseReadCancelled(t)

PeerMessage == \E msg \in {"text", "ping", "close"} : PeerSends(msg)
HeartbeatStep ==
  FlushHeartbeatReset \/ HeartbeatDeferred \/ SendHeartbeat \/ PingTaskDone \/ PongNotReceived

Next ==
  \/ \E t \in Tasks : (Step(t) \/ Cancel(t) \/ CloseTimeout(t) \/ Drained(t)) /\ Schedule
  \/ (PeerMessage \/ InvalidFrame \/ PeerCloses \/ ConnectionLost \/ HeartbeatStep) /\ Schedule

Spec == Init /\ [][Next]_vars

\* The event loop runs what is ready, timers expire, a drain ends, a transport
\* that closes is lost.  close() has one timer for all it reads: it expires
\* although each read that ends in time takes the wait away for a moment, hence
\* strong fairness.
FairSpec ==
  /\ Spec
  /\ \A t \in Tasks : /\ WF_vars(pc[t] # "idle" /\ Step(t) /\ Schedule)
                      /\ WF_vars(Drained(t) /\ Schedule) /\ SF_vars(CloseTimeout(t) /\ Schedule)
  /\ WF_vars(ConnectionLost /\ Schedule) /\ WF_vars(FlushHeartbeatReset /\ Schedule)
  /\ WF_vars((HeartbeatDeferred \/ SendHeartbeat) /\ Schedule)
  /\ WF_vars(PingTaskDone /\ Schedule) /\ WF_vars(PongNotReceived /\ Schedule)
-----------------------------------------------------------------------------
(* Properties.                                                             *)

Messages == {"text", "ping", "close", "closing", "error"}
Responses ==
  [autoclose : BOOLEAN, closed : BOOLEAN, closing : BOOLEAN, waiting : BOOLEAN,
   code : {"none", "ok", "abnormal", "peer", "error"}, closeWait : Tasks \cup {NoTask},
   transport : {"open", "closing", "lost"}, closeFrames : Nat, abandoned : BOOLEAN]
Queues ==
  [buffer : Seq(Messages), eof : BOOLEAN, failed : BOOLEAN, waiter : Tasks \cup {NoTask}, paused : BOOLEAN]
Heartbeats == [timer : BOOLEAN, early : BOOLEAN, reset : BOOLEAN, pong : BOOLEAN, ping : BOOLEAN]
Futures == {"none", "pending", "done", "failed", "cancelled"}

TypeOK ==
  /\ ws \in Responses /\ queue \in Queues /\ hb \in Heartbeats
  /\ pc \in [Tasks -> {"idle", "receive", "read", "got", "pong", "pongWrite"} \cup Closers]
  /\ fut \in [Tasks -> Futures]
  /\ cpu \in Tasks \cup {NoTask}

\* Who waits for a message is the waiter of the queue: close() and a receive()
\* of another task never wait side by side, and the message, the end or the
\* exception that comes next reaches whoever waits (the assertion of
\* WebSocketDataQueue.read()).
ReaderIsWaiter ==
  \A t \in Tasks : pc[t] \in {"read", "closeRead"} /\ fut[t] = "pending" => queue.waiter = t

\* A closed socket has sent one CLOSE at most and, once no close() is going on,
\* has given its transport up, however the last close() or the heartbeat ended.
\* A close() cancelled while it waits for receive() leaves that to the server.
ClosedIsReleased ==
  /\ ws.closeFrames <= 1
  /\ ws.closed /\ ~ws.abandoned /\ (\A t \in Tasks : pc[t] \notin Closers) => ws.transport # "open"

\* The three together: one task is next to get a message, and a socket that is
\* closed has given its transport up.
SocketSound == TypeOK /\ ReaderIsWaiter /\ ClosedIsReleased

\* Every close() returns, whatever the peer sends and whatever the other task
\* does: there comes a time when no task is in one.
CloseReturns == (\E t \in Tasks : pc[t] \in Closers) ~> (\A t \in Tasks : pc[t] \notin Closers)

\* With a heartbeat no receive() waits for ever on a peer that has gone silent:
\* the ping is not answered, and the receiver gets an error.
Quiet == <>[][~(PeerMessage \/ InvalidFrame \/ PeerCloses)]_vars
DeadPeerNoticed ==
  Heartbeat /\ Quiet => (\E t \in Tasks : pc[t] = "read") ~> (\A t \in Tasks : pc[t] # "read")
=============================================================================
