------------------------ MODULE WebSocketProofs ------------------------
(***************************************************************************)
(* What the two ends of a WebSocket guarantee for every number of tasks,   *)
(* any limit of the queue, and every way to use the socket: the client's,  *)
(* and in the second half the server's (the instance Server).              *)
(*                                                                         *)
(* The client: the proof that a step keeps the invariant Sound goes by     *)
(* what the step does to the tasks: the actions fall into eight kinds      *)
(* (Passes, Begins, Ends, Breaks, Arrives, Sends, Advances, Stays).  A     *)
(* lemma ...Effect says that an action is of a kind, a lemma ...Keeps that *)
(* the kind keeps the invariant.                                           *)
(***************************************************************************)
EXTENDS ClientWebSocket, SequenceTheorems, TLAPS

(* -------------------------------- types --------------------------------- *)

\* The methods of the response keep its type ...
LEMMA ResponseTypes ==
  ASSUME NEW w \in Responses
  PROVE  /\ SetClosed(w) \in Responses /\ SetClosing(w) \in Responses
         /\ CloseResponse(w) \in Responses /\ Abnormal(w) \in Responses /\ NotWaiting(w) \in Responses
         /\ \A c \in {"none", "ok", "abnormal", "peer", "protocol"} : [w EXCEPT !.code = c] \in Responses
         /\ [w EXCEPT !.waiting = TRUE] \in Responses
         /\ [w EXCEPT !.closeFrames = @ + 1] \in Responses
         /\ \A s \in {"closing", "lost"} : [w EXCEPT !.transport = s] \in Responses
         /\ \A t \in Tasks : [w EXCEPT !.closeWait = t] \in Responses
<1>1. SetClosed(w) \in Responses /\ SetClosing(w) \in Responses
  BY DEF Responses, SetClosed, SetClosing
<1>2. CloseResponse(w) \in Responses /\ NotWaiting(w) \in Responses
  BY DEF Responses, CloseResponse, NotWaiting
<1>3. Abnormal(w) \in Responses
  BY DEF Responses, CloseResponse, Abnormal
<1>4. \A c \in {"none", "ok", "abnormal", "peer", "protocol"} : [w EXCEPT !.code = c] \in Responses
  BY DEF Responses
<1>5. [w EXCEPT !.waiting = TRUE] \in Responses /\ [w EXCEPT !.closeFrames = @ + 1] \in Responses
  <2>1. w.closeFrames + 1 \in Nat
    BY DEF Responses
  <2> QED
    BY <2>1 DEF Responses
<1>6. /\ \A s \in {"closing", "lost"} : [w EXCEPT !.transport = s] \in Responses
      /\ \A t \in Tasks : [w EXCEPT !.closeWait = t] \in Responses
  BY DEF Responses
<1> QED
  BY <1>1, <1>2, <1>3, <1>4, <1>5, <1>6

\* ... and the steps of the heartbeat theirs.
LEMMA HeartbeatTypes ==
  ASSUME NEW h \in Heartbeats
  PROVE  /\ CancelHeartbeat(h) \in Heartbeats /\ DataReceived(h) \in Heartbeats
         /\ [ResetHeartbeat(h) EXCEPT !.reset = FALSE] \in Heartbeats
         /\ [h EXCEPT !.timer = FALSE, !.stale = FALSE] \in Heartbeats
         /\ [h EXCEPT !.stale = FALSE] \in Heartbeats
         /\ [h EXCEPT !.pong = FALSE] \in Heartbeats
         /\ [h EXCEPT !.ping = FALSE] \in Heartbeats
         /\ [h EXCEPT !.timer = FALSE, !.stale = FALSE, !.pong = TRUE] \in Heartbeats
         /\ [h EXCEPT !.ping = TRUE] \in Heartbeats
<1>1. CancelHeartbeat(h) \in Heartbeats /\ DataReceived(h) \in Heartbeats
  BY DEF Heartbeats, CancelHeartbeat, DataReceived
<1>2. [ResetHeartbeat(h) EXCEPT !.reset = FALSE] \in Heartbeats
  BY DEF Heartbeats, ResetHeartbeat
<1>3. /\ [h EXCEPT !.timer = FALSE, !.stale = FALSE] \in Heartbeats
      /\ [h EXCEPT !.stale = FALSE] \in Heartbeats
  BY DEF Heartbeats
<1>4. [h EXCEPT !.pong = FALSE] \in Heartbeats /\ [h EXCEPT !.ping = FALSE] \in Heartbeats
  BY DEF Heartbeats
<1>5. /\ [h EXCEPT !.timer = FALSE, !.stale = FALSE, !.pong = TRUE] \in Heartbeats
      /\ [h EXCEPT !.ping = TRUE] \in Heartbeats
  BY DEF Heartbeats
<1> QED
  BY <1>1, <1>2, <1>3, <1>4, <1>5

\* What feed_data(), _release_waiter() and read() leave in the queue and in the futures.
LEMMA FedType ==
  ASSUME queue \in Queues, NEW msg \in Messages
  PROVE  Fed(queue, msg) \in Queues /\ Fed(queue, msg).waiter = NoTask
<1>1. Append(queue.buffer, msg) \in Seq(Messages)
  BY AppendProperties DEF Queues
<1> QED
  BY <1>1 DEF Queues, Fed

LEMMA ReleasedType ==
  ASSUME TypeOK, NEW how \in Futures
  PROVE  Released(queue, how) \in [Tasks -> Futures]
BY DEF TypeOK, Released

\* A read finds a message, the end, or the exception.
LEMMA FoundType ==
  ASSUME TypeOK, NEW t \in Tasks
  PROVE  Found(t) \in Messages \cup {"eof", "protocol"}
<1>0. queue.buffer \in Seq(Messages) /\ queue.exception \in {"none", "protocol"}
  BY DEF TypeOK, Queues
<1>1. CASE queue.buffer # <<>>
  <2>1. Head(queue.buffer) \in Messages
    BY <1>0, <1>1, HeadTailProperties
  <2> QED
    BY <1>1, <2>1 DEF Found
<1>2. CASE queue.buffer = <<>>
  BY <1>0, <1>2 DEF Found
<1> QED
  BY <1>1, <1>2

LEMMA TakenType ==
  ASSUME TypeOK, NEW t \in Tasks
  PROVE  Taken(t) \in Queues /\ Taken(t).waiter = queue.waiter
<1>1. queue \in Queues
  BY DEF TypeOK
<1>2. CASE fut[t] = "failed" \/ queue.buffer = <<>>
  BY <1>1, <1>2 DEF Taken
<1>3. CASE ~ (fut[t] = "failed" \/ queue.buffer = <<>>)
  <2>1. Tail(queue.buffer) \in Seq(Messages)
    BY <1>1, <1>3, HeadTailProperties DEF Queues
  <2> QED
    BY <1>1, <1>3, <2>1 DEF Taken, Popped, Queues
<1> QED
  BY <1>2, <1>3

LEMMA ReadType ==
  ASSUME TypeOK, NEW t \in Tasks, UNCHANGED use, ws' \in Responses, UNCHANGED hb,
         Read(t, "read", "got") \/ Read(t, "closeRead", "closeGot")
  PROVE  TypeOK'
<1>1. [queue EXCEPT !.waiter = t] \in Queues
  BY DEF TypeOK, Queues
<1> QED
  BY <1>1 DEF Read, TypeOK, Futures, Closers

\* The steps of receive(), of close(), and of everything else keep the types.
LEMMA TypeReceive ==
  ASSUME TypeOK, NEW t \in Tasks,
         ReceiveRefused(t) \/ ReceiveCloses(t) \/ Receive(t) \/ GotCancelled(t) \/ Pong(t) \/ PongWritten(t)
  PROVE  TypeOK'
<1> USE DEF Closers, Futures
<1>0. ws \in Responses
  BY DEF TypeOK
<1>1. CASE ReceiveRefused(t)
  BY <1>1 DEF TypeOK, ReceiveRefused, Go, GoWith
<1>2. CASE ReceiveCloses(t)
  BY <1>2 DEF TypeOK, ReceiveCloses
<1>3. CASE Receive(t)
  <2>1. ws' \in Responses
    BY <1>0, <1>3, ResponseTypes DEF Receive
  <2> QED
    BY <1>3, <2>1, ReadType DEF Receive
<1>4. CASE GotCancelled(t)
  <2>1. ws' \in Responses
    BY <1>0, <1>4, ResponseTypes DEF GotCancelled
  <2>2. queue' \in Queues
    BY <1>4 DEF GotCancelled, TypeOK, Queues
  <2> QED
    BY <1>4, <2>1, <2>2 DEF TypeOK, GotCancelled, GoWith, CloserWoken
<1>5. CASE Pong(t)
  BY <1>5 DEF TypeOK, Pong, Go, GoWith, Await
<1>6. CASE PongWritten(t)
  BY <1>6 DEF TypeOK, PongWritten, Go, GoWith
<1> QED
  BY <1>1, <1>2, <1>3, <1>4, <1>5, <1>6

LEMMA TypeGot ==
  ASSUME TypeOK, NEW t \in Tasks, Got(t)
  PROVE  TypeOK'
<1>0. ws \in Responses /\ hb \in Heartbeats /\ NotWaiting(ws) \in Responses
  BY ResponseTypes DEF TypeOK
<1>1. queue' \in Queues
  BY TakenType DEF Got
<1>2. /\ ws' \in Responses
      /\ hb' \in Heartbeats
      /\ \E at \in {"idle", "pong", "close"} : GoWith(t, at, CloserWoken)
  <2>1. Found(t) \in Messages \cup {"eof", "protocol"}
    BY FoundType
  <2>2. CASE Found(t) \in {"text", "error", "ping"}
    BY <1>0, <2>2 DEF Got
  <2>3. CASE Found(t) \in {"close", "closing"}
    <3>1. \A code \in PeerCodes : [NotWaiting(ws) EXCEPT !.code = code] \in Responses
      BY <1>0, ResponseTypes DEF PeerCodes
    <3> QED
      BY <1>0, <2>3, <3>1, ResponseTypes, HeartbeatTypes DEF Got
  <2>4. CASE Found(t) \in {"eof", "protocol"}
    BY <1>0, <2>4, ResponseTypes DEF Got
  <2> QED
    BY <2>1, <2>2, <2>3, <2>4 DEF Messages
<1> QED
  BY <1>1, <1>2 DEF TypeOK, GoWith, CloserWoken, Got, Closers, Futures

LEMMA TypeClose ==
  ASSUME TypeOK, NEW t \in Tasks,
         CloseBreaksReceive(t) \/ CloseDirect(t) \/ CloseWaitCancelled(t) \/ CloseTwice(t)
           \/ CloseSends(t) \/ CloseFails(t) \/ CloseWritten(t) \/ CloseDone(t)
           \/ CloseReads(t) \/ CloseReadsOn(t) \/ CloseReadCancelled(t)
  PROVE  TypeOK'
<1> USE DEF Closers, Futures
<1>0. /\ ws \in Responses /\ hb \in Heartbeats /\ CancelHeartbeat(hb) \in Heartbeats
      /\ Abnormal(ws) \in Responses
  BY ResponseTypes, HeartbeatTypes DEF TypeOK
<1>1. CASE CloseBreaksReceive(t)
  <2>1. queue' \in Queues
    BY <1>1, FedType DEF CloseBreaksReceive, TypeOK, Messages
  <2>2. Released(queue, "done") \in [Tasks -> Futures]
    BY ReleasedType
  <2>3. ws' \in Responses
    BY <1>0, <1>1, ResponseTypes DEF CloseBreaksReceive
  <2> QED
    BY <1>0, <1>1, <2>1, <2>2, <2>3 DEF TypeOK, CloseBreaksReceive
<1>2. CASE CloseDirect(t)
  BY <1>2 DEF TypeOK, CloseDirect, Go, GoWith
<1>3. CASE CloseWaitCancelled(t)
  BY <1>3 DEF TypeOK, CloseWaitCancelled, Go, GoWith
<1>4. CASE CloseTwice(t)
  BY <1>4 DEF TypeOK, CloseTwice, Go, GoWith
<1>5. CASE CloseSends(t)
  <2>1. ws' \in Responses
    BY <1>0, <1>5, ResponseTypes DEF CloseSends
  <2> QED
    BY <1>0, <1>5, <2>1 DEF TypeOK, CloseSends, Go, GoWith, Await
<1>6. CASE CloseFails(t)
  <2>1. ws' \in Responses
    BY <1>0, <1>6, ResponseTypes DEF CloseFails
  <2> QED
    BY <1>0, <1>6, <2>1 DEF TypeOK, CloseFails, Go, GoWith
<1>7. CASE CloseWritten(t)
  BY <1>0, <1>7 DEF TypeOK, CloseWritten, Go, GoWith
<1>8. CASE CloseDone(t)
  BY <1>0, <1>8, ResponseTypes DEF TypeOK, CloseDone, Go, GoWith
<1>9. CASE CloseReads(t)
  BY <1>0, <1>9, ReadType DEF CloseReads
<1>10. CASE CloseReadsOn(t)
  BY <1>0, <1>10, ReadType DEF CloseReadsOn
<1>11. CASE CloseReadCancelled(t)
  <2>1. queue' \in Queues
    BY <1>11 DEF CloseReadCancelled, TypeOK, Queues
  <2> QED
    BY <1>0, <1>11, <2>1 DEF TypeOK, CloseReadCancelled, Go, GoWith
<1> QED
  BY <1>1, <1>2, <1>3, <1>4, <1>5, <1>6, <1>7, <1>8, <1>9, <1>10, <1>11

LEMMA TypeCloseGot ==
  ASSUME TypeOK, NEW t \in Tasks, CloseGot(t)
  PROVE  TypeOK'
<1>1. queue' \in Queues
  BY TakenType DEF CloseGot
<1>2. (\A code \in PeerCodes : [ws EXCEPT !.code = code] \in Responses) /\ Abnormal(ws) \in Responses
  BY ResponseTypes DEF TypeOK, PeerCodes
<1>3. ws' \in Responses
  BY <1>2, ResponseTypes DEF CloseGot, TypeOK
<1> QED
  BY <1>1, <1>3 DEF TypeOK, CloseGot, Go, GoWith, Closers, Futures

LEMMA PingPongType ==
  ASSUME TypeOK, NEW STATE h, h \in Heartbeats, PingPongFails(h), UNCHANGED <<use, pc, cpu>>
  PROVE  TypeOK'
<1>1. CASE ws.closed
  BY <1>1 DEF PingPongFails, TypeOK
<1>2. CASE ~ws.closed
  <2>1. /\ Released(queue, "done") \in [Tasks -> Futures]
        /\ Fed(queue, "error") \in Queues
    BY ReleasedType, FedType DEF Futures, TypeOK, Messages
  <2>2. Abnormal(SetClosed(ws)) \in Responses /\ CancelHeartbeat(h) \in Heartbeats
    BY ResponseTypes, HeartbeatTypes DEF TypeOK
  <2> QED
    BY <1>2, <2>1, <2>2 DEF PingPongFails, TypeOK
<1> QED
  BY <1>1, <1>2

LEMMA TypeEnvironment ==
  ASSUME TypeOK,
         \/ \E t \in Tasks : Cancel(t) \/ CloseTimeout(t) \/ Drained(t)
         \/ PeerMessage \/ ProtocolError \/ PeerCloses \/ ConnectionLost \/ HeartbeatStep
  PROVE  TypeOK'
<1>0. /\ ws \in Responses /\ hb \in Heartbeats /\ queue \in Queues
      /\ DataReceived(hb) \in Heartbeats
      /\ Released(queue, "done") \in [Tasks -> Futures]
      /\ Released(queue, "failed") \in [Tasks -> Futures]
  BY HeartbeatTypes, ReleasedType DEF TypeOK, Futures
<1>1. ASSUME NEW t \in Tasks, Cancel(t) \/ CloseTimeout(t) \/ Drained(t)
      PROVE  TypeOK'
  BY <1>1 DEF TypeOK, Cancel, CloseTimeout, Abort, Drained, Futures
<1>2. CASE PeerMessage
  <2>1. PICK msg \in {"text", "ping", "close"} : PeerSends(msg)
    BY <1>2 DEF PeerMessage
  <2>2. Fed(queue, msg) \in Queues
    BY <1>0, FedType DEF Messages
  <2> QED
    BY <1>0, <2>1, <2>2 DEF TypeOK, PeerSends
<1>3. CASE ProtocolError
  <2>1. queue' \in Queues
    BY <1>0, <1>3 DEF ProtocolError, Queues
  <2> QED
    BY <1>0, <1>3, <2>1 DEF TypeOK, ProtocolError
<1>4. CASE PeerCloses
  BY <1>0, <1>4, ResponseTypes DEF TypeOK, PeerCloses, taskVars
<1>5. CASE ConnectionLost
  <2>1. queue' \in Queues
    BY <1>0, <1>5 DEF ConnectionLost, Queues
  <2>2. ws' \in Responses
    BY <1>0, <1>5, ResponseTypes DEF ConnectionLost
  <2> QED
    BY <1>0, <1>5, <2>1, <2>2 DEF TypeOK, ConnectionLost
<1>6. CASE FlushHeartbeatReset
  BY <1>0, <1>6, HeartbeatTypes DEF TypeOK, FlushHeartbeatReset, taskVars
<1>7. CASE HeartbeatDeferred
  BY <1>0, <1>7, HeartbeatTypes DEF TypeOK, HeartbeatDeferred, taskVars
<1>8. CASE SendHeartbeat
  <2> DEFINE armed == [hb EXCEPT !.timer = FALSE, !.stale = FALSE, !.pong = TRUE]
  <2>0. armed \in Heartbeats /\ [armed EXCEPT !.ping = TRUE] \in Heartbeats
    <3>1. armed \in Heartbeats
      BY <1>0, HeartbeatTypes
    <3> HIDE DEF armed
    <3> QED
      BY <3>1, HeartbeatTypes
  <2>1. CASE PingPongFails(armed)
    BY <1>8, <2>0, <2>1, PingPongType DEF SendHeartbeat
  <2>2. CASE (hb' = armed \/ hb' = [armed EXCEPT !.ping = TRUE]) /\ UNCHANGED <<ws, queue, fut>>
    <3> HIDE DEF armed
    <3> QED
      BY <1>8, <2>0, <2>2 DEF SendHeartbeat, TypeOK
  <2> QED
    BY <1>8, <2>1, <2>2 DEF SendHeartbeat
<1>9. CASE PingTaskDone
  <2> DEFINE done == [hb EXCEPT !.ping = FALSE]
  <2>0. done \in Heartbeats
    BY <1>0, HeartbeatTypes
  <2>1. CASE PingPongFails(done)
    BY <1>9, <2>0, <2>1, PingPongType DEF PingTaskDone
  <2>2. CASE hb' = done /\ UNCHANGED <<ws, queue, fut>>
    BY <1>9, <2>0, <2>2 DEF PingTaskDone, TypeOK
  <2> QED
    BY <1>9, <2>1, <2>2 DEF PingTaskDone
<1>10. CASE PongNotReceived
  BY <1>0, <1>10, PingPongType, HeartbeatTypes DEF PongNotReceived
<1> QED
  BY <1>1, <1>2, <1>3, <1>4, <1>5, <1>6, <1>7, <1>8, <1>9, <1>10 DEF HeartbeatStep

LEMMA TypeInit == Init => TypeOK
<1> SUFFICES ASSUME Init PROVE TypeOK
  OBVIOUS
<1>1. hb \in Heartbeats
  BY ClientAssumption DEF Init, Heartbeats
<1>2. ws \in Responses /\ queue \in Queues
  BY EmptySeq DEF Init, Responses, Queues
<1> QED
  BY <1>1, <1>2 DEF Init, TypeOK, Closers, Futures

LEMMA TypeNext == TypeOK /\ [Next]_vars => TypeOK'
<1> SUFFICES ASSUME TypeOK, [Next]_vars PROVE TypeOK'
  OBVIOUS
<1>1. ASSUME NEW t \in Tasks, Step(t) PROVE TypeOK'
  BY <1>1, TypeReceive, TypeGot, TypeClose, TypeCloseGot DEF Step
<1>2. CASE UNCHANGED vars
  BY <1>2 DEF vars, taskVars, TypeOK
<1> QED
  BY <1>1, <1>2, TypeEnvironment DEF Next

\* In every reachable state each variable has its type.
THEOREM TypeCorrect == Spec => []TypeOK
<1> QED
  BY TypeInit, TypeNext, PTL DEF Spec

(* ---------------------- how tasks and futures move ---------------------- *)

Awaits == {"read", "pongWrite", "closeWait", "closeWrite", "closeRead"}
Runs == {"receive", "got", "pong", "close", "closeSend", "closeNext", "closeMore", "closeGot"}
Reads == {"read", "got"}
Past == {"closeWrite", "closeNext", "closeMore", "closeRead", "closeGot"}
Waits(t, at) == pc[t] = at /\ fut[t] = "pending"

\* A task has a future exactly when it awaits one, and the task that runs is the
\* one in the middle of a call.
Control ==
  \A t \in Tasks : /\ fut[t] = "none" <=> pc[t] \notin Awaits
                   /\ cpu = t <=> pc[t] \in Runs

\* A future is completed.
Completed(u) == fut'[u] = fut[u] \/ (fut[u] = "pending" /\ fut'[u] = "done")

\* The task t goes on at one of the steps to; of other tasks only futures are completed.
Moves(t, to) ==
  /\ cpu \in {t, NoTask} /\ pc'[t] \in to
  /\ fut'[t] = IF pc'[t] \in Awaits THEN "pending" ELSE "none"
  /\ cpu' = IF pc'[t] \in Runs THEN t ELSE NoTask
  /\ \A u \in Tasks \ {t} : pc'[u] = pc[u] /\ Completed(u)

\* A move keeps futures and tasks in step.
LEMMA ControlMoves ==
  ASSUME TypeOK, Control, NEW t \in Tasks, NEW to, Moves(t, to)
  PROVE  Control'
<1>1. NoTask \notin Tasks /\ Awaits \cap Runs = {}
  BY ClientAssumption DEF Awaits, Runs
<1>2. ASSUME NEW u \in Tasks \ {t}
      PROVE  /\ fut'[u] = "none" <=> pc'[u] \notin Awaits
             /\ cpu' = u <=> pc'[u] \in Runs
  BY <1>1, <1>2 DEF Control, Moves, Completed
<1>3. /\ fut'[t] = "none" <=> pc'[t] \notin Awaits
      /\ cpu' = t <=> pc'[t] \in Runs
  BY <1>1 DEF Moves
<1> QED
  BY <1>2, <1>3 DEF Control

\* GoWith and its kin are moves.
LEMMA GoMoves ==
  ASSUME TypeOK, NEW t \in Tasks, NEW at \in Runs \cup {"idle"}, cpu \in {t, NoTask}, Go(t, at)
  PROVE  Moves(t, {at})
BY DEF TypeOK, Go, GoWith, Moves, Completed, Awaits, Runs

LEMMA GotMoves ==
  ASSUME TypeOK, NEW t \in Tasks, NEW at \in Runs \cup {"idle"}, cpu \in {t, NoTask},
         GoWith(t, at, CloserWoken)
  PROVE  Moves(t, {at})
BY DEF TypeOK, GoWith, CloserWoken, Moves, Completed, Awaits, Runs

LEMMA AwaitMoves ==
  ASSUME TypeOK, NEW t \in Tasks, NEW at \in Awaits, cpu \in {t, NoTask}, Await(t, at)
  PROVE  Moves(t, {at})
BY DEF TypeOK, Await, Moves, Completed, Awaits, Runs

LEMMA ReadMoves ==
  ASSUME TypeOK, NEW t \in Tasks, NEW wait \in Awaits, NEW got \in Runs, cpu \in {t, NoTask},
         fut[t] = "none", Read(t, wait, got)
  PROVE  /\ Moves(t, {wait, got})
         /\ pc'[t] = wait => queue'.waiter = t
         /\ pc'[t] = got => queue'.waiter = queue.waiter
<1>1. CASE queue.buffer # <<>> \/ queue.eof
  BY <1>1 DEF TypeOK, Read, Moves, Completed, Awaits, Runs
<1>2. CASE ~ (queue.buffer # <<>> \/ queue.eof)
  BY <1>2 DEF TypeOK, Queues, Read, Moves, Completed, Awaits, Runs
<1> QED
  BY <1>1, <1>2

(* ------------------------- the inductive invariant ---------------------- *)

\* Once the socket is closed or closing no receive() waits for a message; before,
\* the one that waits is the waiter of the queue.
Reading ==
  \A t \in Tasks : Waits(t, "read") => ~ws.closed /\ ~ws.closing /\ queue.waiter = t

\* Who comes to the test of _closed has broken the receive() there was, and one
\* call at most goes on beyond it.
Closing ==
  /\ \A t \in Tasks : pc[t] = "closeWait" => ws.closing
  /\ \A t \in Tasks : pc[t] = "closeSend" => ~ws.waiting \/ ws.closing
  /\ \A t \in Tasks : pc[t] \in Past => ws.closed
  /\ \A t, u \in Tasks : pc[t] \in Past /\ pc[u] \in Past => t = u

\* The CLOSE is sent by the call that closes the socket, which also gives the
\* connection up.
Frames ==
  /\ ws.closeFrames <= 1 /\ (~ws.closed => ws.closeFrames = 0)
  /\ ws.closed /\ ws.transport = "open" => \E t \in Tasks : pc[t] \in Past

\* Where no task is cancelled, none removes the waiter of another.
Uncancelled ==
  use.cancellable = {} =>
    \A t \in Tasks : /\ pc[t] = "read" => fut[t] # "cancelled"
                     /\ Waits(t, "closeRead") => queue.waiter = t

Sound == Control /\ OneReceiver /\ Reading /\ Closing /\ Frames /\ Uncancelled

(* ------------------------ what the actions do --------------------------- *)

\* A step of a call that neither reads nor closes.
Passes(t) ==
  /\ pc[t] \notin Reads \cup Past /\ Moves(t, {"idle", "receive", "close", "pongWrite"})
  /\ UNCHANGED <<use, ws, queue>>

LEMMA PassesEffect ==
  ASSUME TypeOK, Control, NEW t \in Tasks,
         \/ ReceiveRefused(t) \/ ReceiveCloses(t) \/ Pong(t) \/ PongWritten(t)
         \/ CloseWaitCancelled(t) \/ CloseTwice(t)
  PROVE  Passes(t)
<1> USE DEF Passes, Reads, Past
<1>0. \A at : Running(t, at) => pc[t] = at /\ cpu \in {t, NoTask}
  BY DEF Running
<1>00. \A at : Woken(t, at) \/ Cancelled(t, at) => pc[t] = at /\ cpu \in {t, NoTask}
  BY DEF Woken, Cancelled, Resumes, Idle
<1>1. CASE ReceiveRefused(t)
  BY <1>0, <1>1, GoMoves DEF ReceiveRefused, Moves, Runs
<1>2. CASE ReceiveCloses(t)
  BY <1>2 DEF ReceiveCloses, Calls, Running, Idle, Control, Moves, Completed, TypeOK, Awaits, Runs
<1>3. CASE Pong(t)
  BY <1>0, <1>3, GoMoves, AwaitMoves DEF Pong, Moves, Runs, Awaits
<1>4. CASE PongWritten(t)
  BY <1>00, <1>4, GoMoves DEF PongWritten, Moves, Runs
<1>5. CASE CloseWaitCancelled(t)
  BY <1>00, <1>5, GoMoves DEF CloseWaitCancelled, Moves, Runs
<1>6. CASE CloseTwice(t)
  BY <1>0, <1>6, GoMoves DEF CloseTwice, Moves, Runs
<1> QED
  BY <1>1, <1>2, <1>3, <1>4, <1>5, <1>6

\* receive() begins to read.
Begins(t) ==
  /\ ~ws.waiting /\ ~ws.closed /\ ~ws.closing
  /\ pc[t] \notin Reads \cup Past /\ Moves(t, Reads) /\ UNCHANGED use
  /\ (pc'[t] = "read" => queue'.waiter = t) /\ (pc'[t] = "got" => queue'.waiter = queue.waiter)
  /\ ws' = [ws EXCEPT !.waiting = TRUE]

LEMMA BeginsEffect ==
  ASSUME TypeOK, Control, NEW t \in Tasks, Receive(t)
  PROVE  Begins(t)
<1>1. pc[t] \in {"idle", "receive"} /\ cpu \in {t, NoTask}
  BY DEF Receive, Calls, Running, Idle
<1>2. fut[t] = "none"
  BY <1>1 DEF Control, Awaits
<1>3. Read(t, "read", "got")
  BY DEF Receive
<1>4. /\ Moves(t, Reads) /\ (pc'[t] = "read" => queue'.waiter = t)
      /\ (pc'[t] = "got" => queue'.waiter = queue.waiter)
  BY <1>1, <1>2, <1>3, ReadMoves DEF Awaits, Runs, Reads
<1> QED
  BY <1>1, <1>4 DEF Receive, Begins, Reads, Past

\* receive() has read, or was cancelled.
Ends(t) ==
  /\ pc[t] \in Reads /\ Moves(t, {"idle", "pong", "close"}) /\ UNCHANGED use
  /\ \/ queue'.waiter = queue.waiter
     \/ use.cancellable # {} /\ queue'.waiter = NoTask
  /\ ~ws'.waiting /\ ws'.closed = ws.closed /\ (ws.closing => ws'.closing)
  /\ ws'.transport = ws.transport /\ ws'.closeFrames = ws.closeFrames

LEMMA EndsEffect ==
  ASSUME TypeOK, Uncancelled, NEW t \in Tasks, Got(t) \/ GotCancelled(t)
  PROVE  Ends(t)
<1>0. ws \in Responses
  BY DEF TypeOK
<1>1. CASE Got(t)
  <2>1. pc[t] \in Reads /\ cpu \in {t, NoTask}
    <3>1. Running(t, "got") \/ Answered(t, "read")
      BY <1>1 DEF Got
    <3> QED
      BY <3>1 DEF Running, Answered, Resumes, Idle, Reads
  <2>2. UNCHANGED use /\ queue'.waiter = queue.waiter
    BY <1>1, TakenType DEF Got
  <2>3. Found(t) \in Messages \cup {"eof", "protocol"}
    BY FoundType
  <2>4. \E at \in {"idle", "pong", "close"} : GoWith(t, at, CloserWoken)
    BY <1>1, <2>3 DEF Got, Messages
  <2>5. \/ ws' \in {NotWaiting(ws), SetClosing(NotWaiting(ws)),
                    [NotWaiting(ws) EXCEPT !.code = "ok"], [NotWaiting(ws) EXCEPT !.code = "protocol"]}
        \/ \E code \in PeerCodes : ws' = SetClosing([NotWaiting(ws) EXCEPT !.code = code])
    BY <1>1, <2>3 DEF Got, Messages
  <2>6. Moves(t, {"idle", "pong", "close"})
    BY <2>1, <2>4, GotMoves DEF Moves, Runs
  <2> QED
    BY <1>0, <2>1, <2>2, <2>5, <2>6 DEF Ends, NotWaiting, SetClosing, Responses
<1>2. CASE GotCancelled(t)
  <2>1. pc[t] = "read" /\ cpu = NoTask /\ fut[t] = "cancelled"
    BY <1>2 DEF GotCancelled, Cancelled, Resumes, Idle
  <2>2. Moves(t, {"idle"})
    BY <1>2, <2>1, GotMoves DEF GotCancelled, Runs
  <2>3. queue'.waiter = NoTask
    BY <1>2 DEF GotCancelled, TypeOK, Queues
  <2>4. use.cancellable # {}
    BY <2>1 DEF Uncancelled
  <2> QED
    BY <1>0, <1>2, <2>1, <2>2, <2>3, <2>4 DEF GotCancelled, Ends, Moves, NotWaiting, Responses, Reads
<1> QED
  BY <1>1, <1>2

\* A step of close() after its CLOSE, the last of which ends it.
Advances(t) ==
  /\ pc[t] \in Past /\ Moves(t, Past \cup {"idle"}) /\ UNCHANGED use
  /\ \/ pc'[t] = "closeRead" /\ queue'.waiter = t
     \/ pc'[t] # "closeRead" /\ queue'.waiter \in {queue.waiter, NoTask}
  /\ ws'.waiting = ws.waiting /\ ws'.closed = ws.closed /\ ws'.closing = ws.closing
  /\ ws'.closeFrames = ws.closeFrames
  /\ \/ pc'[t] = "idle" /\ ws'.transport # "open"
     \/ pc'[t] # "idle" /\ ws'.transport = ws.transport

LEMMA AdvancesEffect ==
  ASSUME TypeOK, Control, NEW t \in Tasks,
         \/ CloseWritten(t) \/ CloseDone(t) \/ CloseReads(t) \/ CloseReadsOn(t)
         \/ CloseGot(t) \/ CloseReadCancelled(t)
  PROVE  Advances(t)
<1>0. ws \in Responses /\ queue \in Queues
  BY DEF TypeOK
<1>1. /\ pc[t] \in Past /\ cpu \in {t, NoTask}
      /\ CloseReads(t) \/ CloseReadsOn(t) => fut[t] = "none"
  BY DEF CloseWritten, CloseDone, CloseReads, CloseReadsOn, CloseGot, CloseReadCancelled,
         Running, Answered, Woken, Cancelled, Resumes, Idle, Past, Control, Awaits
<1>2. ASSUME NEW w \in {CloseResponse(ws), Abnormal(ws)} \cup {CloseResponse([ws EXCEPT !.code = c]) : c \in PeerCodes}
      PROVE  /\ w.waiting = ws.waiting /\ w.closed = ws.closed /\ w.closing = ws.closing
             /\ w.closeFrames = ws.closeFrames /\ w.transport # "open"
  BY <1>0, <1>2 DEF CloseResponse, Abnormal, Responses
<1>3. /\ Go(t, "idle") => Moves(t, {"idle"})
      /\ Go(t, "closeNext") => Moves(t, {"closeNext"})
      /\ Go(t, "closeMore") => Moves(t, {"closeMore"})
  BY <1>1, GoMoves DEF Runs
<1>4. CASE CloseWritten(t)
  BY <1>0, <1>1, <1>2, <1>3, <1>4 DEF CloseWritten, Advances, Moves, Past
<1>5. CASE CloseDone(t)
  BY <1>0, <1>1, <1>2, <1>3, <1>5 DEF CloseDone, Advances, Moves, Past
<1>6. CASE CloseReads(t) \/ CloseReadsOn(t)
  <2>1. Read(t, "closeRead", "closeGot") /\ UNCHANGED <<use, ws>>
    BY <1>6 DEF CloseReads, CloseReadsOn
  <2>2. /\ Moves(t, {"closeRead", "closeGot"})
        /\ pc'[t] = "closeRead" => queue'.waiter = t
        /\ pc'[t] = "closeGot" => queue'.waiter = queue.waiter
    BY <1>1, <1>6, <2>1, ReadMoves DEF Awaits, Runs
  <2> QED
    BY <1>1, <2>1, <2>2 DEF Advances, Moves, Past
<1>7. CASE CloseGot(t)
  <2>1. UNCHANGED use /\ queue'.waiter = queue.waiter
    BY <1>7, TakenType DEF CloseGot
  <2> QED
    BY <1>0, <1>1, <1>2, <1>3, <1>7, <2>1 DEF CloseGot, Advances, Moves, Past
<1>8. CASE CloseReadCancelled(t)
  BY <1>0, <1>1, <1>2, <1>3, <1>8 DEF CloseReadCancelled, Advances, Moves, Past, Queues
<1> QED
  BY <1>4, <1>5, <1>6, <1>7, <1>8

\* close() tells a receive() to stop.
Breaks(t) ==
  /\ pc[t] \notin Reads \cup Past /\ Moves(t, {"closeWait"}) /\ UNCHANGED use
  /\ queue'.waiter = NoTask /\ \A u \in Tasks \ {t} : u = queue.waiter => fut'[u] # "pending"
  /\ ws'.waiting = ws.waiting /\ ws'.closed = ws.closed /\ ws'.closing
  /\ ws'.transport = ws.transport /\ ws'.closeFrames = ws.closeFrames

LEMMA BreaksEffect ==
  ASSUME TypeOK, Control, NEW t \in Tasks, CloseBreaksReceive(t)
  PROVE  Breaks(t)
<1>1. pc[t] \in {"idle", "close"} /\ cpu \in {t, NoTask}
  BY DEF CloseBreaksReceive, Calls, Running, Idle
<1>2. queue' = Fed(queue, "closing") /\ queue'.waiter = NoTask
  BY FedType DEF CloseBreaksReceive, TypeOK, Messages
<1>3. fut' = [Released(queue, "done") EXCEPT ![t] = "pending"]
  BY DEF CloseBreaksReceive
<1>4. /\ fut'[t] = "pending"
      /\ \A u \in Tasks \ {t} : Completed(u) /\ (u = queue.waiter => fut'[u] # "pending")
  BY <1>3 DEF Released, Completed
<1>5. Moves(t, {"closeWait"})
  BY <1>1, <1>4 DEF CloseBreaksReceive, Moves, TypeOK, Awaits, Runs
<1>6. /\ ws'.waiting = ws.waiting /\ ws'.closed = ws.closed /\ ws'.closing
      /\ ws'.transport = ws.transport /\ ws'.closeFrames = ws.closeFrames
  BY DEF CloseBreaksReceive, SetClosing, TypeOK, Responses
<1> QED
  BY <1>1, <1>2, <1>4, <1>5, <1>6 DEF Breaks, CloseBreaksReceive, Reads, Past

\* close() comes to the test of _closed.
Arrives(t) ==
  /\ pc[t] \notin Reads \cup Past /\ Moves(t, {"closeSend"}) /\ UNCHANGED <<use, ws, queue>>
  /\ pc[t] = "closeWait" \/ ~ws.waiting \/ ws.closing

LEMMA ArrivesEffect ==
  ASSUME TypeOK, NEW t \in Tasks, CloseDirect(t)
  PROVE  Arrives(t)
<1>1. /\ pc[t] \in {"idle", "close", "closeWait"} /\ cpu \in {t, NoTask}
      /\ pc[t] = "closeWait" \/ ~ws.waiting \/ ws.closing
  BY DEF CloseDirect, Calls, Woken, Resumes, Running, Idle
<1>2. Moves(t, {"closeSend"})
  BY <1>1, GoMoves DEF CloseDirect, Runs
<1> QED
  BY <1>1, <1>2 DEF CloseDirect, Arrives, Reads, Past

\* close() marks the socket closed and sends CLOSE, or fails to.
Sends(t) ==
  /\ pc[t] = "closeSend" /\ ~ws.closed /\ Moves(t, {"closeNext", "closeWrite", "idle"})
  /\ UNCHANGED <<use, queue>> /\ ws'.closed /\ ws'.waiting = ws.waiting /\ ws'.closing = ws.closing
  /\ \/ pc'[t] # "idle" /\ ws'.closeFrames = ws.closeFrames + 1
     \/ pc'[t] = "idle" /\ ws'.closeFrames = ws.closeFrames /\ ws'.transport # "open"

LEMMA SendsEffect ==
  ASSUME TypeOK, NEW t \in Tasks, CloseSends(t) \/ CloseFails(t)
  PROVE  Sends(t)
<1>0. ws \in Responses
  BY DEF TypeOK
<1>1. pc[t] = "closeSend" /\ cpu \in {t, NoTask} /\ ~ws.closed
  BY DEF CloseSends, CloseFails, Running
<1>2. CASE CloseSends(t)
  <2>1. Moves(t, {"closeNext"}) \/ Moves(t, {"closeWrite"})
    BY <1>1, <1>2, GoMoves, AwaitMoves DEF CloseSends, Awaits, Runs
  <2>2. /\ ws'.closed /\ ws'.waiting = ws.waiting /\ ws'.closing = ws.closing
        /\ ws'.closeFrames = ws.closeFrames + 1
    BY <1>0, <1>2 DEF CloseSends, SetClosed, Responses
  <2> QED
    BY <1>1, <1>2, <2>1, <2>2 DEF CloseSends, Sends, Moves
<1>3. CASE CloseFails(t)
  <2>1. Moves(t, {"idle"})
    BY <1>1, <1>3, GoMoves DEF CloseFails
  <2>2. /\ ws'.closed /\ ws'.waiting = ws.waiting /\ ws'.closing = ws.closing
        /\ ws'.closeFrames = ws.closeFrames /\ ws'.transport # "open"
    BY <1>0, <1>3 DEF CloseFails, SetClosed, Abnormal, CloseResponse, Responses
  <2> QED
    BY <1>1, <1>3, <2>1, <2>2 DEF CloseFails, Sends, Moves
<1> QED
  BY <1>2, <1>3

\* No task goes on.  Futures are completed or cancelled; the waiter of the queue is
\* released with its future; a ping or pong that is missed may close the socket.
Stays ==
  /\ UNCHANGED <<use, pc, cpu>>
  /\ \A u \in Tasks :
       /\ fut'[u] = "none" <=> fut[u] = "none"
       /\ fut'[u] = "pending" => fut[u] = "pending"
       /\ fut'[u] = "cancelled" /\ fut[u] # "cancelled" => pc[u] = "closeRead" \/ use.cancellable # {}
       /\ fut'[u] = "pending" /\ u = queue.waiter => queue'.waiter = u
  /\ ws'.waiting = ws.waiting /\ ws'.closing = ws.closing /\ ws'.closeFrames = ws.closeFrames
  /\ ws'.closed = ws.closed \/ (ws'.closed /\ ws'.transport # "open")
  /\ ws'.closed /\ ~ws.closed /\ ws.waiting /\ ~ws.closing =>
       \A u \in Tasks : u = queue.waiter => fut'[u] # "pending"
  /\ ws'.transport = "open" => ws.transport = "open"

LEMMA PingPongStays ==
  ASSUME TypeOK, NEW STATE h, PingPongFails(h), UNCHANGED <<use, pc, cpu>>
  PROVE  Stays
<1>0. ws \in Responses
  BY DEF TypeOK
<1>1. CASE ws.closed
  BY <1>0, <1>1 DEF PingPongFails, Stays, Responses
<1>2. CASE ~ws.closed
  <2>1. /\ ws'.waiting = ws.waiting /\ ws'.closing = ws.closing /\ ws'.closeFrames = ws.closeFrames
        /\ ws'.closed /\ ws'.transport # "open"
    BY <1>0, <1>2 DEF PingPongFails, SetClosed, Abnormal, CloseResponse, Responses
  <2>2. CASE ws.waiting /\ ~ws.closing
    <3>1. fut' = Released(queue, "done")
      BY <1>2, <2>2 DEF PingPongFails
    <3> QED
      BY <1>2, <2>1, <2>2, <3>1 DEF Released, Stays
  <2>3. CASE ~ (ws.waiting /\ ~ws.closing)
    BY <1>2, <2>1, <2>3 DEF PingPongFails, Stays
  <2> QED
    BY <2>2, <2>3
<1> QED
  BY <1>1, <1>2

LEMMA StaysEffect ==
  ASSUME TypeOK,
         \/ \E t \in Tasks : Cancel(t) \/ CloseTimeout(t) \/ Drained(t)
         \/ PeerMessage \/ ProtocolError \/ PeerCloses \/ ConnectionLost \/ HeartbeatStep
  PROVE  Stays
<1>0. ws \in Responses /\ queue \in Queues
  BY DEF TypeOK
<1>1. ASSUME NEW t \in Tasks, Cancel(t) \/ CloseTimeout(t) \/ Drained(t)
      PROVE  Stays
  BY <1>1 DEF TypeOK, Cancel, CloseTimeout, Abort, Drained, Stays
<1>2. CASE PeerMessage
  <2>1. PICK msg \in {"text", "ping", "close"} : PeerSends(msg)
    BY <1>2 DEF PeerMessage
  <2> QED
    BY <2>1 DEF PeerSends, Released, Stays
<1>3. CASE ProtocolError
  BY <1>3 DEF ProtocolError, Released, Stays
<1>4. CASE PeerCloses
  BY <1>0, <1>4 DEF PeerCloses, taskVars, Stays, Responses
<1>5. CASE ConnectionLost
  <2>1. /\ ws'.waiting = ws.waiting /\ ws'.closing = ws.closing /\ ws'.closeFrames = ws.closeFrames
        /\ ws'.closed = ws.closed /\ ws'.transport # "open"
    BY <1>0, <1>5 DEF ConnectionLost, Responses
  <2>2. fut' = Released(queue, "done") \/ UNCHANGED <<queue, fut>>
    BY <1>5 DEF ConnectionLost
  <2> QED
    BY <1>5, <2>1, <2>2 DEF ConnectionLost, Released, Stays
<1>6. CASE FlushHeartbeatReset \/ HeartbeatDeferred
  BY <1>6 DEF FlushHeartbeatReset, HeartbeatDeferred, taskVars, Stays
<1>7. CASE SendHeartbeat
  BY <1>7, PingPongStays DEF SendHeartbeat, Stays
<1>8. CASE PingTaskDone
  BY <1>8, PingPongStays DEF PingTaskDone, Stays
<1>9. CASE PongNotReceived
  BY <1>9, PingPongStays DEF PongNotReceived
<1> QED
  BY <1>1, <1>2, <1>3, <1>4, <1>5, <1>6, <1>7, <1>8, <1>9 DEF HeartbeatStep

(* ------------------- every kind keeps the invariant --------------------- *)

LEMMA PassesKeeps ==
  ASSUME TypeOK, TypeOK', Sound, NEW t \in Tasks, Passes(t)
  PROVE  Sound'
<1> USE ClientAssumption DEF Sound, Passes
<1>1. Control'
  BY ControlMoves
<1>2. OneReceiver'
  BY DEF OneReceiver, Moves, Reads, Past
<1>3. Reading'
  BY DEF Reading, Waits, Closing, OneReceiver, Moves, Completed, Reads, Past
<1>4. Closing'
  BY DEF Closing, Moves, Reads, Past, OneReceiver
<1>5. Frames'
  BY DEF Frames, Moves, Reads, Past, TypeOK, Responses
<1>6. Uncancelled'
  BY DEF Uncancelled, Waits, Closing, Moves, Completed, Reads, Past, Control, Awaits
<1> QED
  BY <1>1, <1>2, <1>3, <1>4, <1>5, <1>6

LEMMA BeginsKeeps ==
  ASSUME TypeOK, TypeOK', Sound, NEW t \in Tasks, Begins(t)
  PROVE  Sound'
<1> USE ClientAssumption DEF Sound, Begins
<1>1. Control'
  BY ControlMoves
<1>2. OneReceiver'
  BY DEF OneReceiver, Moves, Reads, Past
<1>3. Reading'
  BY DEF Reading, Waits, Closing, OneReceiver, Moves, Completed, Reads, Past
<1>4. Closing'
  <2>1. \A u \in Tasks : pc[u] # "closeSend" \/ u = t
    BY DEF Control, Runs, Moves
  <2>2. ws'.closed = ws.closed /\ ws'.closing = ws.closing
    BY DEF TypeOK, Responses
  <2> QED
    BY <2>1, <2>2 DEF Closing, Moves, Reads, Past
<1>5. Frames'
  BY DEF Frames, Moves, Reads, Past, TypeOK, Responses
<1>6. Uncancelled'
  BY DEF Uncancelled, Waits, Closing, Moves, Completed, Reads, Past, Control, Awaits
<1> QED
  BY <1>1, <1>2, <1>3, <1>4, <1>5, <1>6

LEMMA EndsKeeps ==
  ASSUME TypeOK, TypeOK', Sound, NEW t \in Tasks, Ends(t)
  PROVE  Sound'
<1> USE ClientAssumption DEF Sound, Ends
<1>1. Control'
  BY ControlMoves
<1>2. OneReceiver'
  BY DEF OneReceiver, Moves, Reads, Past
<1>3. Reading'
  BY DEF Reading, Waits, Closing, OneReceiver, Moves, Completed, Reads, Past
<1>4. Closing'
  BY DEF Closing, Moves, Reads, Past, OneReceiver
<1>5. Frames'
  BY DEF Frames, Moves, Reads, Past, TypeOK, Responses
<1>6. Uncancelled'
  BY DEF Uncancelled, Waits, Closing, Moves, Completed, Reads, Past, Control, Awaits
<1> QED
  BY <1>1, <1>2, <1>3, <1>4, <1>5, <1>6

LEMMA AdvancesKeeps ==
  ASSUME TypeOK, TypeOK', Sound, NEW t \in Tasks, Advances(t)
  PROVE  Sound'
<1> USE ClientAssumption DEF Sound, Advances
<1>1. Control'
  BY ControlMoves
<1>2. OneReceiver'
  BY DEF OneReceiver, Moves, Reads, Past
<1>3. Reading'
  BY DEF Reading, Waits, Closing, OneReceiver, Moves, Completed, Reads, Past
<1>4. Closing'
  BY DEF Closing, Moves, Reads, Past, OneReceiver
<1>5. Frames'
  BY DEF Frames, Moves, Reads, Past, TypeOK, Responses
<1>6. Uncancelled'
  BY DEF Uncancelled, Waits, Closing, Moves, Completed, Reads, Past, Control, Awaits
<1> QED
  BY <1>1, <1>2, <1>3, <1>4, <1>5, <1>6

LEMMA BreaksKeeps ==
  ASSUME TypeOK, TypeOK', Sound, NEW t \in Tasks, Breaks(t)
  PROVE  Sound'
<1> USE ClientAssumption DEF Sound, Breaks
<1>1. Control'
  BY ControlMoves
<1>2. OneReceiver'
  BY DEF OneReceiver, Moves, Reads, Past
<1>3. Reading'
  BY DEF Reading, Waits, Closing, OneReceiver, Moves, Completed, Reads, Past
<1>4. Closing'
  BY DEF Closing, Moves, Reads, Past, OneReceiver
<1>5. Frames'
  BY DEF Frames, Moves, Reads, Past, TypeOK, Responses
<1>6. Uncancelled'
  BY DEF Uncancelled, Waits, Closing, Moves, Completed, Reads, Past, Control, Awaits
<1> QED
  BY <1>1, <1>2, <1>3, <1>4, <1>5, <1>6

LEMMA ArrivesKeeps ==
  ASSUME TypeOK, TypeOK', Sound, NEW t \in Tasks, Arrives(t)
  PROVE  Sound'
<1> USE ClientAssumption DEF Sound, Arrives
<1>1. Control'
  BY ControlMoves
<1>2. OneReceiver'
  BY DEF OneReceiver, Moves, Reads, Past
<1>3. Reading'
  BY DEF Reading, Waits, Closing, OneReceiver, Moves, Completed, Reads, Past
<1>4. Closing'
  BY DEF Closing, Moves, Reads, Past, OneReceiver
<1>5. Frames'
  BY DEF Frames, Moves, Reads, Past, TypeOK, Responses
<1>6. Uncancelled'
  BY DEF Uncancelled, Waits, Closing, Moves, Completed, Reads, Past, Control, Awaits
<1> QED
  BY <1>1, <1>2, <1>3, <1>4, <1>5, <1>6

LEMMA SendsKeeps ==
  ASSUME TypeOK, TypeOK', Sound, NEW t \in Tasks, Sends(t)
  PROVE  Sound'
<1> USE ClientAssumption DEF Sound, Sends
<1>1. Control'
  BY ControlMoves
<1>2. OneReceiver'
  BY DEF OneReceiver, Moves, Reads, Past
<1>3. Reading'
  BY DEF Reading, Waits, Closing, OneReceiver, Moves, Completed, Reads, Past
<1>4. Closing'
  BY DEF Closing, Moves, Past
<1>5. Frames'
  BY DEF Frames, Moves, Reads, Past, TypeOK, Responses
<1>6. Uncancelled'
  BY DEF Uncancelled, Waits, Closing, Moves, Completed, Reads, Past, Control, Awaits
<1> QED
  BY <1>1, <1>2, <1>3, <1>4, <1>5, <1>6

LEMMA StaysKeeps ==
  ASSUME TypeOK, TypeOK', Sound, Stays
  PROVE  Sound'
<1> USE DEF Sound, Stays
<1>1. Control'
  BY DEF Control
<1>2. OneReceiver'
  BY DEF OneReceiver
<1>3. Reading'
  BY DEF Reading, Waits, OneReceiver
<1>4. Closing'
  BY DEF Closing
<1>5. Frames'
  BY DEF Frames
<1>6. Uncancelled'
  BY DEF Uncancelled, Waits
<1> QED
  BY <1>1, <1>2, <1>3, <1>4, <1>5, <1>6

LEMMA SoundInit == Init => Sound
BY ClientAssumption DEF Init, Sound, Control, OneReceiver, Reading, Waits, Closing, Frames, Uncancelled,
   Awaits, Runs, Past

LEMMA SoundNext == TypeOK /\ TypeOK' /\ Sound /\ [Next]_vars => Sound'
<1> SUFFICES ASSUME TypeOK, TypeOK', Sound, [Next]_vars PROVE Sound'
  OBVIOUS
<1>1. Control /\ Uncancelled
  BY DEF Sound
<1>2. ASSUME NEW t \in Tasks, Step(t) PROVE Sound'
  <2>1. CASE \/ ReceiveRefused(t) \/ ReceiveCloses(t) \/ Pong(t) \/ PongWritten(t)
             \/ CloseWaitCancelled(t) \/ CloseTwice(t)
    BY <1>1, <2>1, PassesEffect, PassesKeeps
  <2>2. CASE Receive(t)
    BY <1>1, <2>2, BeginsEffect, BeginsKeeps
  <2>3. CASE Got(t) \/ GotCancelled(t)
    BY <1>1, <2>3, EndsEffect, EndsKeeps
  <2>4. CASE CloseBreaksReceive(t)
    BY <1>1, <2>4, BreaksEffect, BreaksKeeps
  <2>5. CASE CloseDirect(t)
    BY <1>1, <2>5, ArrivesEffect, ArrivesKeeps
  <2>6. CASE CloseSends(t) \/ CloseFails(t)
    BY <1>1, <2>6, SendsEffect, SendsKeeps
  <2>7. CASE \/ CloseWritten(t) \/ CloseDone(t) \/ CloseReads(t) \/ CloseReadsOn(t)
             \/ CloseGot(t) \/ CloseReadCancelled(t)
    BY <1>1, <2>7, AdvancesEffect, AdvancesKeeps
  <2> QED
    BY <1>2, <2>1, <2>2, <2>3, <2>4, <2>5, <2>6, <2>7 DEF Step
<1>3. CASE \/ \E t \in Tasks : Cancel(t) \/ CloseTimeout(t) \/ Drained(t)
           \/ PeerMessage \/ ProtocolError \/ PeerCloses \/ ConnectionLost \/ HeartbeatStep
  BY <1>3, StaysEffect, StaysKeeps
<1>4. CASE UNCHANGED vars
  BY <1>4 DEF vars, taskVars, Sound, Control, OneReceiver, Reading, Waits, Closing, Frames, Uncancelled
<1> QED
  BY <1>2, <1>3, <1>4 DEF Next

\* In every reachable state the invariant holds.
THEOREM InvariantCorrect == Spec => [](TypeOK /\ Sound)
<1>1. Init => TypeOK /\ Sound
  BY TypeInit, SoundInit
<1>2. TypeOK /\ Sound /\ [Next]_vars => (TypeOK /\ Sound)'
  BY TypeNext, SoundNext
<1> QED
  BY <1>1, <1>2, PTL DEF Spec

\* However many tasks use a socket and whatever is cancelled: one receive() reads at
\* a time and is the one the next message wakes; one CLOSE is sent; and a socket that
\* is closed has given its connection up when no close() is going on.
THEOREM SocketCorrect ==
  Spec => [](TypeOK /\ OneReceiver /\ Reading /\ OneCloseFrame /\ ClosedIsReleased)
<1>1. Sound => OneReceiver /\ Reading /\ OneCloseFrame /\ ClosedIsReleased
  BY DEF Sound, Frames, OneCloseFrame, ClosedIsReleased, Past, Closers
<1> QED
  BY <1>1, InvariantCorrect, PTL

\* Where no task is cancelled the same is true of a close() that waits for the
\* peer's CLOSE: it is woken by it.
THEOREM SocketSoundCorrect == Spec => [](use.cancellable = {} => SocketSound)
<1>1. TypeOK /\ Sound => (use.cancellable = {} => SocketSound)
  BY DEF Sound, Frames, Reading, Uncancelled, Waits, SocketSound, ReaderIsWaiter, OneCloseFrame,
         ClosedIsReleased, Past, Closers
<1> QED
  BY <1>1, InvariantCorrect, PTL

(* ------------------------------ heartbeat ------------------------------- *)

\* A ping or pong that fails closes an open socket.
LEMMA PingPongArmed ==
  ASSUME TypeOK, NEW STATE h, PingPongFails(h), HeartbeatArmed, UNCHANGED use
  PROVE  HeartbeatArmed'
<1>1. CASE ws.closed
  BY <1>1 DEF PingPongFails, HeartbeatArmed
<1>2. CASE ~ws.closed
  <2>1. ws'.closed
    BY <1>2 DEF PingPongFails, SetClosed, Abnormal, CloseResponse, TypeOK, Responses
  <2> QED
    BY <2>1 DEF HeartbeatArmed
<1> QED
  BY <1>1, <1>2

\* A step of a task touches the heartbeat only when it closes the socket.
LEMMA ArmedStep ==
  ASSUME TypeOK, HeartbeatArmed, NEW t \in Tasks, Step(t)
  PROVE  HeartbeatArmed'
<1>0. ws \in Responses
  BY DEF TypeOK
<1> USE DEF HeartbeatArmed
<1>1. CASE UNCHANGED <<use, ws, hb>>
  BY <1>1
<1>2. CASE Receive(t) \/ GotCancelled(t)
  BY <1>0, <1>2 DEF Receive, GotCancelled, NotWaiting, Responses
<1>3. CASE Got(t)
  <2>1. Found(t) \in Messages \cup {"eof", "protocol"}
    BY FoundType
  <2>2. UNCHANGED use
    BY <1>3 DEF Got
  <2>3. CASE Found(t) \in {"close", "closing"}
    BY <1>0, <1>3, <2>3 DEF Got, NotWaiting, SetClosing, Responses
  <2>4. CASE Found(t) \in {"text", "error", "ping", "eof", "protocol"}
    BY <1>0, <1>3, <2>2, <2>4 DEF Got, NotWaiting, Responses
  <2> QED
    BY <2>1, <2>3, <2>4 DEF Messages
<1>4. CASE CloseBreaksReceive(t)
  BY <1>0, <1>4 DEF CloseBreaksReceive, SetClosing, Responses
<1>5. CASE CloseSends(t)
  BY <1>0, <1>5 DEF CloseSends, SetClosed, Responses
<1>6. CASE CloseFails(t)
  BY <1>0, <1>6 DEF CloseFails, SetClosed, Abnormal, CloseResponse, Responses
<1>7. CASE CloseWritten(t) \/ CloseDone(t) \/ CloseGot(t) \/ CloseReadCancelled(t)
  <2>1. /\ \/ ws' \in {ws, Abnormal(ws), CloseResponse(ws)}
           \/ \E code \in PeerCodes : ws' = CloseResponse([ws EXCEPT !.code = code])
        /\ UNCHANGED <<use, hb>>
    BY <1>7 DEF CloseWritten, CloseDone, CloseGot, CloseReadCancelled
  <2> QED
    BY <1>0, <2>1 DEF Abnormal, CloseResponse, Responses
<1> QED
  BY <1>1, <1>2, <1>3, <1>4, <1>5, <1>6, <1>7
     DEF Step, ReceiveRefused, ReceiveCloses, Pong, PongWritten, CloseDirect, CloseWaitCancelled,
         CloseTwice, CloseReads, CloseReadsOn

\* Whoever takes one of timer, reset and deadline away puts another, or closes.
LEMMA ArmedEnvironment ==
  ASSUME TypeOK, HeartbeatArmed,
         \/ \E t \in Tasks : Cancel(t) \/ CloseTimeout(t) \/ Drained(t)
         \/ PeerMessage \/ ProtocolError \/ PeerCloses \/ ConnectionLost \/ HeartbeatStep
  PROVE  HeartbeatArmed'
<1>0. ws \in Responses /\ hb \in Heartbeats
  BY DEF TypeOK
<1> USE DEF HeartbeatArmed
<1>1. CASE \E t \in Tasks : Cancel(t) \/ CloseTimeout(t) \/ Drained(t)
  BY <1>1 DEF Cancel, CloseTimeout, Abort, Drained
<1>2. CASE PeerMessage \/ ProtocolError
  <2>1. UNCHANGED <<use, ws>> /\ hb' = DataReceived(hb)
    BY <1>2 DEF PeerMessage, PeerSends, ProtocolError
  <2> QED
    BY <1>0, <2>1 DEF DataReceived, Heartbeats
<1>3. CASE PeerCloses \/ ConnectionLost
  BY <1>0, <1>3 DEF PeerCloses, ConnectionLost, Responses
<1>4. CASE FlushHeartbeatReset
  BY <1>0, <1>4 DEF FlushHeartbeatReset, ResetHeartbeat, Heartbeats
<1>5. CASE HeartbeatDeferred
  BY <1>0, <1>5 DEF HeartbeatDeferred, Heartbeats
<1>6. CASE SendHeartbeat
  <2> DEFINE armed == [hb EXCEPT !.timer = FALSE, !.stale = FALSE, !.pong = TRUE]
  <2>1. armed.pong /\ [armed EXCEPT !.ping = TRUE].pong
    BY <1>0 DEF Heartbeats
  <2> HIDE DEF armed
  <2>2. UNCHANGED use /\ (PingPongFails(armed) \/ (hb'.pong /\ UNCHANGED ws))
    BY <1>6, <2>1 DEF SendHeartbeat, armed
  <2> QED
    BY <2>1, <2>2, PingPongArmed
<1>7. CASE PingTaskDone
  <2> DEFINE done == [hb EXCEPT !.ping = FALSE]
  <2>1. done.timer = hb.timer /\ done.reset = hb.reset /\ done.pong = hb.pong
    BY <1>0 DEF Heartbeats
  <2> HIDE DEF done
  <2>2. UNCHANGED use /\ (PingPongFails(done) \/ (hb' = done /\ UNCHANGED ws))
    BY <1>7 DEF PingTaskDone, done
  <2> QED
    BY <2>1, <2>2, PingPongArmed
<1>8. CASE PongNotReceived
  BY <1>8, PingPongArmed DEF PongNotReceived
<1> QED
  BY <1>1, <1>2, <1>3, <1>4, <1>5, <1>6, <1>7, <1>8 DEF HeartbeatStep

\* An open socket that has a heartbeat never loses it: some timer, deferred reset or
\* deadline of a ping is there to find out that the peer is dead.
THEOREM HeartbeatCorrect == Spec => []HeartbeatArmed
<1>1. Init => HeartbeatArmed
  BY DEF Init, HeartbeatArmed
<1>2. TypeOK /\ HeartbeatArmed /\ [Next]_vars => HeartbeatArmed'
  BY ArmedStep, ArmedEnvironment DEF Next, vars, HeartbeatArmed
<1> QED
  BY <1>1, <1>2, TypeCorrect, PTL DEF Spec

(***************************************************************************)
(* The server's WebSocket, for every number of tasks, all of which may be  *)
(* cancelled anywhere: one task is next to get a message, one CLOSE is     *)
(* sent, and a socket that is closed gives its transport up.               *)
(*                                                                         *)
(* The invariant ServerSound says who is where.  A task that moves keeps   *)
(* it by the place it moves to; ServerMoves states what a step does to the *)
(* tasks, and ServerMoveKeeps what must hold of the response and the queue *)
(* with it.                                                                *)
(***************************************************************************)
CONSTANTS Heartbeat, Cancellable

\* The tasks, the queue's limit and the state are named as the client's.
Server == INSTANCE ServerWebSocket

(* -------------------------------- types --------------------------------- *)

\* The methods of the response keep its type ...
LEMMA ServerResponseTypes ==
  ASSUME NEW w \in Server!Responses
  PROVE  /\ Server!SetClosed(w) \in Server!Responses /\ Server!CloseTransport(w) \in Server!Responses /\ Server!NotWaiting(w) \in Server!Responses
         /\ \A c \in {"none", "ok", "abnormal", "peer", "error"} :
              /\ Server!SetClosing(w, c) \in Server!Responses /\ Server!SetCodeCloseTransport(w, c) \in Server!Responses
              /\ [w EXCEPT !.code = c] \in Server!Responses
         /\ [w EXCEPT !.waiting = TRUE] \in Server!Responses /\ [w EXCEPT !.abandoned = TRUE] \in Server!Responses
         /\ [w EXCEPT !.closeFrames = @ + 1] \in Server!Responses
         /\ \A s \in {"closing", "lost"} : [w EXCEPT !.transport = s] \in Server!Responses
         /\ \A t \in Tasks : [w EXCEPT !.closeWait = t] \in Server!Responses
<1>1. Server!SetClosed(w) \in Server!Responses /\ Server!CloseTransport(w) \in Server!Responses /\ Server!NotWaiting(w) \in Server!Responses
  BY DEF Server!Responses, Server!SetClosed, Server!CloseTransport, Server!NotWaiting
<1>2. ASSUME NEW c \in {"none", "ok", "abnormal", "peer", "error"}
      PROVE  /\ Server!SetClosing(w, c) \in Server!Responses /\ Server!SetCodeCloseTransport(w, c) \in Server!Responses
             /\ [w EXCEPT !.code = c] \in Server!Responses
  <2>1. Server!SetClosing(w, c) \in Server!Responses /\ [w EXCEPT !.code = c] \in Server!Responses
    BY DEF Server!Responses, Server!SetClosing
  <2>2. Server!SetCodeCloseTransport(w, c) \in Server!Responses
    BY DEF Server!Responses, Server!SetCodeCloseTransport, Server!CloseTransport
  <2> QED
    BY <2>1, <2>2
<1>3. [w EXCEPT !.waiting = TRUE] \in Server!Responses /\ [w EXCEPT !.abandoned = TRUE] \in Server!Responses
  BY DEF Server!Responses
<1>4. [w EXCEPT !.closeFrames = @ + 1] \in Server!Responses
  <2>1. w.closeFrames + 1 \in Nat
    BY DEF Server!Responses
  <2> QED
    BY <2>1 DEF Server!Responses
<1>5. /\ \A s \in {"closing", "lost"} : [w EXCEPT !.transport = s] \in Server!Responses
      /\ \A t \in Tasks : [w EXCEPT !.closeWait = t] \in Server!Responses
  BY DEF Server!Responses
<1> QED
  BY <1>1, <1>2, <1>3, <1>4, <1>5

\* ... and the steps of the heartbeat theirs.
LEMMA ServerHeartbeatTypes ==
  ASSUME NEW h \in Server!Heartbeats
  PROVE  /\ Server!CancelHeartbeat(h) \in Server!Heartbeats /\ Server!ResetHeartbeat(h) \in Server!Heartbeats
         /\ [h EXCEPT !.reset = TRUE] \in Server!Heartbeats
         /\ [h EXCEPT !.timer = FALSE, !.early = FALSE] \in Server!Heartbeats
         /\ [h EXCEPT !.early = FALSE] \in Server!Heartbeats /\ [h EXCEPT !.pong = FALSE] \in Server!Heartbeats
         /\ [h EXCEPT !.ping = FALSE] \in Server!Heartbeats /\ [h EXCEPT !.ping = TRUE] \in Server!Heartbeats
         /\ [h EXCEPT !.timer = FALSE, !.pong = TRUE] \in Server!Heartbeats
<1>1. Server!CancelHeartbeat(h) \in Server!Heartbeats
  BY DEF Server!Heartbeats, Server!CancelHeartbeat, Server!NoTimers
<1>2. Server!ResetHeartbeat(h) \in Server!Heartbeats /\ [h EXCEPT !.reset = TRUE] \in Server!Heartbeats
  BY DEF Server!Heartbeats, Server!ResetHeartbeat
<1>3. /\ [h EXCEPT !.timer = FALSE, !.early = FALSE] \in Server!Heartbeats
      /\ [h EXCEPT !.early = FALSE] \in Server!Heartbeats
  BY DEF Server!Heartbeats
<1>4. [h EXCEPT !.pong = FALSE] \in Server!Heartbeats /\ [h EXCEPT !.ping = FALSE] \in Server!Heartbeats
  BY DEF Server!Heartbeats
<1>5. [h EXCEPT !.timer = FALSE, !.pong = TRUE] \in Server!Heartbeats /\ [h EXCEPT !.ping = TRUE] \in Server!Heartbeats
  BY DEF Server!Heartbeats
<1> QED
  BY <1>1, <1>2, <1>3, <1>4, <1>5

\* What feed_data(), _release_waiter() and read() leave in the queue and in the futures.
LEMMA ServerFedType ==
  ASSUME queue \in Server!Queues, NEW msg \in Server!Messages
  PROVE  Server!Fed(queue, msg) \in Server!Queues /\ Server!Fed(queue, msg).waiter = NoTask
<1>1. Append(queue.buffer, msg) \in Seq(Server!Messages)
  BY AppendProperties DEF Server!Queues
<1> QED
  BY <1>1 DEF Server!Queues, Server!Fed

\* Waking the queue's waiter keeps the futures' type ...
LEMMA ServerReleasedType ==
  ASSUME Server!TypeOK, NEW how \in Server!Futures
  PROVE  Server!Released(how) \in [Tasks -> Server!Futures]
BY DEF Server!TypeOK, Server!Released

\* ... and so does telling a close() that receive() has left.
LEMMA ServerWokenType ==
  ASSUME Server!TypeOK
  PROVE  Server!CloserWoken \in [Tasks -> Server!Futures]
BY DEF Server!TypeOK, Server!CloserWoken, Server!Futures

\* A read finds a message, the end, or the exception.
LEMMA ServerFoundType ==
  ASSUME Server!TypeOK, NEW t \in Tasks
  PROVE  Server!Found(t) \in Server!Messages \cup {"eof", "invalid"}
<1>0. queue.buffer \in Seq(Server!Messages) /\ queue.failed \in BOOLEAN
  BY DEF Server!TypeOK, Server!Queues
<1>1. CASE queue.buffer # <<>>
  <2>1. Head(queue.buffer) \in Server!Messages
    BY <1>0, <1>1, HeadTailProperties
  <2> QED
    BY <1>1, <2>1 DEF Server!Found
<1>2. CASE queue.buffer = <<>>
  BY <1>0, <1>2 DEF Server!Found
<1> QED
  BY <1>1, <1>2

\* What a read takes leaves a queue, with the same waiter.
LEMMA ServerTakenType ==
  ASSUME Server!TypeOK, NEW t \in Tasks
  PROVE  Server!Taken(t) \in Server!Queues /\ Server!Taken(t).waiter = queue.waiter
<1>1. queue \in Server!Queues
  BY DEF Server!TypeOK
<1>2. CASE fut[t] = "failed" \/ queue.buffer = <<>>
  BY <1>1, <1>2 DEF Server!Taken
<1>3. CASE ~ (fut[t] = "failed" \/ queue.buffer = <<>>)
  <2>1. Tail(queue.buffer) \in Seq(Server!Messages)
    BY <1>1, <1>3, HeadTailProperties DEF Server!Queues
  <2> QED
    BY <1>1, <1>3, <2>1 DEF Server!Taken, Server!Queues
<1> QED
  BY <1>2, <1>3

(* ----------------------------- the invariant ---------------------------- *)

ServerReceives == {"read", "got"}
\* A close() that has sent its CLOSE, and one that need not wait for a receive() any more.
ServerSent == {"closeWrite", "closeNext", "closeWait", "closeEnd", "closeMore", "closeRead", "closeGot"}
ServerAlone(t) == pc[t] \in {"closeEnd", "closeMore", "closeRead", "closeGot"} \/ (pc[t] = "closeWait" /\ fut[t] = "done")

\* One task is in receive(), and _waiting says so.
ServerOneReceives ==
  \A t \in Tasks : pc[t] \in ServerReceives => ws.waiting /\ \A u \in Tasks : pc[u] \in ServerReceives => u = t

\* One task has sent CLOSE, on a socket that is closed, and reads only when
\* nobody else does.
ServerOneCloses ==
  \A t \in Tasks : /\ pc[t] \in ServerSent => ws.closed /\ \A u \in Tasks : pc[u] \in ServerSent => u = t
                   /\ ServerAlone(t) => ~ws.waiting

\* The waiter of the queue is in a read that nothing has ended but a cancellation.
ServerWaiterReads ==
  queue.waiter # NoTask =>
    pc[queue.waiter] \in {"read", "closeRead"} /\ fut[queue.waiter] \in {"pending", "cancelled"}

\* CLOSE is sent by who closes the socket; whoever has sent it gives the
\* transport up before it leaves, unless it is cancelled while it waits.
ServerGivesUp ==
  /\ ws.closeFrames <= 1 /\ (~ws.closed => ws.closeFrames = 0)
  /\ ws.closed /\ ~ws.abandoned /\ (\A t \in Tasks : pc[t] \notin ServerSent) => ws.transport # "open"

ServerSound == Server!TypeOK /\ ServerOneReceives /\ ServerOneCloses /\ ServerWaiterReads /\ Server!ReaderIsWaiter /\ ServerGivesUp

\* It is what the runs check, and more.
LEMMA ServerSoundIsSocketSound ==
  ASSUME ServerSound
  PROVE  Server!SocketSound
<1>1. ServerSent \subseteq Server!Closers
  BY DEF ServerSent, Server!Closers
<1>2. Server!ClosedIsReleased
  BY <1>1 DEF ServerSound, ServerGivesUp, Server!ClosedIsReleased
<1> QED
  BY <1>2 DEF ServerSound, Server!SocketSound

\* A task that is not reading, or has been answered, is not the waiter of the queue.
LEMMA ServerNotTheWaiter ==
  ASSUME ServerSound, NEW t \in Tasks, pc[t] \notin {"read", "closeRead"} \/ fut[t] \in {"done", "failed"}
  PROVE  queue.waiter # t
BY ClientAssumption DEF ServerSound, ServerWaiterReads

\* At the start nobody is anywhere.
LEMMA ServerSoundInit == Server!ServerAssumption /\ Server!Init => ServerSound
<1> SUFFICES ASSUME Server!ServerAssumption, Server!Init PROVE ServerSound
  OBVIOUS
<1>1. hb \in Server!Heartbeats
  BY DEF Server!Init, Server!Heartbeats, Server!NoTimers, Server!ServerAssumption
<1>2. ws \in Server!Responses /\ queue \in Server!Queues
  BY EmptySeq DEF Server!Init, Server!Responses, Server!Queues
<1>3. Server!TypeOK
  BY <1>1, <1>2 DEF Server!Init, Server!TypeOK, Server!Closers, Server!Futures
<1>4. ServerOneReceives /\ ServerOneCloses
  BY DEF Server!Init, ServerOneReceives, ServerOneCloses, ServerAlone, ServerReceives, ServerSent
<1>5. ServerWaiterReads /\ Server!ReaderIsWaiter /\ ServerGivesUp
  BY DEF Server!Init, ServerWaiterReads, Server!ReaderIsWaiter, ServerGivesUp
<1> QED
  BY <1>3, <1>4, <1>5 DEF ServerSound

(* ----------------------------- a task moves ----------------------------- *)

ServerPlaces == {"idle", "receive", "read", "got", "pong", "pongWrite"} \cup Server!Closers

\* t goes to the place at; what others await is at most completed.
ServerMoves(t, at) ==
  /\ at \in ServerPlaces /\ pc' = [pc EXCEPT ![t] = at]
  /\ fut' \in [Tasks -> Server!Futures] /\ cpu' \in Tasks \cup {NoTask}
  /\ \A u \in Tasks \ {t} : fut'[u] = fut[u] \/ (fut[u] = "pending" /\ fut'[u] # "pending")

\* Nobody is told that a receive() has left, except when it does.
ServerUntold(t) == \A u \in Tasks \ {t} : pc[u] = "closeWait" /\ fut'[u] = "done" => fut[u] = "done"

\* A task that goes on, ...
LEMMA ServerGoMoves ==
  ASSUME Server!TypeOK, NEW t \in Tasks, NEW at \in ServerPlaces, Server!Go(t, at)
  PROVE  ServerMoves(t, at) /\ ServerUntold(t) /\ fut'[t] = "none"
BY DEF Server!TypeOK, Server!Go, Server!GoWith, ServerMoves, ServerUntold, Server!Futures

\* ... one that leaves receive() and tells a close() that waits for it, ...
LEMMA ServerGotMoves ==
  ASSUME Server!TypeOK, NEW t \in Tasks, NEW at \in ServerPlaces, Server!GoWith(t, at, Server!CloserWoken)
  PROVE  ServerMoves(t, at) /\ fut'[t] = "none"
BY DEF Server!TypeOK, Server!GoWith, Server!CloserWoken, ServerMoves, Server!Futures

\* ... one that begins to wait, ...
LEMMA ServerAwaitMoves ==
  ASSUME Server!TypeOK, NEW t \in Tasks, NEW at \in ServerPlaces, Server!Await(t, at)
  PROVE  ServerMoves(t, at) /\ ServerUntold(t) /\ fut'[t] = "pending"
BY DEF Server!TypeOK, Server!Await, ServerMoves, ServerUntold, Server!Futures

\* ... and one that reads, which becomes the waiter if it has to wait.
LEMMA ServerReadMoves ==
  ASSUME Server!TypeOK, NEW t \in Tasks, NEW wait \in ServerPlaces, NEW got \in ServerPlaces, Server!Read(t, wait, got)
  PROVE  /\ queue' \in Server!Queues /\ ServerUntold(t)
         /\ \/ ServerMoves(t, got) /\ fut'[t] = "none" /\ queue'.waiter = queue.waiter
            \/ ServerMoves(t, wait) /\ fut'[t] = "pending" /\ queue'.waiter = t
         /\ \A u \in Tasks \ {t} : fut'[u] = fut[u]
<1>1. CASE queue.buffer # <<>> \/ queue.eof
  BY <1>1, ServerGoMoves DEF Server!Read, Server!Go, Server!GoWith, Server!TypeOK
<1>2. CASE ~(queue.buffer # <<>> \/ queue.eof)
  <2>1. queue' \in Server!Queues /\ queue'.waiter = t
    BY <1>2 DEF Server!Read, Server!TypeOK, Server!Queues
  <2> QED
    BY <1>2, <2>1, ServerAwaitMoves DEF Server!Read, Server!Await, Server!TypeOK
<1> QED
  BY <1>1, <1>2

\* A move keeps the invariant if it is right about _waiting and _closed, leaves
\* the queue's waiter to who reads, and gives the transport up.
LEMMA ServerMoveKeeps ==
  ASSUME ServerSound, NEW t \in Tasks, NEW at, ServerMoves(t, at),
         ws' \in Server!Responses, queue' \in Server!Queues, hb' \in Server!Heartbeats,
         \* _waiting
         at \in ServerReceives => ws'.waiting /\ (pc[t] \in ServerReceives \/ ~ws.waiting),
         ws'.waiting => ws.waiting \/ (at \in ServerReceives /\ ~ws.closed),
         ws.waiting /\ ~ws'.waiting => pc[t] \in ServerReceives /\ at \notin ServerReceives,
         \* _closed
         ws.closed => ws'.closed,
         at \in ServerSent => ws'.closed /\ (pc[t] \in ServerSent \/ ~ws.closed),
         ws'.closed /\ ~ws.closed => at \in ServerSent \/ ws'.transport # "open",
         at \in {"closeEnd", "closeMore", "closeRead", "closeGot"} \/ (at = "closeWait" /\ fut'[t] = "done") =>
           ServerAlone(t) \/ (pc[t] \in ServerSent /\ ~ws.waiting),
         ServerUntold(t) \/ ~ws'.waiting,
         \* the queue
         queue'.waiter \in {queue.waiter, t, NoTask},
         at \notin {"read", "closeRead"} => queue'.waiter # t,
         at \in {"read", "closeRead"} => queue'.waiter = t /\ fut'[t] = "pending",
         \A u \in Tasks \ {t} : queue'.waiter = u => fut'[u] = fut[u],
         queue'.waiter # queue.waiter =>
           \A u \in Tasks \ {t} : pc[u] \in {"read", "closeRead"} => fut'[u] # "pending",
         \* the transport
         ws'.closeFrames = ws.closeFrames \/ (~ws.closed /\ ws'.closed /\ ws'.closeFrames = 1),
         ws.transport # "open" => ws'.transport # "open",
         ws.abandoned => ws'.abandoned,
         pc[t] \in ServerSent /\ at \notin ServerSent => ws'.abandoned \/ ws'.transport # "open"
  PROVE  ServerSound'
<1> USE DEF ServerMoves
<1>0. /\ Server!TypeOK /\ pc[t] \in ServerPlaces
      /\ pc'[t] = at /\ \A u \in Tasks \ {t} : pc'[u] = pc[u]
  BY DEF ServerSound, Server!TypeOK, ServerPlaces
<1>1. Server!TypeOK'
  BY <1>0 DEF Server!TypeOK, ServerPlaces
<1>2. ServerOneReceives'
  <2>1. \A u \in Tasks : pc'[u] \in ServerReceives => ws'.waiting
    BY <1>0 DEF ServerSound, ServerOneReceives
  <2>2. ASSUME NEW u \in Tasks, NEW v \in Tasks, pc'[u] \in ServerReceives, pc'[v] \in ServerReceives
        PROVE  u = v
    BY <1>0, <2>2 DEF ServerSound, ServerOneReceives
  <2> QED
    BY <2>1, <2>2 DEF ServerOneReceives
<1>3. ServerOneCloses'
  <2>1. \A u \in Tasks : pc'[u] \in ServerSent => ws'.closed
    BY <1>0 DEF ServerSound, ServerOneCloses
  <2>2. ASSUME NEW u \in Tasks, NEW v \in Tasks, pc'[u] \in ServerSent, pc'[v] \in ServerSent
        PROVE  u = v
    BY <1>0, <2>2 DEF ServerSound, ServerOneCloses
  <2>3. ASSUME NEW u \in Tasks, ServerAlone(u)' PROVE ~ws'.waiting
    <3>1. CASE u = t
      <4>1. ~ws.waiting /\ pc[t] \in ServerSent
        BY <1>0, <2>3, <3>1 DEF ServerSound, ServerOneCloses, ServerAlone, ServerSent
      <4>2. ws.closed
        BY <4>1 DEF ServerSound, ServerOneCloses
      <4> QED
        BY <4>1, <4>2
    <3>2. CASE u # t
      <4>1. pc[u] = pc'[u] /\ pc[u] \in ServerSent
        BY <1>0, <2>3, <3>2 DEF ServerAlone, ServerSent
      <4>2. ServerAlone(u) \/ ~ws'.waiting
        BY <2>3, <3>2, <4>1 DEF ServerAlone, ServerUntold
      <4>3. ws.closed
        BY <4>1 DEF ServerSound, ServerOneCloses
      <4> QED
        BY <4>2, <4>3 DEF ServerSound, ServerOneCloses
    <3> QED
      BY <3>1, <3>2
  <2> QED
    BY <2>1, <2>2, <2>3 DEF ServerOneCloses
<1>4. ServerWaiterReads'
  <2> SUFFICES ASSUME queue'.waiter # NoTask
               PROVE  /\ pc'[queue'.waiter] \in {"read", "closeRead"}
                      /\ fut'[queue'.waiter] \in {"pending", "cancelled"}
    BY DEF ServerWaiterReads
  <2>1. CASE queue'.waiter = t
    BY <1>0, <2>1
  <2>2. CASE queue'.waiter # t
    <3>1. queue'.waiter = queue.waiter /\ queue.waiter \in Tasks \ {t}
      BY <2>2 DEF ServerSound, Server!TypeOK, Server!Queues
    <3>2. pc[queue.waiter] \in {"read", "closeRead"} /\ fut[queue.waiter] \in {"pending", "cancelled"}
      BY <3>1, ClientAssumption DEF ServerSound, ServerWaiterReads
    <3> QED
      BY <1>0, <3>1, <3>2
  <2> QED
    BY <2>1, <2>2
<1>5. Server!ReaderIsWaiter'
  <2> SUFFICES ASSUME NEW u \in Tasks, pc'[u] \in {"read", "closeRead"}, fut'[u] = "pending"
               PROVE  queue'.waiter = u
    BY DEF Server!ReaderIsWaiter
  <2>1. CASE u = t
    BY <1>0, <2>1
  <2>2. CASE u # t
    BY <1>0, <2>2 DEF ServerSound, Server!ReaderIsWaiter
  <2> QED
    BY <2>1, <2>2
<1>6. ServerGivesUp'
  <2>1. ws'.closeFrames <= 1 /\ (~ws'.closed => ws'.closeFrames = 0)
    BY DEF ServerSound, ServerGivesUp
  <2>2. ASSUME ws'.closed, ~ws'.abandoned, \A u \in Tasks : pc'[u] \notin ServerSent
        PROVE  ws'.transport # "open"
    <3>1. at \notin ServerSent
      BY <1>0, <2>2
    <3>2. CASE pc[t] \in ServerSent \/ ~ws.closed
      BY <2>2, <3>1, <3>2
    <3>3. CASE pc[t] \notin ServerSent /\ ws.closed
      <4>1. \A u \in Tasks : pc[u] \notin ServerSent
        BY <1>0, <2>2, <3>3
      <4> QED
        BY <2>2, <3>3, <4>1 DEF ServerSound, ServerGivesUp
    <3> QED
      BY <3>2, <3>3
  <2> QED
    BY <2>1, <2>2 DEF ServerGivesUp
<1> QED
  BY <1>1, <1>2, <1>3, <1>4, <1>5, <1>6 DEF ServerSound

\* While all tasks stay where they are, a future may be completed or cancelled,
\* and the response closed for good.
LEMMA ServerStayKeeps ==
  ASSUME ServerSound, UNCHANGED <<pc, cpu>>,
         ws' \in Server!Responses, queue' \in Server!Queues, hb' \in Server!Heartbeats, fut' \in [Tasks -> Server!Futures],
         \A u \in Tasks :
           /\ fut'[u] = "pending" => fut[u] = "pending"
           /\ pc[u] = "closeWait" /\ fut'[u] = "done" => fut[u] = "done",
         ws'.waiting = ws.waiting, ws'.closeFrames = ws.closeFrames, ws'.abandoned = ws.abandoned,
         ws.closed => ws'.closed, ws'.closed /\ ~ws.closed => ws'.transport # "open",
         ws.transport # "open" => ws'.transport # "open",
         \/ /\ queue'.waiter = queue.waiter
            /\ \A u \in Tasks : queue.waiter = u => fut'[u] \in {fut[u], "cancelled"}
         \/ /\ queue'.waiter = NoTask
            /\ \A u \in Tasks : pc[u] \in {"read", "closeRead"} => fut'[u] # "pending"
  PROVE  ServerSound'
<1>1. Server!TypeOK'
  BY DEF ServerSound, Server!TypeOK
<1>2. ServerOneReceives'
  BY DEF ServerSound, ServerOneReceives
<1>3. ServerOneCloses'
  BY DEF ServerSound, ServerOneCloses, ServerAlone
<1>4. ServerWaiterReads'
  <2>1. queue.waiter \in Tasks \cup {NoTask}
    BY DEF ServerSound, Server!TypeOK, Server!Queues
  <2> QED
    BY <2>1, ClientAssumption DEF ServerSound, ServerWaiterReads
<1>5. Server!ReaderIsWaiter'
  BY DEF ServerSound, Server!ReaderIsWaiter
<1>6. ServerGivesUp'
  BY DEF ServerSound, ServerGivesUp
<1> QED
  BY <1>1, <1>2, <1>3, <1>4, <1>5, <1>6 DEF ServerSound

(* ------------------------------- receive() ------------------------------ *)

\* A move that leaves the response and the queue alone, to a place that says nothing.
LEMMA ServerPassKeeps ==
  ASSUME ServerSound, NEW t \in Tasks, NEW at \in ServerPlaces, ServerMoves(t, at), ServerUntold(t),
         UNCHANGED <<ws, queue, hb>>, \A u \in Tasks \ {t} : fut'[u] = fut[u],
         pc[t] \notin {"read", "closeRead"} \cup ServerSent,
         at \notin ServerReceives \cup ServerSent
  PROVE  ServerSound'
<1>1. ws \in Server!Responses /\ queue \in Server!Queues /\ hb \in Server!Heartbeats
  BY DEF ServerSound, Server!TypeOK
<1>2. queue.waiter # t
  BY ServerNotTheWaiter
<1> QED
  BY <1>1, <1>2, ServerMoveKeeps DEF ServerReceives, ServerSent

\* receive() begins: no other is at its await, and no close() reads.
LEMMA ServerReceiveKeeps ==
  ASSUME ServerSound, NEW t \in Tasks, Server!Receive(t)
  PROVE  ServerSound'
<1>1. Server!TypeOK /\ ws \in Server!Responses /\ hb \in Server!Heartbeats /\ ws' \in Server!Responses
  BY ServerResponseTypes DEF ServerSound, Server!TypeOK, Server!Receive
<1>2. /\ ws'.waiting /\ ws'.closed = ws.closed /\ ~ws.closed /\ ~ws.waiting
      /\ ws'.closeFrames = ws.closeFrames /\ ws'.transport = ws.transport /\ ws'.abandoned = ws.abandoned
  BY <1>1 DEF Server!Receive, Server!Responses
<1>3. pc[t] \notin {"read", "closeRead"} \cup ServerSent
  BY DEF Server!Receive, Server!Calls, Server!Running, ServerSent
<1>4. \A u \in Tasks \ {t} : pc[u] \notin ServerReceives \cup {"closeRead"}
  BY <1>2 DEF ServerSound, ServerOneReceives, ServerOneCloses, ServerSent
<1>5. queue.waiter # t
  BY <1>3, ServerNotTheWaiter
<1>6. /\ queue' \in Server!Queues /\ ServerUntold(t)
      /\ \/ ServerMoves(t, "got") /\ fut'[t] = "none" /\ queue'.waiter = queue.waiter
         \/ ServerMoves(t, "read") /\ fut'[t] = "pending" /\ queue'.waiter = t
      /\ \A u \in Tasks \ {t} : fut'[u] = fut[u]
  BY <1>1, ServerReadMoves DEF Server!Receive, ServerPlaces
<1>7. CASE ServerMoves(t, "got") /\ fut'[t] = "none" /\ queue'.waiter = queue.waiter
  BY <1>1, <1>2, <1>3, <1>5, <1>6, <1>7, ServerMoveKeeps DEF Server!Receive, ServerReceives, ServerSent
<1>8. CASE ServerMoves(t, "read") /\ fut'[t] = "pending" /\ queue'.waiter = t
  BY <1>1, <1>2, <1>3, <1>4, <1>6, <1>8, ServerMoveKeeps DEF Server!Receive, ServerReceives, ServerSent
<1> QED
  BY <1>6, <1>7, <1>8

\* Who gets a message, or is cancelled, was the one that receives.
LEMMA ServerGotKeeps ==
  ASSUME ServerSound, NEW t \in Tasks, Server!Got(t)
  PROVE  ServerSound'
<1>0. /\ Server!TypeOK /\ ws \in Server!Responses /\ hb \in Server!Heartbeats /\ Server!NotWaiting(ws) \in Server!Responses
      /\ Server!CancelHeartbeat(hb) \in Server!Heartbeats
  BY ServerResponseTypes, ServerHeartbeatTypes DEF ServerSound, Server!TypeOK
<1>1. queue' \in Server!Queues /\ queue'.waiter = queue.waiter
  BY <1>0, ServerTakenType DEF Server!Got
<1>2. pc[t] \in ServerReceives /\ (pc[t] = "read" => fut[t] \in {"done", "failed"})
  BY DEF Server!Got, Server!Running, Server!Resumes, ServerReceives
<1>3. queue.waiter # t
  BY <1>2, ServerNotTheWaiter DEF ServerReceives
<1>4. /\ ws' \in Server!Responses /\ hb' \in Server!Heartbeats
      /\ \E at \in {"idle", "pong", "close", "closeNoDrain"} : Server!GoWith(t, at, Server!CloserWoken)
      /\ ~ws'.waiting /\ ws'.closed = ws.closed /\ ws'.closeFrames = ws.closeFrames
      /\ ws'.transport = ws.transport /\ ws'.abandoned = ws.abandoned
  <2> DEFINE w == Server!NotWaiting(ws)
  <2>0. /\ w \in Server!Responses /\ ~w.waiting /\ w.closed = ws.closed /\ w.closeFrames = ws.closeFrames
        /\ w.transport = ws.transport /\ w.abandoned = ws.abandoned
    BY <1>0 DEF Server!NotWaiting, Server!Responses
  <2>1. Server!Found(t) \in Server!Messages \cup {"eof", "invalid"}
    BY <1>0, ServerFoundType
  <2>2. ASSUME NEW c \in {"none", "ok", "abnormal", "peer", "error"},
               ws' = Server!SetClosing(w, c) \/ ws' = [w EXCEPT !.code = c]
        PROVE  /\ ws' \in Server!Responses
               /\ ~ws'.waiting /\ ws'.closed = ws.closed /\ ws'.closeFrames = ws.closeFrames
               /\ ws'.transport = ws.transport /\ ws'.abandoned = ws.abandoned
    <3> HIDE DEF w
    <3>1. ws' \in Server!Responses
      BY <2>0, <2>2, ServerResponseTypes
    <3>2. /\ ws'.waiting = w.waiting /\ ws'.closed = w.closed /\ ws'.closeFrames = w.closeFrames
          /\ ws'.transport = w.transport /\ ws'.abandoned = w.abandoned
      BY <2>0, <2>2 DEF Server!SetClosing, Server!Responses
    <3> QED
      BY <2>0, <3>1, <3>2
  <2>3. CASE Server!Found(t) \in {"text", "error", "ping"}
    BY <1>0, <2>0, <2>3 DEF Server!Got
  <2>4. CASE Server!Found(t) = "close"
    <3>1. ws' = Server!SetClosing(w, "peer")
      BY <2>4 DEF Server!Got
    <3>2. hb' \in Server!Heartbeats /\ \E at \in {"idle", "closeNoDrain"} : Server!GoWith(t, at, Server!CloserWoken)
      BY <1>0, <2>4 DEF Server!Got
    <3> QED
      BY <2>2, <3>1, <3>2
  <2>5. CASE Server!Found(t) = "closing"
    <3>1. ws' = Server!SetClosing(w, "ok")
      BY <2>5 DEF Server!Got
    <3>2. hb' \in Server!Heartbeats /\ Server!GoWith(t, "idle", Server!CloserWoken)
      BY <1>0, <2>5 DEF Server!Got
    <3> QED
      BY <2>2, <3>1, <3>2
  <2>6. CASE Server!Found(t) \in {"eof", "invalid"}
    <3>1. \E c \in {"ok", "error"} : ws' = [w EXCEPT !.code = c]
      BY <2>6 DEF Server!Got
    <3>2. hb' \in Server!Heartbeats /\ Server!GoWith(t, "close", Server!CloserWoken)
      BY <1>0, <2>6 DEF Server!Got
    <3> QED
      BY <2>2, <3>1, <3>2
  <2> QED
    BY <2>1, <2>3, <2>4, <2>5, <2>6 DEF Server!Messages
<1>5. PICK at \in {"idle", "pong", "close", "closeNoDrain"} : Server!GoWith(t, at, Server!CloserWoken)
  BY <1>4
<1>6. ServerMoves(t, at) /\ at \notin ServerReceives \cup ServerSent \cup {"read", "closeRead"}
  BY <1>0, <1>5, ServerGotMoves DEF ServerPlaces, Server!Closers, ServerReceives, ServerSent
<1>7. ASSUME NEW u \in Tasks \ {t}, queue'.waiter = u PROVE fut'[u] = fut[u]
  <2>1. pc[u] \in {"read", "closeRead"}
    BY <1>1, <1>7, ClientAssumption DEF ServerSound, ServerWaiterReads
  <2> QED
    BY <1>0, <1>5, <2>1 DEF Server!GoWith, Server!CloserWoken, Server!TypeOK
<1>8. pc[t] \notin ServerSent
  BY <1>2 DEF ServerReceives, ServerSent
<1> QED
  BY <1>1, <1>2, <1>3, <1>4, <1>6, <1>7, <1>8, ServerMoveKeeps DEF ServerSent

\* Nobody else reads while a task receives.
LEMMA ServerReceiverIsAlone ==
  ASSUME ServerSound, NEW t \in Tasks, pc[t] \in ServerReceives
  PROVE  ws.waiting /\ \A u \in Tasks \ {t} : pc[u] \notin ServerReceives \cup {"closeRead"}
BY DEF ServerSound, ServerOneReceives, ServerOneCloses, ServerAlone

\* A receive() that is cancelled leaves, and wakes the close() that waits.
LEMMA ServerGotCancelledKeeps ==
  ASSUME ServerSound, NEW t \in Tasks, Server!GotCancelled(t)
  PROVE  ServerSound'
<1>0. Server!TypeOK /\ ws \in Server!Responses /\ hb \in Server!Heartbeats /\ queue \in Server!Queues /\ hb' \in Server!Heartbeats
  BY DEF ServerSound, Server!TypeOK, Server!GotCancelled
<1>1. /\ ws' \in Server!Responses /\ ~ws'.waiting /\ ws'.closed = ws.closed /\ ws'.closeFrames = ws.closeFrames
      /\ ws'.transport = ws.transport /\ ws'.abandoned = ws.abandoned
  BY <1>0 DEF Server!GotCancelled, Server!NotWaiting, Server!Responses
<1>2. queue' \in Server!Queues /\ queue'.waiter = NoTask
  BY <1>0 DEF Server!GotCancelled, Server!Queues
<1>3. pc[t] \in ServerReceives /\ pc[t] \notin ServerSent
  BY DEF Server!GotCancelled, Server!Resumes, ServerReceives, ServerSent
<1>4. ServerMoves(t, "idle")
  BY <1>0, ServerGotMoves DEF Server!GotCancelled, ServerPlaces
<1>5. \A u \in Tasks \ {t} : pc[u] \notin {"read", "closeRead"}
  BY <1>3, ServerReceiverIsAlone DEF ServerReceives
<1>6. NoTask \notin Tasks
  BY ClientAssumption
<1> QED
  BY <1>0, <1>1, <1>2, <1>3, <1>4, <1>5, <1>6, ServerMoveKeeps DEF ServerReceives, ServerSent

\* A receive() that is refused, and the answer to a ping.
LEMMA ServerPongKeeps ==
  ASSUME ServerSound, NEW t \in Tasks, Server!ReceiveRefused(t) \/ Server!Pong(t) \/ Server!PongWritten(t) \/ Server!CloseTwice(t)
  PROVE  ServerSound'
<1>1. Server!TypeOK /\ UNCHANGED <<ws, queue, hb>>
  BY DEF ServerSound, Server!ReceiveRefused, Server!Pong, Server!PongWritten, Server!CloseTwice
<1>2. pc[t] \notin {"read", "closeRead"} \cup ServerSent
  BY DEF Server!ReceiveRefused, Server!Pong, Server!PongWritten, Server!CloseTwice, Server!Running, Server!Resumes, ServerSent
<1>3. \/ \E at \in {"idle", "receive"} : Server!Go(t, at)
      \/ Server!Await(t, "pongWrite")
  BY DEF Server!ReceiveRefused, Server!Pong, Server!PongWritten, Server!CloseTwice
<1>4. ASSUME NEW at \in {"idle", "receive"}, Server!Go(t, at) PROVE ServerSound'
  <2>1. ServerMoves(t, at) /\ ServerUntold(t) /\ at \in ServerPlaces /\ at \notin ServerReceives \cup ServerSent
    BY <1>1, <1>4, ServerGoMoves DEF ServerPlaces, ServerReceives, ServerSent
  <2>2. \A u \in Tasks \ {t} : fut'[u] = fut[u]
    BY <1>1, <1>4 DEF Server!Go, Server!GoWith, Server!TypeOK
  <2> QED
    BY <1>1, <1>2, <2>1, <2>2, ServerPassKeeps
<1>5. CASE Server!Await(t, "pongWrite")
  <2>1. ServerMoves(t, "pongWrite") /\ ServerUntold(t) /\ "pongWrite" \in ServerPlaces /\ "pongWrite" \notin ServerReceives \cup ServerSent
    BY <1>1, <1>5, ServerAwaitMoves DEF ServerPlaces, ServerReceives, ServerSent
  <2>2. \A u \in Tasks \ {t} : fut'[u] = fut[u]
    BY <1>1, <1>5 DEF Server!Await, Server!TypeOK
  <2> QED
    BY <1>1, <1>2, <2>1, <2>2, ServerPassKeeps
<1> QED
  BY <1>3, <1>4, <1>5

(* -------------------------------- close() ------------------------------- *)

\* What leaving a call, or awaiting something, does to the futures of others.
LEMMA ServerOthersWait ==
  ASSUME Server!TypeOK, NEW t \in Tasks, NEW at, Server!Go(t, at) \/ Server!Await(t, at)
  PROVE  \A u \in Tasks \ {t} : fut'[u] = fut[u]
BY DEF Server!TypeOK, Server!Go, Server!GoWith, Server!Await

\* The socket is closed by one call, whether it can send its CLOSE or not.
LEMMA ServerCloseSendsKeeps ==
  ASSUME ServerSound, NEW t \in Tasks, Server!CloseSends(t) \/ Server!CloseFails(t)
  PROVE  ServerSound'
<1>0. /\ Server!TypeOK /\ ws \in Server!Responses /\ queue \in Server!Queues /\ hb' \in Server!Heartbeats
      /\ Server!SetClosed(ws) \in Server!Responses /\ [ws EXCEPT !.closeFrames = @ + 1] \in Server!Responses
  BY ServerHeartbeatTypes, ServerResponseTypes DEF ServerSound, Server!TypeOK, Server!CloseSends, Server!CloseFails
<1>1. /\ ws' \in Server!Responses /\ ws'.closed /\ ws'.waiting = ws.waiting /\ ws'.abandoned = ws.abandoned
      /\ ws'.transport # "open" \/ (ws.transport = "open" /\ Server!CloseSends(t))
      /\ ws'.closeFrames = IF Server!CloseSends(t) THEN ws.closeFrames + 1 ELSE ws.closeFrames
  <2>1. CASE Server!CloseSends(t)
    <3>1. ws' \in Server!Responses
      BY <1>0, <2>1, ServerResponseTypes DEF Server!CloseSends
    <3> QED
      BY <1>0, <2>1, <3>1 DEF Server!CloseSends, Server!SetClosed, Server!Responses
  <2>2. CASE Server!CloseFails(t) /\ ~Server!CloseSends(t)
    <3>1. ws' \in Server!Responses
      BY <1>0, <2>2, ServerResponseTypes DEF Server!CloseFails
    <3> QED
      BY <1>0, <2>2, <3>1 DEF Server!CloseFails, Server!SetCodeCloseTransport, Server!CloseTransport, Server!SetClosed, Server!Responses
  <2> QED
    BY <2>1, <2>2
<1>2. ~ws.closed /\ ws.closeFrames = 0 /\ pc[t] \notin {"read", "closeRead"} \cup ServerReceives \cup ServerSent
  <2>1. ~ws.closed /\ pc[t] \notin {"read", "closeRead"} \cup ServerReceives \cup ServerSent
    BY DEF Server!CloseSends, Server!CloseFails, Server!Calls, Server!Running, ServerReceives, ServerSent
  <2> QED
    BY <2>1 DEF ServerSound, ServerGivesUp
<1>3. queue.waiter # t /\ UNCHANGED queue
  BY <1>2, ServerNotTheWaiter DEF Server!CloseSends, Server!CloseFails
<1>4. CASE Server!CloseSends(t)
  <2>1. ASSUME NEW at \in {"closeNext", "closeWrite"}, Server!Go(t, at) \/ Server!Await(t, at)
        PROVE  ServerSound'
    <3>1. ServerMoves(t, at) /\ ServerUntold(t) /\ \A u \in Tasks \ {t} : fut'[u] = fut[u]
      BY <1>0, <2>1, ServerGoMoves, ServerAwaitMoves, ServerOthersWait DEF ServerPlaces, Server!Closers
    <3> QED
      BY <1>0, <1>1, <1>2, <1>3, <1>4, <3>1, ServerMoveKeeps DEF ServerReceives, ServerSent
  <2> QED
    BY <1>4, <2>1 DEF Server!CloseSends
<1>5. CASE ~Server!CloseSends(t)
  <2>1. ServerMoves(t, "idle") /\ ServerUntold(t) /\ \A u \in Tasks \ {t} : fut'[u] = fut[u]
    BY <1>0, <1>5, ServerGoMoves, ServerOthersWait DEF ServerPlaces, Server!CloseFails
  <2> QED
    BY <1>0, <1>1, <1>2, <1>3, <1>5, <2>1, ServerMoveKeeps DEF ServerReceives, ServerSent
<1> QED
  BY <1>4, <1>5

\* Who has sent CLOSE goes on: what it may do to the response.
ServerEngaged(t) ==
  /\ ws' \in Server!Responses /\ ws'.closed = ws.closed /\ ws'.waiting = ws.waiting
  /\ ws'.closeFrames = ws.closeFrames
  /\ ws.transport # "open" => ws'.transport # "open"
  /\ ws.abandoned => ws'.abandoned

\* Giving the transport up is one of those things ...
LEMMA ServerGiveUpEngages ==
  ASSUME ws \in Server!Responses, NEW t \in Tasks, NEW c \in {"none", "ok", "abnormal", "peer", "error"},
         ws' = Server!SetCodeCloseTransport(ws, c) \/ ws' = Server!CloseTransport(ws)
  PROVE  ServerEngaged(t) /\ ws'.transport # "open"
<1>1. ws' \in Server!Responses
  BY ServerResponseTypes
<1>2. /\ ws'.closed = ws.closed /\ ws'.waiting = ws.waiting /\ ws'.closeFrames = ws.closeFrames
      /\ ws'.abandoned = ws.abandoned /\ ws'.transport # "open"
  BY DEF Server!SetCodeCloseTransport, Server!CloseTransport, Server!Responses
<1> QED
  BY <1>1, <1>2 DEF ServerEngaged

\* ... and a close() that does no more than them, and reads only when nobody
\* receives, keeps the invariant.
LEMMA ServerEngagedKeeps ==
  ASSUME ServerSound, NEW t \in Tasks, NEW at, pc[t] \in ServerSent, ServerEngaged(t), ServerMoves(t, at), ServerUntold(t), UNCHANGED hb,
         queue' \in Server!Queues, \A u \in Tasks \ {t} : queue'.waiter = u => fut'[u] = fut[u],
         at \in ServerSent \/ (at = "idle" /\ (ws'.abandoned \/ ws'.transport # "open")),
         at \in {"closeEnd", "closeMore", "closeRead", "closeGot"} => ServerAlone(t) \/ ~ws.waiting,
         at = "closeWait" => fut'[t] = "pending",
         queue'.waiter \in {queue.waiter, t, NoTask},
         at # "closeRead" => queue'.waiter # t,
         at = "closeRead" => queue'.waiter = t /\ fut'[t] = "pending",
         queue'.waiter # queue.waiter =>
           \A u \in Tasks \ {t} : pc[u] \in {"read", "closeRead"} => fut'[u] # "pending"
  PROVE  ServerSound'
<1>1. ws.closed /\ pc[t] \notin ServerReceives /\ at \notin ServerReceives
  BY DEF ServerSound, ServerOneCloses, ServerSent, ServerReceives
<1>2. hb' \in Server!Heartbeats /\ ws' \in Server!Responses
  BY DEF ServerSound, Server!TypeOK, ServerEngaged
<1>3. at \in ServerSent \/ at = "idle"
  OBVIOUS
<1> QED
  BY <1>1, <1>2, <1>3, ServerMoveKeeps DEF ServerEngaged, ServerSent, ServerReceives

\* close() after CLOSE is written, when it has to wait or not, and its end.
LEMMA ServerCloseWrittenKeeps ==
  ASSUME ServerSound, NEW t \in Tasks,
         Server!CloseWritten(t) \/ Server!CloseGoesOn(t) \/ Server!CloseWaitCancelled(t) \/ Server!CloseEnds(t)
  PROVE  ServerSound'
<1>0. Server!TypeOK /\ ws \in Server!Responses /\ queue \in Server!Queues /\ UNCHANGED <<queue, hb>>
  BY DEF ServerSound, Server!TypeOK, Server!CloseWritten, Server!CloseGoesOn, Server!CloseWaitCancelled, Server!CloseEnds
<1>1. pc[t] \in ServerSent /\ queue.waiter # t
  <2>1. pc[t] \in ServerSent /\ pc[t] \notin {"read", "closeRead"}
    BY DEF Server!CloseWritten, Server!CloseGoesOn, Server!CloseWaitCancelled, Server!CloseEnds, Server!Running, Server!Resumes, ServerSent
  <2> QED
    BY <2>1, ServerNotTheWaiter
<1>2. ServerEngaged(t)
  <2>1. CASE UNCHANGED ws
    BY <1>0, <2>1 DEF ServerEngaged
  <2>2. CASE ws' = Server!SetCodeCloseTransport(ws, "abnormal")
    BY <1>0, <2>2, ServerGiveUpEngages
  <2>3. CASE ws' = [ws EXCEPT !.abandoned = TRUE]
    BY <1>0, <2>3 DEF ServerEngaged, Server!Responses
  <2>4. CASE ws' = Server!CloseTransport(ws)
    BY <1>0, <2>4, ServerGiveUpEngages
  <2> QED
    BY <2>1, <2>2, <2>3, <2>4 DEF Server!CloseWritten, Server!CloseGoesOn, Server!CloseWaitCancelled, Server!CloseEnds
<1>3. \E at \in {"closeNext", "closeEnd", "idle"} :
        /\ Server!Go(t, at)
        /\ at = "closeEnd" => ServerAlone(t) \/ ~ws.waiting
        /\ at = "idle" => ws'.abandoned \/ ws'.transport # "open"
  <2>1. CASE Server!CloseWritten(t)
    BY <1>0, <2>1 DEF Server!CloseWritten, Server!SetCodeCloseTransport, Server!CloseTransport, Server!Responses
  <2>2. CASE Server!CloseGoesOn(t)
    BY <2>2 DEF Server!CloseGoesOn, Server!Resumes, ServerAlone
  <2>3. CASE Server!CloseWaitCancelled(t)
    BY <1>0, <2>3 DEF Server!CloseWaitCancelled, Server!Responses
  <2>4. CASE Server!CloseEnds(t)
    BY <1>0, <2>4 DEF Server!CloseEnds, Server!CloseTransport, Server!Responses
  <2> QED
    BY <2>1, <2>2, <2>3, <2>4
<1>4. PICK at \in {"closeNext", "closeEnd", "idle"} :
        /\ Server!Go(t, at)
        /\ at = "closeEnd" => ServerAlone(t) \/ ~ws.waiting
        /\ at = "idle" => ws'.abandoned \/ ws'.transport # "open"
  BY <1>3
<1>5. ServerMoves(t, at) /\ ServerUntold(t) /\ \A u \in Tasks \ {t} : fut'[u] = fut[u]
  BY <1>0, <1>4, ServerGoMoves, ServerOthersWait DEF ServerPlaces, Server!Closers
<1> QED
  BY <1>0, <1>1, <1>2, <1>4, <1>5, ServerEngagedKeeps DEF ServerSent

\* A close() that breaks a receive() wakes whoever reads.
LEMMA ServerCloseBreaksReceiveKeeps ==
  ASSUME ServerSound, NEW t \in Tasks, Server!CloseBreaksReceive(t)
  PROVE  ServerSound'
<1>0. Server!TypeOK /\ ws \in Server!Responses /\ queue \in Server!Queues /\ UNCHANGED hb /\ Server!Released("done") \in [Tasks -> Server!Futures]
  BY ServerReleasedType DEF ServerSound, Server!TypeOK, Server!CloseBreaksReceive, Server!Futures
<1>1. pc[t] = "closeNext" /\ pc[t] \in ServerSent
  BY DEF Server!CloseBreaksReceive, Server!Running, ServerSent
<1>2. ServerEngaged(t)
  <2>1. ws' = [ws EXCEPT !.closeWait = t] /\ ws' \in Server!Responses
    BY <1>0, ServerResponseTypes DEF Server!CloseBreaksReceive
  <2>2. /\ ws'.closed = ws.closed /\ ws'.waiting = ws.waiting /\ ws'.closeFrames = ws.closeFrames
        /\ ws'.abandoned = ws.abandoned /\ ws'.transport = ws.transport
    BY <1>0, <2>1 DEF Server!Responses
  <2> QED
    BY <2>1, <2>2 DEF ServerEngaged
<1>3. queue' \in Server!Queues /\ queue'.waiter = NoTask
  BY <1>0, ServerFedType DEF Server!CloseBreaksReceive, Server!Messages
<1>4. fut'[t] = "pending" /\ \A u \in Tasks \ {t} : fut'[u] = Server!Released("done")[u]
  BY <1>0 DEF Server!CloseBreaksReceive
<1>5. ServerMoves(t, "closeWait")
  BY <1>0, <1>4 DEF Server!CloseBreaksReceive, ServerMoves, ServerPlaces, Server!Closers, Server!Released, Server!TypeOK, Server!Futures
<1>6. ServerUntold(t) /\ \A u \in Tasks \ {t} : pc[u] \in {"read", "closeRead"} => fut'[u] # "pending"
  <2>1. \A u \in Tasks : Server!Released("done")[u] = IF u = queue.waiter /\ fut[u] = "pending" THEN "done" ELSE fut[u]
    BY DEF Server!Released
  <2>2. \A u \in Tasks : u = queue.waiter => pc[u] \in {"read", "closeRead"}
    BY ClientAssumption DEF ServerSound, ServerWaiterReads
  <2>3. \A u \in Tasks : pc[u] \in {"read", "closeRead"} /\ fut[u] = "pending" => u = queue.waiter
    BY DEF ServerSound, Server!ReaderIsWaiter
  <2> QED
    BY <1>4, <2>1, <2>2, <2>3 DEF ServerUntold
<1>7. NoTask \notin Tasks
  BY ClientAssumption
<1> QED
  BY <1>1, <1>2, <1>3, <1>4, <1>5, <1>6, <1>7, <1>0, ServerEngagedKeeps DEF ServerSent

\* close() reads: it waits only when no receive() does.
LEMMA ServerCloseReadsKeeps ==
  ASSUME ServerSound, NEW t \in Tasks, Server!CloseReads(t)
  PROVE  ServerSound'
<1>0. Server!TypeOK /\ ws \in Server!Responses /\ UNCHANGED <<ws, hb>>
  BY DEF ServerSound, Server!TypeOK, Server!CloseReads
<1>1. pc[t] \in ServerSent /\ ServerAlone(t) /\ pc[t] \notin {"read", "closeRead"}
  BY DEF Server!CloseReads, Server!Running, ServerSent, ServerAlone
<1>2. ServerEngaged(t)
  BY <1>0 DEF ServerEngaged
<1>3. /\ queue' \in Server!Queues /\ ServerUntold(t)
      /\ \/ ServerMoves(t, "closeGot") /\ fut'[t] = "none" /\ queue'.waiter = queue.waiter
         \/ ServerMoves(t, "closeRead") /\ fut'[t] = "pending" /\ queue'.waiter = t
      /\ \A u \in Tasks \ {t} : fut'[u] = fut[u]
  BY <1>0, ServerReadMoves DEF Server!CloseReads, ServerPlaces, Server!Closers
<1>4. queue.waiter # t
  BY <1>1, ServerNotTheWaiter
<1>5. \A u \in Tasks \ {t} : pc[u] \notin {"read", "closeRead"}
  BY <1>1 DEF ServerSound, ServerOneReceives, ServerOneCloses, ServerReceives, ServerSent
<1>6. CASE ServerMoves(t, "closeGot") /\ fut'[t] = "none" /\ queue'.waiter = queue.waiter
  BY <1>1, <1>2, <1>3, <1>4, <1>6, <1>0, ServerEngagedKeeps DEF ServerSent
<1>7. CASE ServerMoves(t, "closeRead") /\ fut'[t] = "pending" /\ queue'.waiter = t
  BY <1>1, <1>2, <1>3, <1>5, <1>7, <1>0, ServerEngagedKeeps DEF ServerSent
<1> QED
  BY <1>3, <1>6, <1>7

\* close() has read the CLOSE, something else or an error, or is cancelled.
LEMMA ServerCloseGotKeeps ==
  ASSUME ServerSound, NEW t \in Tasks, Server!CloseGot(t) \/ Server!CloseReadCancelled(t)
  PROVE  ServerSound'
<1>0. Server!TypeOK /\ ws \in Server!Responses /\ queue \in Server!Queues /\ UNCHANGED hb
  BY DEF ServerSound, Server!TypeOK, Server!CloseGot, Server!CloseReadCancelled
<1>1. pc[t] \in ServerSent /\ ServerAlone(t)
  BY DEF Server!CloseGot, Server!CloseReadCancelled, Server!Running, Server!Resumes, ServerSent, ServerAlone
<1>2. queue' \in Server!Queues /\ queue'.waiter \in {queue.waiter, NoTask} /\ queue'.waiter # t
  <2>1. CASE Server!CloseGot(t)
    <3>1. queue.waiter # t
      BY <2>1, ServerNotTheWaiter DEF Server!CloseGot, Server!Running, Server!Resumes
    <3> QED
      BY <1>0, <2>1, <3>1, ServerTakenType DEF Server!CloseGot
  <2>2. CASE Server!CloseReadCancelled(t)
    BY <1>0, <2>2, ClientAssumption DEF Server!CloseReadCancelled, Server!Queues
  <2> QED
    BY <2>1, <2>2
<1>3. \A u \in Tasks \ {t} : pc[u] \notin {"read", "closeRead"}
  BY <1>1 DEF ServerSound, ServerOneReceives, ServerOneCloses, ServerReceives, ServerSent
<1>4. \A c \in {"peer", "abnormal"} : ws' = Server!SetCodeCloseTransport(ws, c) => ServerEngaged(t) /\ ws'.transport # "open"
  BY <1>0, ServerGiveUpEngages
<1>5. \/ ServerEngaged(t) /\ ws'.transport # "open" /\ Server!Go(t, "idle")
      \/ UNCHANGED ws /\ Server!Go(t, "closeMore")
  BY <1>4 DEF Server!CloseGot, Server!CloseReadCancelled
<1>6. ServerEngaged(t)
  BY <1>0, <1>5 DEF ServerEngaged
<1>7. PICK at \in {"idle", "closeMore"} : Server!Go(t, at) /\ (at = "idle" => ws'.transport # "open")
  BY <1>5
<1>8. ServerMoves(t, at) /\ ServerUntold(t) /\ \A u \in Tasks \ {t} : fut'[u] = fut[u]
  BY <1>0, <1>7, ServerGoMoves, ServerOthersWait DEF ServerPlaces, Server!Closers
<1> QED
  BY <1>0, <1>1, <1>2, <1>3, <1>6, <1>7, <1>8, ServerEngagedKeeps DEF ServerSent

(* -------------------- cancellation, peer and heartbeat ------------------ *)

\* A cancellation, an expired timer and a drain that ends change one future.
LEMMA ServerAbortKeeps ==
  ASSUME ServerSound, NEW t \in Tasks, Server!Cancel(t) \/ Server!CloseTimeout(t) \/ Server!Drained(t)
  PROVE  ServerSound'
<1>0. /\ ws \in Server!Responses /\ queue \in Server!Queues /\ hb \in Server!Heartbeats /\ UNCHANGED <<ws, queue, hb, pc, cpu>>
      /\ fut \in [Tasks -> Server!Futures]
  BY DEF ServerSound, Server!TypeOK, Server!Cancel, Server!CloseTimeout, Server!Abort, Server!Drained
<1>1. \/ fut' = [fut EXCEPT ![t] = "cancelled"]
      \/ fut' = [fut EXCEPT ![t] = "done"] /\ pc[t] \in {"pongWrite", "closeWrite"} /\ fut[t] = "pending"
  BY DEF Server!Cancel, Server!CloseTimeout, Server!Abort, Server!Drained
<1>2. CASE fut' = [fut EXCEPT ![t] = "cancelled"]
  BY <1>0, <1>2, ServerStayKeeps DEF Server!Futures
<1>3. CASE fut' = [fut EXCEPT ![t] = "done"] /\ pc[t] \in {"pongWrite", "closeWrite"}
  <2>1. queue.waiter # t
    BY <1>3, ServerNotTheWaiter
  <2> QED
    BY <1>0, <1>3, <2>1, ServerStayKeeps DEF Server!Futures
<1> QED
  BY <1>1, <1>2, <1>3

\* A message, the end or an error reaches whoever reads.
LEMMA ServerArrivesKeeps ==
  ASSUME ServerSound, NEW how \in {"done", "failed"}, UNCHANGED <<pc, cpu>>, fut' = Server!Released(how),
         ws' \in Server!Responses, queue' \in Server!Queues, hb' \in Server!Heartbeats, queue'.waiter = NoTask,
         ws'.waiting = ws.waiting, ws'.closeFrames = ws.closeFrames, ws'.abandoned = ws.abandoned,
         ws.closed => ws'.closed, ws'.closed /\ ~ws.closed => ws'.transport # "open",
         ws.transport # "open" => ws'.transport # "open"
  PROVE  ServerSound'
<1>1. fut' \in [Tasks -> Server!Futures]
  BY ServerReleasedType DEF ServerSound, Server!Futures
<1>2. \A u \in Tasks :
        /\ fut'[u] = "pending" => fut[u] = "pending"
        /\ pc[u] = "closeWait" /\ fut'[u] = "done" => fut[u] = "done"
        /\ pc[u] \in {"read", "closeRead"} => fut'[u] # "pending"
  <2> TAKE u \in Tasks
  <2>1. Server!Released(how)[u] = IF u = queue.waiter /\ fut[u] = "pending" THEN how ELSE fut[u]
    BY DEF Server!Released
  <2>2. u = queue.waiter => pc[u] \in {"read", "closeRead"}
    BY ClientAssumption DEF ServerSound, ServerWaiterReads
  <2>3. pc[u] \in {"read", "closeRead"} /\ fut[u] = "pending" => u = queue.waiter
    BY DEF ServerSound, Server!ReaderIsWaiter
  <2> QED
    BY <2>1, <2>2, <2>3
<1> QED
  BY <1>1, <1>2, ServerStayKeeps

\* What the peer does reaches the waiter of the queue, whoever it is.
LEMMA ServerPeerKeeps ==
  ASSUME ServerSound, Server!PeerMessage \/ Server!InvalidFrame \/ Server!PeerCloses \/ Server!ConnectionLost
  PROVE  ServerSound'
<1>0. /\ Server!TypeOK /\ ws \in Server!Responses /\ queue \in Server!Queues /\ hb \in Server!Heartbeats /\ fut \in [Tasks -> Server!Futures]
      /\ Server!DataReceived \in Server!Heartbeats
  BY ServerHeartbeatTypes DEF ServerSound, Server!TypeOK, Server!DataReceived
<1>1. CASE Server!PeerMessage
  <2>1. PICK msg \in {"text", "ping", "close"} : Server!PeerSends(msg)
    BY <1>1 DEF Server!PeerMessage
  <2>2. Server!Fed(queue, msg) \in Server!Queues /\ Server!Fed(queue, msg).waiter = NoTask
    BY <1>0, ServerFedType DEF Server!Messages
  <2> QED
    BY <1>0, <2>1, <2>2, ServerArrivesKeeps DEF Server!PeerSends
<1>2. CASE Server!InvalidFrame
  <2>1. queue' \in Server!Queues /\ queue'.waiter = NoTask
    BY <1>0, <1>2 DEF Server!InvalidFrame, Server!Queues
  <2> QED
    BY <1>0, <1>2, <2>1, ServerArrivesKeeps DEF Server!InvalidFrame
<1>3. CASE Server!PeerCloses
  <2>1. /\ ws' \in Server!Responses /\ ws'.waiting = ws.waiting /\ ws'.closeFrames = ws.closeFrames
        /\ ws'.abandoned = ws.abandoned /\ ws'.closed = ws.closed /\ ws'.transport # "open"
    BY <1>0, <1>3 DEF Server!PeerCloses, Server!Responses
  <2>2. UNCHANGED <<pc, cpu, queue, hb, fut>>
    BY <1>3 DEF Server!PeerCloses
  <2> QED
    BY <1>0, <2>1, <2>2, ServerStayKeeps
<1>4. CASE Server!ConnectionLost
  <2>1. queue' \in Server!Queues /\ queue'.waiter = NoTask
    BY <1>0, <1>4 DEF Server!ConnectionLost, Server!Queues
  <2>2. /\ ws' \in Server!Responses /\ ws'.waiting = ws.waiting /\ ws'.closeFrames = ws.closeFrames
        /\ ws'.abandoned = ws.abandoned /\ ws'.closed = ws.closed /\ ws'.transport # "open"
    BY <1>0, <1>4 DEF Server!ConnectionLost, Server!Responses
  <2> QED
    BY <1>0, <1>4, <2>1, <2>2, ServerArrivesKeeps DEF Server!ConnectionLost
<1> QED
  BY <1>1, <1>2, <1>3, <1>4

\* A heartbeat that moves only its timers.
LEMMA ServerTimersKeep ==
  ASSUME ServerSound, hb' \in Server!Heartbeats, UNCHANGED <<ws, queue, pc, fut, cpu>>
  PROVE  ServerSound'
<1>1. ws \in Server!Responses /\ queue \in Server!Queues /\ fut \in [Tasks -> Server!Futures]
  BY DEF ServerSound, Server!TypeOK
<1> QED
  BY <1>1, ServerStayKeeps

\* A heartbeat that fails closes the socket and its transport.
LEMMA ServerPingPongKeeps ==
  ASSUME ServerSound, NEW STATE h, h \in Server!Heartbeats, Server!PingPongFails(h), UNCHANGED <<pc, cpu>>
  PROVE  ServerSound'
<1>0. /\ Server!TypeOK /\ ws \in Server!Responses /\ queue \in Server!Queues /\ fut \in [Tasks -> Server!Futures]
      /\ Server!SetClosed(ws) \in Server!Responses
  BY ServerResponseTypes DEF ServerSound, Server!TypeOK
<1>1. CASE ws.closed
  BY <1>1, ServerTimersKeep DEF Server!PingPongFails
<1>2. CASE ~ws.closed
  <2>1. /\ ws' \in Server!Responses /\ ws'.waiting = ws.waiting /\ ws'.closeFrames = ws.closeFrames
        /\ ws'.abandoned = ws.abandoned /\ ws'.closed /\ ws'.transport # "open"
    <3>1. ws' = Server!SetCodeCloseTransport(Server!SetClosed(ws), "abnormal")
      BY <1>2 DEF Server!PingPongFails
    <3>2. ws' \in Server!Responses
      BY <1>0, <3>1, ServerResponseTypes
    <3> QED
      BY <1>0, <3>1, <3>2 DEF Server!SetCodeCloseTransport, Server!CloseTransport, Server!SetClosed, Server!Responses
  <2>2. hb' \in Server!Heartbeats
    BY <1>2, ServerHeartbeatTypes DEF Server!PingPongFails
  <2>3. CASE queue' = Server!Fed(queue, "error") /\ fut' = Server!Released("done")
    <3>1. queue' \in Server!Queues /\ queue'.waiter = NoTask
      BY <1>0, <2>3, ServerFedType DEF Server!Messages
    <3> QED
      BY <2>1, <2>2, <2>3, <3>1, ServerArrivesKeeps
  <2>4. CASE UNCHANGED <<queue, fut>>
    BY <1>0, <2>1, <2>2, <2>4, ServerStayKeeps
  <2> QED
    BY <1>2, <2>3, <2>4 DEF Server!PingPongFails
<1> QED
  BY <1>1, <1>2

\* The heartbeat's timers change nothing else, unless the ping fails.
LEMMA ServerHeartbeatKeeps ==
  ASSUME ServerSound, Server!HeartbeatStep
  PROVE  ServerSound'
<1>0. hb \in Server!Heartbeats
  BY DEF ServerSound, Server!TypeOK
<1>1. CASE Server!FlushHeartbeatReset
  BY <1>0, <1>1, ServerHeartbeatTypes, ServerTimersKeep DEF Server!FlushHeartbeatReset
<1>2. CASE Server!HeartbeatDeferred
  BY <1>0, <1>2, ServerHeartbeatTypes, ServerTimersKeep DEF Server!HeartbeatDeferred
<1>3. CASE Server!SendHeartbeat
  <2> DEFINE armed == [hb EXCEPT !.timer = FALSE, !.pong = TRUE]
  <2>0. armed \in Server!Heartbeats
    BY <1>0, ServerHeartbeatTypes
  <2>1. /\ UNCHANGED <<pc, cpu>>
        /\ \/ (hb' = armed \/ hb' = [armed EXCEPT !.ping = TRUE]) /\ UNCHANGED <<ws, queue, fut>>
           \/ Server!PingPongFails(armed)
    BY <1>3 DEF Server!SendHeartbeat
  <2> HIDE DEF armed
  <2> QED
    BY <2>0, <2>1, ServerHeartbeatTypes, ServerTimersKeep, ServerPingPongKeeps
<1>4. CASE Server!PingTaskDone
  <2> DEFINE done == [hb EXCEPT !.ping = FALSE]
  <2>0. done \in Server!Heartbeats
    BY <1>0, ServerHeartbeatTypes
  <2>1. /\ UNCHANGED <<pc, cpu>>
        /\ (hb' = done /\ UNCHANGED <<ws, queue, fut>>) \/ Server!PingPongFails(done)
    BY <1>4 DEF Server!PingTaskDone
  <2> HIDE DEF done
  <2> QED
    BY <2>0, <2>1, ServerTimersKeep, ServerPingPongKeeps
<1>5. CASE Server!PongNotReceived
  <2> DEFINE late == [hb EXCEPT !.pong = FALSE]
  <2>0. late \in Server!Heartbeats
    BY <1>0, ServerHeartbeatTypes
  <2>1. /\ UNCHANGED <<pc, cpu>>
        /\ (hb' = late /\ UNCHANGED <<ws, queue, fut>>) \/ Server!PingPongFails(late)
    BY <1>5 DEF Server!PongNotReceived
  <2> HIDE DEF late
  <2> QED
    BY <2>0, <2>1, ServerTimersKeep, ServerPingPongKeeps
<1> QED
  BY <1>1, <1>2, <1>3, <1>4, <1>5 DEF Server!HeartbeatStep

(* ------------------------------ the theorem ----------------------------- *)

\* The invariant is inductive.
LEMMA ServerSoundNext == ServerSound /\ [Server!Next]_(Server!vars) => ServerSound'
<1> SUFFICES ASSUME ServerSound, [Server!Next]_(Server!vars) PROVE ServerSound'
  OBVIOUS
<1>1. ASSUME NEW t \in Tasks, Server!Step(t) PROVE ServerSound'
  BY <1>1, ServerReceiveKeeps, ServerGotKeeps, ServerGotCancelledKeeps, ServerPongKeeps, ServerCloseSendsKeeps, ServerCloseWrittenKeeps,
     ServerCloseBreaksReceiveKeeps, ServerCloseReadsKeeps, ServerCloseGotKeeps DEF Server!Step
<1>2. CASE UNCHANGED Server!vars
  BY <1>2 DEF Server!vars, ServerSound, Server!TypeOK, ServerOneReceives, ServerOneCloses, ServerAlone, ServerWaiterReads, Server!ReaderIsWaiter, ServerGivesUp
<1> QED
  BY <1>1, <1>2, ServerAbortKeeps, ServerPeerKeeps, ServerHeartbeatKeeps DEF Server!Next

\* For every number of tasks, all of them cancellable at every await: whoever
\* waits for a message is the one that the next message, the end or the error
\* wakes, receive() and close() never read side by side, one CLOSE is sent, and
\* close(), the heartbeat and a failed write all leave a closed transport (but
\* for a close() that is cancelled while it waits for a receive()).
THEOREM ServerSocketSoundCorrect == Server!ServerAssumption => (Server!Spec => []Server!SocketSound)
<1> SUFFICES ASSUME Server!ServerAssumption PROVE Server!Spec => []Server!SocketSound
  OBVIOUS
<1>1. Server!Init => ServerSound
  BY ServerSoundInit
<1>2. ServerSound => Server!SocketSound
  BY ServerSoundIsSocketSound
<1> QED
  BY <1>1, <1>2, ServerSoundNext, PTL DEF Server!Spec
=============================================================================
