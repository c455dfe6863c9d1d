--------------------------- MODULE WebSocketWriter ---------------------------
(***************************************************************************)
(* The sending half of a WebSocket: WebSocketWriter of                     *)
(* aiohttp/_websocket/writer.py over the write flow control of             *)
(* BaseProtocol (aiohttp/base_protocol.py).                                *)
(*                                                                         *)
(* A member of DOMAIN sends is one call of send_frame(), numbered in the   *)
(* order of the calls; at most Writers of them are unfinished, one per     *)
(* application task.  The calls are the pings, pongs and messages of the   *)
(* application and of the heartbeat, and the frame of close().  Steps are  *)
(* separated at the awaits: the lock, the shielded task, the executor and  *)
(* the drain.                                                              *)
(*                                                                         *)
(* Abstractions: a frame has a size of one or two units.  A deflate stream *)
(* is known by the messages its window refers to.  The shielded task       *)
(* starts eagerly (Python 3.12 and later).                                 *)
(***************************************************************************)
EXTENDS Integers, Sequences, FiniteSets, SequencesExt

CONSTANTS
  MaxSends,  \* bound: calls of send_frame() in a behaviour
  Writers,   \* bound: tasks that send at the same time
  OutLimit,  \* limit: bytes a writer sends between two drains
  High,      \* high-water mark of the transport's buffer
  Low,       \* low-water mark of the transport's buffer
  Overrides, \* whether messages may be sent with compress=
  Cancels    \* bound: calls that are cancelled

ASSUME WriterAssumption ==
  /\ {MaxSends, Writers} \subseteq Nat \ {0}
  /\ {OutLimit, High, Low, Cancels} \subseteq Nat
  /\ Low <= High /\ Overrides \in BOOLEAN

VARIABLES
  mode,        \* [compress, notakeover]: what the handshake has agreed on
  transport,   \* "open", "closing" (is_closing()) or "lost"
  buffered,    \* units in the transport's write buffer
  paused,      \* _paused
  drainWaiter, \* _drain_waiter: "none", "pending" or "cancelled"
  sends,       \* the calls of send_frame()
  output,      \* _output_size
  holder,      \* the call that owns _send_lock, 0 when it is free
  waiters,     \* calls in the queue of _send_lock
  history,     \* messages the shared compressor has seen
  wire         \* messages given to the transport, in order

protocolVars == <<transport, buffered, paused, drainWaiter>>
lockVars == <<holder, waiters>>
vars == <<mode, protocolVars, sends, output, lockVars, history, wire>>

\* "plain" messages are not compressed; "small" ones are compressed on the
\* event loop and "large" ones in the executor.
Kinds == {"ping", "close", "plain", "small", "large"}
Data == {"plain", "small", "large"}
Size(kind) == IF kind = "large" THEN 2 ELSE 1
-----------------------------------------------------------------------------
Init ==
  /\ mode \in [compress : BOOLEAN, notakeover : BOOLEAN]
  /\ transport = "open" /\ buffered = 0 /\ paused = FALSE /\ drainWaiter = "none"
  /\ sends = <<>> /\ output = 0
  /\ holder = 0 /\ waiters = <<>>
  /\ history = <<>> /\ wire = <<>>

\* close() sets _closing when its send_frame() has returned or raised.
Closing == \E s \in DOMAIN sends : sends[s].kind = "close" /\ sends[s].pc = "done"

LockFree == holder = 0 /\ waiters = <<>>

\* What the next frame's window refers to, and the compressor's state after it.
Window(own) == IF own \/ mode.notakeover THEN <<>> ELSE history
Compressed(s, own) == IF own THEN history ELSE Append(history, s)

Step(s, pc, res) == [sends EXCEPT ![s].pc = pc, ![s].res = res]
-----------------------------------------------------------------------------
(* Writing.                                                                *)

\* transport.write(): what the socket does not take at once is buffered.
TransportWrite(size) ==
  \E kept \in IF buffered = 0 THEN {0, size} ELSE {size} :
    /\ buffered' = buffered + kept
    /\ paused' = (paused \/ buffered' > High)
    /\ UNCHANGED transport

\* _write_websocket_frame() of the call s, on an open transport.
WriteFrame(s, kind, window) ==
  /\ transport = "open"
  /\ wire' = IF kind \in Data THEN Append(wire, [id |-> s, kind |-> kind, window |-> window])
             ELSE wire
  /\ TransportWrite(Size(kind))

\* The check at the end of send_frame(): written is the _output_size it
\* reads, calls the calls as they are by then.
DrainHelper_NewWaiter(s, calls) ==  \* mutant: the call waits for a future of its own
  LET end(res) == [calls EXCEPT ![s].pc = "done", ![s].res = res]
  IN  CASE transport = "lost" -> sends' = end("error") /\ UNCHANGED drainWaiter
        [] OTHER -> /\ sends' = [calls EXCEPT ![s].pc = "drain"]
                    /\ drainWaiter' = IF drainWaiter = "none" THEN "pending" ELSE "none"

DrainHelper(s, calls) ==
  LET end(res) == [calls EXCEPT ![s].pc = "done", ![s].res = res]
  IN  CASE transport = "lost" -> sends' = end("error") /\ UNCHANGED drainWaiter
        [] transport # "lost" /\ drainWaiter = "cancelled" ->
             sends' = end("cancelled") /\ UNCHANGED drainWaiter
        [] OTHER -> /\ sends' = [calls EXCEPT ![s].pc = "drain"]
                    /\ drainWaiter' = "pending"

FlowControl(s, calls, written) ==
  /\ output' = IF written > OutLimit THEN 0 ELSE written
  /\ IF written > OutLimit /\ paused'
     THEN DrainHelper(s, calls)
     ELSE /\ sends' = [calls EXCEPT ![s].pc = "done", ![s].res = "ok"]
          /\ UNCHANGED drainWaiter

\* The rest of a call that writes its frame without waiting for anything.
WriteNow(s, calls, window) ==
  \/ /\ WriteFrame(s, calls[s].kind, window)
     /\ FlowControl(s, calls, output + Size(calls[s].kind))
  \/ /\ transport # "open"
     /\ sends' = [calls EXCEPT ![s].pc = "done", ![s].res = "error"]
     /\ UNCHANGED <<protocolVars, output, wire>>
-----------------------------------------------------------------------------
(* send_frame()                                                            *)

Call(kind, own) == [kind |-> kind, own |-> own, pc |-> "start", res |-> "none",
                    job |-> "none", window |-> <<>>, asked |-> FALSE]

\* A call in the state the writer has now; the last of sends is this one.
Begin(kind, own) ==
  /\ Len(sends) < MaxSends
  /\ Cardinality({s \in DOMAIN sends : sends[s].pc # "done"}) < Writers
  /\ kind \in {"small", "large"} => mode.compress \/ own
  /\ kind = "plain" => ~mode.compress /\ ~own
  /\ own => Overrides /\ kind \in {"small", "large"}

Refused(kind, own) ==
  /\ Begin(kind, own) /\ Closing /\ kind \in Data
  /\ sends' = Append(sends, [Call(kind, own) EXCEPT !.pc = "done", !.res = "error"])
  /\ UNCHANGED <<mode, protocolVars, output, lockVars, history, wire>>

SendUncompressed(kind) ==
  /\ Begin(kind, FALSE) /\ kind \in {"ping", "close", "plain"}
  /\ ~(Closing /\ kind \in Data)
  /\ WriteNow(Len(sends) + 1, Append(sends, Call(kind, FALSE)), <<>>)
  /\ UNCHANGED <<mode, lockVars, history>>

CompressNow(s, calls, own) ==
  /\ WriteNow(s, calls, Window(own))
  /\ history' = Compressed(s, own)

SendSmall_NoLock(own) ==  \* mutant: a small message does not wait for the lock
  /\ Begin("small", own) /\ ~Closing
  /\ CompressNow(Len(sends) + 1, Append(sends, Call("small", own)), own)
  /\ UNCHANGED <<mode, lockVars>>

SendSmall(own) ==
  /\ Begin("small", own) /\ ~Closing
  /\ \/ /\ LockFree
        /\ CompressNow(Len(sends) + 1, Append(sends, Call("small", own)), own)
        /\ UNCHANGED lockVars
     \/ /\ ~LockFree
        /\ waiters' = Append(waiters, Len(sends) + 1)
        /\ sends' = Append(sends, [Call("small", own) EXCEPT !.pc = "lock"])
        /\ UNCHANGED <<protocolVars, output, holder, history, wire>>
  /\ UNCHANGED mode

\* The task of a large message takes the lock and gives it to the executor.
StartJob(s, calls) ==
  /\ holder' = s
  /\ sends' = [calls EXCEPT ![s].job = "executor", ![s].window = Window(calls[s].own)]
  /\ history' = Compressed(s, calls[s].own)

SendLarge(own) ==
  LET s == Len(sends) + 1
      calls == Append(sends, [Call("large", own) EXCEPT !.pc = "shield"])
  IN  /\ Begin("large", own) /\ ~Closing
      /\ \/ LockFree /\ StartJob(s, calls) /\ UNCHANGED waiters
         \/ /\ ~LockFree
            /\ waiters' = Append(waiters, s)
            /\ sends' = [calls EXCEPT ![s].job = "lock"]
            /\ UNCHANGED <<holder, history>>
      /\ UNCHANGED <<mode, protocolVars, output, wire>>

\* The first in the queue of the free lock gets it.
TakeLock(s) ==
  /\ holder = 0 /\ waiters # <<>> /\ s = Head(waiters)
  /\ waiters' = Tail(waiters)
  /\ \/ /\ sends[s].pc = "lock"
        /\ CompressNow(s, sends, sends[s].own)
        /\ UNCHANGED holder
     \/ /\ sends[s].job = "lock"
        /\ StartJob(s, sends)
        /\ UNCHANGED <<protocolVars, output, wire>>
  /\ UNCHANGED mode

\* The executor has compressed the message: its task writes the frame and
\* releases the lock; the caller, unless it is gone, will resume.
FinishJob(s) ==
  LET end(pc, res) == [sends EXCEPT ![s].job = "none", ![s].window = <<>>,
        ![s].pc = IF @ = "shield" THEN pc ELSE @,
        ![s].res = IF sends[s].pc = "shield" THEN res ELSE @]
  IN  /\ sends[s].job = "executor"
      /\ holder' = 0
      /\ \/ /\ WriteFrame(s, "large", sends[s].window)
            /\ output' = output + Size("large")
            /\ sends' = end("written", "none")
         \/ /\ transport # "open"
            /\ sends' = end("ready", "error")
            /\ UNCHANGED <<protocolVars, output, wire>>
      /\ UNCHANGED <<mode, drainWaiter, waiters, history>>

\* The caller of a large message goes on after its task.
AfterShield(s) ==
  /\ sends[s].pc = "written"
  /\ UNCHANGED <<transport, buffered, paused>>
  /\ FlowControl(s, sends, output)
  /\ UNCHANGED <<mode, lockVars, history, wire>>

\* A call that has been woken returns or raises.
Return(s) ==
  /\ sends[s].pc = "ready"
  /\ sends' = [sends EXCEPT ![s].pc = "done"]
  /\ UNCHANGED <<mode, protocolVars, output, lockVars, history, wire>>
-----------------------------------------------------------------------------
(* task.cancel() of a caller that is suspended.                            *)

\* The call s is asked to stop and every call of S raises CancelledError.
CancelAll(s, S) ==
  sends' = [t \in DOMAIN sends |->
    [sends[t] EXCEPT !.asked = @ \/ t = s,
                     !.pc = IF t \in S THEN "ready" ELSE @,
                     !.res = IF t \in S THEN "cancelled" ELSE @]]

Cancellable(s) ==
  /\ sends[s].pc \notin {"start", "done"} /\ ~sends[s].asked
  /\ Cardinality({t \in DOMAIN sends : sends[t].asked}) < Cancels

CancelLock_StaysQueued(s) ==  \* mutant: the call stays in the lock's queue
  /\ Cancellable(s) /\ sends[s].pc = "lock"
  /\ CancelAll(s, {s})
  /\ UNCHANGED <<mode, protocolVars, output, lockVars, history, wire>>

CancelLock(s) ==
  /\ Cancellable(s) /\ sends[s].pc = "lock"
  /\ \E i \in DOMAIN waiters : waiters[i] = s /\ waiters' = RemoveAt(waiters, i)
  /\ CancelAll(s, {s})
  /\ UNCHANGED <<mode, protocolVars, output, holder, history, wire>>

CancelShield_KillsJob(s) ==  \* mutant: no shield
  /\ Cancellable(s) /\ sends[s].pc = "shield"
  /\ sends' = [sends EXCEPT ![s].pc = "ready", ![s].res = "cancelled",
                            ![s].asked = TRUE, ![s].job = "none"]
  /\ holder' = IF holder = s THEN 0 ELSE holder
  /\ waiters' = SelectSeq(waiters, LAMBDA t : t # s)
  /\ UNCHANGED <<mode, protocolVars, output, history, wire>>

\* The shield is cancelled and the task goes on.
CancelShield(s) ==
  /\ Cancellable(s) /\ sends[s].pc = "shield"
  /\ CancelAll(s, {s})
  /\ UNCHANGED <<mode, protocolVars, output, lockVars, history, wire>>

\* The future all of them wait for is the one that is cancelled.
CancelDrain(s) ==
  /\ Cancellable(s) /\ sends[s].pc = "drain"
  /\ drainWaiter' = "cancelled"
  /\ CancelAll(s, {t \in DOMAIN sends : sends[t].pc = "drain"})
  /\ UNCHANGED <<mode, transport, buffered, paused, output, lockVars, history, wire>>

\* Cancelled between its wake-up and its resumption.
CancelWoken(s) ==
  /\ Cancellable(s) /\ sends[s].pc \in {"written", "ready"}
  /\ CancelAll(s, {s})
  /\ UNCHANGED <<mode, protocolVars, output, lockVars, history, wire>>

Cancel(s) == CancelLock(s) \/ CancelShield(s) \/ CancelDrain(s) \/ CancelWoken(s)
-----------------------------------------------------------------------------
(* The transport and its calls of the protocol.                            *)

WakeDrainers(res) ==
  /\ drainWaiter' = "none"
  /\ sends' = [t \in DOMAIN sends |->
       IF sends[t].pc = "drain" THEN [sends[t] EXCEPT !.pc = "ready", !.res = res] ELSE sends[t]]

ResumeWriting ==
  /\ paused' = FALSE
  /\ WakeDrainers("ok")

\* The peer reads a unit.
Flush ==
  /\ transport # "lost" /\ buffered > 0
  /\ buffered' = buffered - 1
  /\ \/ paused /\ buffered' <= Low /\ ResumeWriting
     \/ ~(paused /\ buffered' <= Low) /\ UNCHANGED <<paused, drainWaiter, sends>>
  /\ UNCHANGED <<mode, transport, output, lockVars, history, wire>>

\* transport.close() lets the buffer drain; an error or abort() drops it.
CloseTransport(left) ==
  /\ transport = "open" \/ (transport = "closing" /\ left < buffered)
  /\ left \in {0, buffered}
  /\ transport' = "closing" /\ buffered' = left
  /\ UNCHANGED <<mode, paused, drainWaiter, sends, output, lockVars, history, wire>>

ConnectionLost_NoWake(err) ==  \* mutant: a paused writer is not woken
  /\ transport = "closing" /\ buffered = 0
  /\ transport' = "lost"
  /\ UNCHANGED <<drainWaiter, sends>>
  /\ UNCHANGED <<mode, buffered, paused, output, lockVars, history, wire>>

ConnectionLost(err) ==
  /\ transport = "closing" /\ buffered = 0
  /\ transport' = "lost"
  /\ IF paused THEN WakeDrainers(IF err THEN "error" ELSE "ok")
               ELSE UNCHANGED <<drainWaiter, sends>>
  /\ UNCHANGED <<mode, buffered, paused, output, lockVars, history, wire>>
-----------------------------------------------------------------------------
Continue(s) == FinishJob(s) \/ AfterShield(s) \/ Return(s)

Next ==
  \/ \E kind \in Kinds, own \in BOOLEAN : Refused(kind, own)
  \/ \E kind \in {"ping", "close", "plain"} : SendUncompressed(kind)
  \/ \E own \in BOOLEAN : SendSmall(own) \/ SendLarge(own)
  \/ \E s \in DOMAIN sends : TakeLock(s) \/ Continue(s) \/ Cancel(s)
  \/ Flush \/ \E left \in 0..buffered : CloseTransport(left)
  \/ \E err \in BOOLEAN : ConnectionLost(err)

Spec == Init /\ [][Next]_vars

\* The event loop runs what is ready, the executor ends, the peer reads or
\* the transport, once it is closing and has nothing left, ends.
FairSpec ==
  /\ Spec
  /\ \A s \in 1..MaxSends : WF_vars(s \in DOMAIN sends /\ (TakeLock(s) \/ Continue(s)))
  /\ WF_vars(Flush) /\ WF_vars(\E err \in BOOLEAN : ConnectionLost(err))
-----------------------------------------------------------------------------
(* Properties.                                                             *)

TypeOK ==
  /\ transport \in {"open", "closing", "lost"} /\ drainWaiter \in {"none", "pending", "cancelled"}
  /\ {buffered, output} \subseteq Nat /\ paused \in BOOLEAN
  /\ \A s \in DOMAIN sends :
       /\ sends[s].kind \in Kinds /\ sends[s].job \in {"none", "lock", "executor"}
       /\ sends[s].pc \in {"lock", "shield", "written", "drain", "ready", "done"}
       /\ sends[s].res \in {"none", "ok", "error", "cancelled"}
       \* The lock's owner compresses, and its queue holds the calls that wait for it.
       /\ (holder = s) = (sends[s].job = "executor")
       /\ (\E i \in DOMAIN waiters : waiters[i] = s) = (sends[s].pc = "lock" \/ sends[s].job = "lock")
  /\ IsInjective(waiters)

\* The messages the peer's decompressor has seen when it reads the frame i.
SeenBefore(i) ==
  LET seen[n \in 0 .. i - 1] ==
        IF n = 0 THEN <<>>
        ELSE IF wire[n].kind \in {"small", "large"} THEN Append(seen[n - 1], wire[n].id)
        ELSE seen[n - 1]
  IN  seen[i - 1]

\* A compressed message refers to the data the peer has just decompressed
\* and to nothing else: whatever is cancelled and in whatever order messages
\* are compressed in the loop and in the executor, the peer can read what
\* reaches it (send_frame(): "must be atomic", "shielded from cancellation").
\* The lock that sees to it is held and queued for as TypeOK says.
Decodable ==
  /\ TypeOK
  /\ \A i \in DOMAIN wire :
       wire[i].kind \in {"small", "large"} => IsSuffix(wire[i].window, SeenBefore(i))

\* Messages leave in the order of the calls that sent them, a message that
\* is compressed in the executor or whose caller is cancelled included
\* (send_frame(): a small message takes the lock too).
CallOrder ==
  \A i, j \in DOMAIN wire :
    i < j => wire[i].id < wire[j].id

\* A call that waits for the transport waits for the very future the next
\* resume_writing() or connection_lost() completes, and only while one of
\* them is still to come; no future outlives the pause it was made for.
DrainIsWoken ==
  /\ \A s \in DOMAIN sends :
       sends[s].pc = "drain" => paused /\ transport # "lost" /\ drainWaiter = "pending"
  /\ ~paused => drainWaiter = "none"

\* Every call of send_frame() and close() returns or raises while the peer
\* keeps reading, whatever happens to the other callers.
SendEnds ==
  \A s \in 1..MaxSends :
    s \in DOMAIN sends ~> s \in DOMAIN sends /\ sends[s].pc = "done"

\* "Modify _drain_helper() to handle concurrent await resp.write(...) or
\* ws.send_json(...) calls" (CHANGES.rst): a call raises CancelledError only
\* if it is the one that was cancelled.  The code breaks it: all wait for one
\* future, without a shield.
OnlyTheCancelled ==
  \A s \in DOMAIN sends : sends[s].res = "cancelled" => sends[s].asked
=============================================================================
