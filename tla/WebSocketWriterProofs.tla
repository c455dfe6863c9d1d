------------------------ MODULE WebSocketWriterProofs ------------------------
(***************************************************************************)
(* What a WebSocket's sending half guarantees for every number of calls,   *)
(* tasks and cancellations, and for all limits of the flow control.        *)
(***************************************************************************)
EXTENDS WebSocketWriter, QueueLemmas

(* -------------------------------- types -------------------------------- *)

Places == {"start", "lock", "shield", "written", "drain", "ready", "done"}
Results == {"none", "ok", "error", "cancelled"}
Jobs == {"none", "lock", "executor"}
CallType == [kind : Kinds, own : BOOLEAN, pc : Places, res : Results, job : Jobs,
             window : Seq(Nat), asked : BOOLEAN]
Frame == [id : Nat, kind : Data, window : Seq(Nat)]
Mode == [compress : BOOLEAN, notakeover : BOOLEAN]

FlowTypes ==
  /\ transport \in {"open", "closing", "lost"} /\ drainWaiter \in {"none", "pending", "cancelled"}
  /\ buffered \in Nat /\ output \in Nat /\ paused \in BOOLEAN

Types ==
  /\ mode \in Mode /\ FlowTypes
  /\ sends \in Seq(CallType) /\ \A s \in DOMAIN sends : sends[s].pc # "start"
  /\ holder \in Nat /\ waiters \in Seq(Nat)
  /\ history \in Seq(Nat) /\ wire \in Seq(Frame)

(* ----------------------- one call among the others --------------------- *)

\* calls with its s-th call replaced by c.
Put(calls, s, c) ==
  [t \in DOMAIN calls |-> IF t = s THEN c ELSE calls[t]]

LEMMA CallsDomain ==
  ASSUME NEW calls \in Seq(CallType)
  PROVE  /\ Len(calls) \in Nat /\ DOMAIN calls = 1 .. Len(calls)
         /\ \A t \in DOMAIN calls : calls[t] \in CallType
  BY LenProperties, ElementOfSeq

\* A function on the calls is a sequence of calls.
LEMMA CallsMapped ==
  ASSUME NEW calls \in Seq(CallType), NEW f, DOMAIN f = DOMAIN calls,
         f = [t \in DOMAIN calls |-> f[t]], \A t \in DOMAIN calls : f[t] \in CallType
  PROVE  f \in Seq(CallType) /\ Len(f) = Len(calls)
<1>1. Len(calls) \in Nat /\ DOMAIN calls = 1 .. Len(calls)
  BY CallsDomain
<1>2. f \in [1 .. Len(calls) -> CallType]
  BY <1>1
<1>3. f \in Seq(CallType)
  BY <1>1, <1>2
<1> QED BY <1>1, <1>2, <1>3, LenProperties

LEMMA PutType ==
  ASSUME NEW calls \in Seq(CallType), NEW s \in DOMAIN calls, NEW c \in CallType
  PROVE  /\ Put(calls, s, c) \in Seq(CallType) /\ Len(Put(calls, s, c)) = Len(calls)
         /\ DOMAIN Put(calls, s, c) = DOMAIN calls
         /\ Put(calls, s, c)[s] = c
         /\ \A t \in DOMAIN calls : t # s => Put(calls, s, c)[t] = calls[t]
<1>1. \A t \in DOMAIN calls : calls[t] \in CallType
  BY CallsDomain
<1>2. DOMAIN Put(calls, s, c) = DOMAIN calls
  BY DEF Put
<1>3. /\ \A t \in DOMAIN calls : Put(calls, s, c)[t] = IF t = s THEN c ELSE calls[t]
      /\ Put(calls, s, c) = [t \in DOMAIN calls |-> Put(calls, s, c)[t]]
  BY DEF Put
<1>4. \A t \in DOMAIN calls : Put(calls, s, c)[t] \in CallType
  BY <1>1, <1>3
<1> QED BY <1>2, <1>3, <1>4, CallsMapped

LEMMA PutSends ==
  ASSUME Types, NEW s \in DOMAIN sends, NEW c \in CallType, sends' = Put(sends, s, c)
  PROVE  /\ sends' \in Seq(CallType) /\ Len(sends') = Len(sends) /\ DOMAIN sends' = DOMAIN sends
         /\ sends'[s] = c /\ \A t \in DOMAIN sends : t # s => sends'[t] = sends[t]
<1>1. sends \in Seq(CallType)
  BY DEF Types
<1> QED BY <1>1, PutType

\* A new call is appended.
LEMMA AddType ==
  ASSUME NEW calls \in Seq(CallType), NEW c \in CallType
  PROVE  /\ Append(calls, c) \in Seq(CallType) /\ Len(Append(calls, c)) = Len(calls) + 1
         /\ DOMAIN Append(calls, c) = 1 .. Len(calls) + 1
         /\ \A t \in DOMAIN calls : Append(calls, c)[t] = calls[t]
         /\ Append(calls, c)[Len(calls) + 1] = c
  BY CallsDomain, AppendProperties, LenProperties

\* The updates of the actions are replacements.
LEMMA EndsCall ==
  ASSUME NEW calls \in Seq(CallType), NEW s \in DOMAIN calls, NEW p \in Places, NEW r \in Results
  PROVE  /\ [calls EXCEPT ![s].pc = p, ![s].res = r] = Put(calls, s, [calls[s] EXCEPT !.pc = p, !.res = r])
         /\ [calls[s] EXCEPT !.pc = p, !.res = r] \in CallType
<1>1. calls[s] \in CallType
  BY CallsDomain
<1>2. [calls[s] EXCEPT !.pc = p, !.res = r] \in CallType
  BY <1>1 DEF CallType
<1> QED BY <1>1, <1>2, CallsDomain DEF Put

LEMMA MovesCall ==
  ASSUME NEW calls \in Seq(CallType), NEW s \in DOMAIN calls, NEW p \in Places
  PROVE  /\ [calls EXCEPT ![s].pc = p] = Put(calls, s, [calls[s] EXCEPT !.pc = p])
         /\ [calls[s] EXCEPT !.pc = p] \in CallType
<1>1. calls[s] \in CallType
  BY CallsDomain
<1>2. [calls[s] EXCEPT !.pc = p] \in CallType
  BY <1>1 DEF CallType
<1> QED BY <1>1, <1>2, CallsDomain DEF Put

LEMMA NewCall ==
  ASSUME NEW kind \in Kinds, NEW own \in BOOLEAN
  PROVE  Call(kind, own) \in CallType
<1>1. <<>> \in Seq(Nat)
  BY EmptySeq
<1> QED BY <1>1 DEF Call, CallType, Places, Results, Jobs

(* ----------------------------- flow control ----------------------------- *)

\* How a call that has written ends: it returns, raises, or waits for the drain.
Ended(s, calls, pc, res) ==
  /\ sends' = Put(calls, s, [calls[s] EXCEPT !.pc = pc, !.res = res])
  /\ pc = "done" => drainWaiter' = drainWaiter
  /\ pc = "drain" => /\ paused' /\ transport # "lost" /\ drainWaiter # "cancelled"
                     /\ drainWaiter' = "pending"

LEMMA FlowEnds ==
  ASSUME FlowTypes, NEW calls \in Seq(CallType), NEW s \in DOMAIN calls, NEW written \in Nat,
         FlowControl(s, calls, written)
  PROVE  /\ output' \in Nat
         /\ \E pc \in {"done", "drain"}, res \in Results : Ended(s, calls, pc, res)
<1>1. output' \in Nat
  BY DEF FlowControl
<1>2. calls[s] \in CallType
  BY CallsDomain
<1>3. ASSUME NEW res \in Results, sends' = [calls EXCEPT ![s].pc = "done", ![s].res = res],
             UNCHANGED drainWaiter
      PROVE  Ended(s, calls, "done", res)
  BY <1>3, EndsCall DEF Ended, Places
<1>4. ASSUME sends' = [calls EXCEPT ![s].pc = "drain"], paused', transport # "lost",
             drainWaiter # "cancelled", drainWaiter' = "pending"
      PROVE  Ended(s, calls, "drain", calls[s].res)
  <2>1. [calls[s] EXCEPT !.pc = "drain"] = [calls[s] EXCEPT !.pc = "drain", !.res = calls[s].res]
    BY <1>2 DEF CallType
  <2>2. sends' = Put(calls, s, [calls[s] EXCEPT !.pc = "drain"])
    BY <1>4, MovesCall DEF Places
  <2> QED BY <1>4, <2>1, <2>2 DEF Ended
<1>5. calls[s].res \in Results /\ {"ok", "error", "cancelled"} \subseteq Results
  BY <1>2 DEF CallType, Results
<1>6. CASE written > OutLimit /\ paused'
  <2>1. DrainHelper(s, calls)
    BY <1>6 DEF FlowControl
  <2>2. CASE transport = "lost"
    <3>1. sends' = [calls EXCEPT ![s].pc = "done", ![s].res = "error"] /\ UNCHANGED drainWaiter
      BY <2>1, <2>2 DEF DrainHelper
    <3> QED BY <1>1, <1>3, <1>5, <3>1
  <2>3. CASE transport # "lost" /\ drainWaiter = "cancelled"
    <3>1. sends' = [calls EXCEPT ![s].pc = "done", ![s].res = "cancelled"] /\ UNCHANGED drainWaiter
      BY <2>1, <2>3 DEF DrainHelper
    <3> QED BY <1>1, <1>3, <1>5, <3>1
  <2>4. CASE transport # "lost" /\ drainWaiter # "cancelled"
    <3>1. sends' = [calls EXCEPT ![s].pc = "drain"] /\ drainWaiter' = "pending"
      BY <2>1, <2>4 DEF DrainHelper
    <3> QED BY <1>1, <1>4, <1>5, <1>6, <2>4, <3>1
  <2> QED BY <2>2, <2>3, <2>4
<1>7. CASE ~(written > OutLimit /\ paused')
  <2>1. sends' = [calls EXCEPT ![s].pc = "done", ![s].res = "ok"] /\ UNCHANGED drainWaiter
    BY <1>7 DEF FlowControl
  <2> QED BY <1>1, <1>3, <1>5, <2>1
<1> QED BY <1>6, <1>7

\* What is written: nothing, or the frame of the call s when it holds data.
Wrote(s, kind, window) ==
  /\ transport = "open"
  /\ wire' = IF kind \in Data THEN Append(wire, [id |-> s, kind |-> kind, window |-> window]) ELSE wire

LEMMA WriteFrameFlow ==
  ASSUME FlowTypes, NEW s, NEW kind, NEW window, WriteFrame(s, kind, window)
  PROVE  /\ Wrote(s, kind, window) /\ transport' = transport
         /\ buffered' \in Nat /\ paused' \in BOOLEAN /\ (paused => paused')
<1>1. PICK kept \in {0, Size(kind)} :
        buffered' = buffered + kept /\ paused' = (paused \/ buffered' > High) /\ transport' = transport
  BY DEF WriteFrame, TransportWrite
<1>2. kept \in Nat
  BY DEF Size
<1>3. paused' \in BOOLEAN
  BY <1>1 DEF FlowTypes
<1> QED BY <1>1, <1>2, <1>3 DEF WriteFrame, Wrote, FlowTypes

\* A call that writes without waiting.
LEMMA WriteNowEnds ==
  ASSUME FlowTypes, NEW calls \in Seq(CallType), NEW s \in DOMAIN calls, NEW window,
         WriteNow(s, calls, window)
  PROVE  /\ FlowTypes' /\ transport' = transport /\ (paused => paused')
         /\ \E pc \in {"done", "drain"}, res \in Results : Ended(s, calls, pc, res)
         /\ Wrote(s, calls[s].kind, window) \/ (transport # "open" /\ wire' = wire)
<1>1. CASE /\ WriteFrame(s, calls[s].kind, window)
           /\ FlowControl(s, calls, output + Size(calls[s].kind))
  <2>1. output + Size(calls[s].kind) \in Nat
    BY DEF FlowTypes, Size
  <2>2. /\ Wrote(s, calls[s].kind, window) /\ transport' = transport
        /\ buffered' \in Nat /\ paused' \in BOOLEAN /\ (paused => paused')
    BY <1>1, WriteFrameFlow
  <2>3. output' \in Nat /\ \E pc \in {"done", "drain"}, res \in Results : Ended(s, calls, pc, res)
    BY <1>1, <2>1, FlowEnds
  <2>4. drainWaiter' \in {"none", "pending", "cancelled"}
    BY <2>3 DEF Ended, FlowTypes
  <2> QED BY <2>2, <2>3, <2>4 DEF FlowTypes
<1>2. CASE /\ transport # "open"
           /\ sends' = [calls EXCEPT ![s].pc = "done", ![s].res = "error"]
           /\ UNCHANGED <<protocolVars, output, wire>>
  <2>1. Ended(s, calls, "done", "error") /\ "error" \in Results
    BY <1>2, EndsCall DEF Ended, Places, Results, protocolVars
  <2> QED BY <1>2, <2>1 DEF protocolVars, FlowTypes
<1> QED BY <1>1, <1>2 DEF WriteNow

(* ------------------------------- the lock ------------------------------- *)

\* The lock's owner compresses in the executor and came before everybody in
\* the queue, which is in the order of the calls; small messages wait for it
\* themselves, large ones by their shielded task.
LockInv ==
  /\ holder \in 0 .. Len(sends)
  /\ \A s \in DOMAIN sends :
       /\ holder = s <=> sends[s].job = "executor"
       /\ In(waiters, s) <=> sends[s].pc = "lock" \/ sends[s].job = "lock"
       /\ sends[s].pc = "lock" => sends[s].kind = "small"
       /\ sends[s].job # "none" => sends[s].kind = "large"
  /\ \A i \in DOMAIN waiters : waiters[i] \in DOMAIN sends /\ holder < waiters[i]
  /\ Sorted(waiters)

LEMMA LockStays ==
  ASSUME Types, LockInv, sends' \in Seq(CallType), UNCHANGED lockVars,
         Len(sends') \in {Len(sends), Len(sends) + 1},
         \A t \in DOMAIN sends : /\ sends'[t].job = sends[t].job /\ sends'[t].kind = sends[t].kind
                                 /\ sends'[t].pc = "lock" <=> sends[t].pc = "lock",
         \A t \in DOMAIN sends' \ DOMAIN sends : sends'[t].job = "none" /\ sends'[t].pc # "lock"
  PROVE  LockInv'
<1> DEFINE n == Len(sends)
           m == Len(sends')
<1>1. /\ n \in Nat /\ DOMAIN sends = 1 .. n /\ DOMAIN sends' = 1 .. m
      /\ m \in {n, n + 1} /\ holder \in 0 .. n
      /\ \A i \in DOMAIN waiters : waiters[i] \in 1 .. n
  BY CallsDomain DEF Types, LockInv
<1>2. holder' = holder /\ waiters' = waiters
  BY DEF lockVars
<1> HIDE DEF n, m
<1>3. DOMAIN sends \subseteq DOMAIN sends' /\ holder \in 0 .. m
  BY <1>1
<1>4. \A t \in DOMAIN sends' \ DOMAIN sends : ~In(waiters, t) /\ holder # t
  BY <1>1 DEF In
<1>5. ASSUME NEW s \in DOMAIN sends'
      PROVE  /\ holder' = s <=> sends'[s].job = "executor"
             /\ In(waiters', s) <=> sends'[s].pc = "lock" \/ sends'[s].job = "lock"
             /\ sends'[s].pc = "lock" => sends'[s].kind = "small"
             /\ sends'[s].job # "none" => sends'[s].kind = "large"
  <2>1. CASE s \in DOMAIN sends
    BY <1>2, <2>1 DEF LockInv
  <2>2. CASE s \notin DOMAIN sends
    BY <1>2, <1>4, <2>2
  <2> QED BY <2>1, <2>2
<1> QED BY <1>2, <1>3, <1>5 DEF LockInv, m

\* A call joins the queue.
LEMMA LockJoined ==
  ASSUME Types, LockInv, NEW c \in CallType, sends' = Append(sends, c),
         c.pc = "lock" \/ c.job = "lock", c.job # "executor",
         c.pc = "lock" => c.kind = "small", c.job # "none" => c.kind = "large",
         waiters' = Append(waiters, Len(sends) + 1), UNCHANGED holder
  PROVE  LockInv'
<1> DEFINE n == Len(sends) + 1
<1>1. /\ n \in Nat \ {0} /\ DOMAIN sends = 1 .. n - 1 /\ DOMAIN sends' = 1 .. n /\ Len(sends') = n
      /\ sends'[n] = c /\ \A t \in DOMAIN sends : sends'[t] = sends[t]
  BY CallsDomain, AddType DEF Types
<1>2. /\ \A i \in DOMAIN waiters : waiters[i] < n /\ waiters[i] \in DOMAIN sends
      /\ waiters \in Seq(Nat) /\ holder < n
  BY <1>1 DEF LockInv, Types
<1>3. Sorted(waiters') /\ Once(waiters)
  BY <1>1, <1>2, SortedAppend, SortedOnce DEF LockInv
<1>4. ~In(waiters, n)
  BY <1>1, <1>2 DEF In
<1>5. \A t : In(waiters', t) <=> In(waiters, t) \/ t = n
  BY <1>1, <1>2, <1>3, <1>4, OnceAppend
<1>6. \A i \in DOMAIN waiters' : waiters'[i] \in DOMAIN sends' /\ holder < waiters'[i]
  <2>1. \A i \in DOMAIN waiters' : In(waiters, waiters'[i]) \/ waiters'[i] = n
    BY <1>5 DEF In
  <2>2. \A t : In(waiters, t) => t \in DOMAIN sends /\ holder < t
    BY DEF In, LockInv
  <2>3. \A t \in DOMAIN sends : t \in DOMAIN sends'
    BY <1>1
  <2>4. n \in DOMAIN sends' /\ holder' = holder
    BY <1>1
  <2> QED BY <1>2, <2>1, <2>2, <2>3, <2>4
<1>7. n # holder /\ n \notin DOMAIN sends
  BY <1>1, <1>2 DEF Types
<1>8. \A s \in DOMAIN sends' : s \in DOMAIN sends \/ s = n
  BY <1>1
<1> HIDE DEF n
<1>9. holder' \in 0 .. Len(sends')
  BY <1>1 DEF LockInv
<1> QED BY <1>1, <1>3, <1>5, <1>6, <1>7, <1>8, <1>9 DEF LockInv

\* The new call takes the free lock.
LEMMA LockStarted ==
  ASSUME Types, LockInv, LockFree, NEW c \in CallType, sends' = Append(sends, c),
         c.job = "executor", c.kind = "large", c.pc # "lock",
         holder' = Len(sends) + 1, UNCHANGED waiters
  PROVE  LockInv'
<1> DEFINE n == Len(sends) + 1
<1>1. /\ n \in Nat \ {0} /\ DOMAIN sends = 1 .. n - 1 /\ DOMAIN sends' = 1 .. n /\ Len(sends') = n
      /\ sends'[n] = c /\ \A t \in DOMAIN sends : sends'[t] = sends[t]
  BY CallsDomain, AddType DEF Types
<1>2. waiters = <<>> /\ holder = 0 /\ \A t : ~In(waiters, t)
  BY DEF LockFree, In
<1>3. n \notin DOMAIN sends /\ \A s \in DOMAIN sends' : s \in DOMAIN sends \/ s = n
  BY <1>1
<1>4. \A s \in DOMAIN sends : s # 0 /\ sends[s].job # "executor" /\ s # n
  BY <1>1, <1>2 DEF LockInv
<1> HIDE DEF n
<1>5. holder' \in 0 .. Len(sends') /\ holder' = n
  BY <1>1 DEF n
<1> QED BY <1>1, <1>2, <1>3, <1>4, <1>5 DEF LockInv

\* The first in the queue takes it: for a moment, or for its job.
LEMMA LockTaken ==
  ASSUME Types, LockInv, holder = 0, waiters # <<>>, NEW s \in DOMAIN sends, s = Head(waiters),
         waiters' = Tail(waiters), NEW c \in CallType, sends' = Put(sends, s, c),
         c.kind = sends[s].kind, c.pc # "lock",
         \/ holder' = 0 /\ c.job = "none"
         \/ holder' = s /\ c.job = "executor" /\ c.kind = "large"
  PROVE  LockInv'
<1>1. /\ DOMAIN sends' = DOMAIN sends /\ Len(sends') = Len(sends)
      /\ sends'[s] = c
      /\ \A t \in DOMAIN sends : t # s => sends'[t] = sends[t]
  BY PutSends
<1>2. Len(sends) \in Nat /\ DOMAIN sends = 1 .. Len(sends)
  BY CallsDomain DEF Types
<1>3. /\ Sorted(waiters') /\ \A i \in DOMAIN waiters' : s < waiters'[i]
      /\ \A t : In(waiters', t) <=> In(waiters, t) /\ t # s
  BY SortedTail, SortedOnce, OnceTail DEF LockInv, Types
<1>4. \A i \in DOMAIN waiters' : waiters'[i] \in DOMAIN sends /\ 0 < waiters'[i]
  <2>1. \A i \in DOMAIN waiters' : In(waiters, waiters'[i])
    BY <1>3 DEF In
  <2> QED BY <2>1 DEF In, LockInv
<1>5. holder' \in 0 .. Len(sends') /\ \A i \in DOMAIN waiters' : holder' < waiters'[i]
  BY <1>1, <1>2, <1>3, <1>4
<1>6. \A t \in DOMAIN sends : t # 0 /\ sends[t].job # "executor"
  BY <1>2 DEF LockInv
<1>7. ASSUME NEW t \in DOMAIN sends
      PROVE  /\ holder' = t <=> sends'[t].job = "executor"
             /\ In(waiters', t) <=> sends'[t].pc = "lock" \/ sends'[t].job = "lock"
             /\ sends'[t].pc = "lock" => sends'[t].kind = "small"
             /\ sends'[t].job # "none" => sends'[t].kind = "large"
  <2>1. CASE t = s
    <3>1. sends'[t] = c /\ ~In(waiters', t)
      BY <1>1, <1>3, <2>1
    <3> QED BY <1>6, <2>1, <3>1
  <2>2. CASE t # s
    <3>1. sends'[t] = sends[t] /\ (In(waiters', t) <=> In(waiters, t)) /\ holder' # t
      BY <1>1, <1>3, <1>6, <2>2
    <3> QED BY <1>6, <3>1 DEF LockInv
  <2> QED BY <2>1, <2>2
<1> QED BY <1>1, <1>3, <1>4, <1>5, <1>7 DEF LockInv

\* The job has ended.
LEMMA LockReleased ==
  ASSUME Types, LockInv, NEW s \in DOMAIN sends, holder = s, holder' = 0, UNCHANGED waiters,
         NEW c \in CallType, sends' = Put(sends, s, c), c.kind = sends[s].kind, c.job = "none",
         c.pc # "lock"
  PROVE  LockInv'
<1>1. /\ DOMAIN sends' = DOMAIN sends /\ Len(sends') = Len(sends)
      /\ sends'[s] = c
      /\ \A t \in DOMAIN sends : t # s => sends'[t] = sends[t]
  BY PutSends
<1>2. Len(sends) \in Nat /\ DOMAIN sends = 1 .. Len(sends) /\ holder' \in 0 .. Len(sends')
  BY <1>1, CallsDomain DEF Types
<1>3. ~In(waiters, s) /\ \A i \in DOMAIN waiters : waiters[i] \in Nat /\ 0 < waiters[i]
  BY <1>2 DEF In, LockInv
<1>4. \A t \in DOMAIN sends : t # 0 /\ (sends[t].job = "executor" => t = s)
  BY <1>2 DEF LockInv
<1> QED BY <1>1, <1>2, <1>3, <1>4 DEF LockInv

\* A caller is cancelled while it waits for it.
LEMMA LockLeft ==
  ASSUME Types, LockInv, NEW i \in DOMAIN waiters, NEW s \in DOMAIN sends, waiters[i] = s,
         sends[s].pc = "lock", waiters' = RemoveAt(waiters, i), UNCHANGED holder,
         sends' \in Seq(CallType), Len(sends') = Len(sends), sends'[s].pc = "ready",
         \A t \in DOMAIN sends : /\ sends'[t].job = sends[t].job /\ sends'[t].kind = sends[t].kind
                                 /\ t # s => sends'[t].pc = sends[t].pc
  PROVE  LockInv'
<1>1. DOMAIN sends' = DOMAIN sends /\ Len(sends) \in Nat /\ DOMAIN sends = 1 .. Len(sends)
  BY CallsDomain DEF Types
<1>2. Sorted(waiters') /\ \A t : In(waiters', t) <=> In(waiters, t) /\ t # s
  BY SortedRemove, SortedOnce, OnceRemove DEF LockInv, Types
<1>3. \A j \in DOMAIN waiters' : waiters'[j] \in DOMAIN sends /\ holder < waiters'[j]
  <2>1. \A j \in DOMAIN waiters' : In(waiters, waiters'[j])
    BY <1>2 DEF In
  <2> QED BY <2>1 DEF In, LockInv
<1>4. sends[s].job = "none"
  BY DEF LockInv, Types
<1> QED BY <1>1, <1>2, <1>3, <1>4 DEF LockInv

(* ------------------------------ the drain ------------------------------ *)

\* A call ends its writing: it returns, raises or waits for the drain.
LEMMA DrainEnded ==
  ASSUME Types, DrainIsWoken, NEW calls \in Seq(CallType), NEW s \in DOMAIN calls,
         NEW pc \in {"done", "drain"}, NEW res \in Results, Ended(s, calls, pc, res),
         \A t \in DOMAIN calls : t # s => t \in DOMAIN sends /\ calls[t] = sends[t],
         paused => paused', transport' = transport
  PROVE  DrainIsWoken'
<1> DEFINE c == [calls[s] EXCEPT !.pc = pc, !.res = res]
<1>1. c \in CallType /\ c.pc = pc
  <2>1. calls[s] \in CallType /\ pc \in Places
    BY CallsDomain DEF Places
  <2> QED BY <2>1 DEF CallType
<1>2. sends' = Put(calls, s, c)
  BY DEF Ended
<1> HIDE DEF c
<1>3. /\ DOMAIN sends' = DOMAIN calls /\ sends'[s].pc = pc
      /\ \A t \in DOMAIN calls : t # s => sends'[t] = calls[t]
  BY <1>1, <1>2, PutType, ZenonT(60)
<1>4. CASE pc = "done"
  BY <1>3, <1>4 DEF Ended, DrainIsWoken
<1>5. CASE pc = "drain"
  BY <1>3, <1>5 DEF Ended, DrainIsWoken
<1> QED BY <1>4, <1>5

\* Nobody begins to wait.
LEMMA DrainStays ==
  ASSUME DrainIsWoken, drainWaiter' = drainWaiter, paused => paused',
         \/ transport' = transport
         \/ transport' = "closing",
         \A t \in DOMAIN sends' : sends'[t].pc = "drain" => t \in DOMAIN sends /\ sends[t].pc = "drain"
  PROVE  DrainIsWoken'
BY DEF DrainIsWoken

(* ------------------------- the order of the calls ----------------------- *)

\* A message that is queued for the lock or being compressed.
Waits(c) == c.pc = "lock" \/ c.job # "none"

LEMMA WaitsForLock ==
  ASSUME Types, LockInv
  PROVE  /\ \A t \in DOMAIN sends : Waits(sends[t]) <=> t = holder \/ In(waiters, t)
         /\ LockFree => \A t \in DOMAIN sends : ~Waits(sends[t])
<1>1. \A t \in DOMAIN sends : sends[t].job \in Jobs /\ t # 0
  <2>1. \A t \in DOMAIN sends : sends[t] \in CallType /\ t # 0
    BY CallsDomain DEF Types
  <2> QED BY <2>1 DEF CallType
<1>2. LockFree => holder = 0 /\ \A t : ~In(waiters, t)
  BY DEF LockFree, In
<1> QED BY <1>1, <1>2 DEF LockInv, Waits, Jobs

\* With a compress= of its own a message may wait for the lock on a connection
\* whose other messages do not; otherwise all of them do or none of them.
Ordered == Overrides => mode.compress

\* Then what is on the wire was sent before everything that is still to be
\* compressed.
OrderInv ==
  Ordered =>
    /\ CallOrder
    /\ \A i \in DOMAIN wire :
         /\ wire[i].id \in DOMAIN sends
         /\ \A t \in DOMAIN sends : Waits(sends[t]) => wire[i].id < t
    /\ \A t \in DOMAIN sends : Waits(sends[t]) => mode.compress

LEMMA OrderKept ==
  ASSUME Types, OrderInv, UNCHANGED <<mode, wire>>, sends' \in Seq(CallType), Len(sends) <= Len(sends'),
         \A t \in DOMAIN sends' : Waits(sends'[t]) => IF t \in DOMAIN sends THEN Waits(sends[t])
                                                      ELSE Overrides \/ mode.compress
  PROVE  OrderInv'
<1> DEFINE n == Len(sends)
           m == Len(sends')
<1>1. n \in Nat /\ m \in Nat /\ n <= m /\ DOMAIN sends = 1 .. n /\ DOMAIN sends' = 1 .. m
  BY CallsDomain DEF Types
<1> HIDE DEF n, m
<1>2. \A t \in DOMAIN sends' : t \notin DOMAIN sends => \A s \in DOMAIN sends : s < t
  BY <1>1
<1>3. DOMAIN sends \subseteq DOMAIN sends'
  BY <1>1
<1> QED BY <1>2, <1>3 DEF OrderInv, CallOrder, Ordered

LEMMA OrderWritten ==
  ASSUME Types, OrderInv, mode' = mode, sends' \in Seq(CallType), Len(sends) <= Len(sends'),
         NEW f \in Frame, wire' = Append(wire, f), f.id \in DOMAIN sends',
         Ordered => \A i \in DOMAIN wire : wire[i].id < f.id,
         Ordered => \A t \in DOMAIN sends' :
            Waits(sends'[t]) => t \in DOMAIN sends /\ Waits(sends[t]) /\ f.id < t
  PROVE  OrderInv'
<1> DEFINE k == Len(wire)
<1>1. DOMAIN sends \subseteq DOMAIN sends'
  <2>1. /\ Len(sends) \in Nat /\ Len(sends') \in Nat
        /\ DOMAIN sends = 1 .. Len(sends) /\ DOMAIN sends' = 1 .. Len(sends')
    BY CallsDomain DEF Types
  <2> QED BY <2>1
<1>2. /\ k \in Nat /\ DOMAIN wire = 1 .. k /\ DOMAIN wire' = 1 .. k + 1
      /\ \A i \in 1 .. k : wire'[i] = wire[i]
      /\ wire'[k + 1] = f
  BY AppendProperties, LenProperties DEF Types
<1> HIDE DEF k
<1>3. \A i \in DOMAIN wire' : (i \in DOMAIN wire /\ i # k + 1) \/ (i = k + 1 /\ wire'[i] = f)
  BY <1>2
<1> SUFFICES ASSUME Ordered PROVE OrderInv'
  BY DEF OrderInv, Ordered
<1>4. CallOrder'
  <2> SUFFICES ASSUME NEW i \in DOMAIN wire', NEW j \in DOMAIN wire', i < j
               PROVE  wire'[i].id < wire'[j].id
    BY DEF CallOrder
  <2>1. i \in DOMAIN wire /\ wire'[i] = wire[i]
    BY <1>2
  <2>2. CASE j \in DOMAIN wire
    BY <1>2, <2>1, <2>2 DEF OrderInv, CallOrder
  <2>3. CASE j = k + 1
    BY <1>2, <2>1, <2>3
  <2> QED BY <1>3, <2>2, <2>3
<1>5. \A i \in DOMAIN wire' : /\ wire'[i].id \in DOMAIN sends'
                              /\ \A t \in DOMAIN sends' : Waits(sends'[t]) => wire'[i].id < t
  BY <1>1, <1>2, <1>3 DEF OrderInv
<1> QED BY <1>4, <1>5 DEF OrderInv

(* -------------------------- the deflate stream -------------------------- *)

\* The first n messages on the wire.
Ids(n) == [i \in 1 .. n |-> wire[i].id]

\* What a message compressed after the messages of q refers to.
After(q) == IF mode.notakeover THEN <<>> ELSE q

\* The shared compressor has seen what is on the wire and the message that is
\* in the executor, which waits for the lock's owner to write it.
StreamInv ==
  ~Overrides =>
    /\ \A s \in DOMAIN sends : sends[s].own = FALSE
    /\ \A i \in DOMAIN wire :
         /\ ~mode.compress => wire[i].kind = "plain"
         /\ mode.compress => wire[i].kind \in {"small", "large"} /\ wire[i].window = After(Ids(i - 1))
    /\ mode.compress /\ transport = "open" =>
         /\ holder = 0 => history = Ids(Len(wire))
         /\ holder # 0 => /\ history = Append(Ids(Len(wire)), holder)
                          /\ sends[holder].window = After(Ids(Len(wire)))

\* Nothing is written and nothing compressed, or the transport is closed.
LEMMA StreamKept ==
  ASSUME Types, LockInv, StreamInv, UNCHANGED <<mode, wire>>, DOMAIN sends \subseteq DOMAIN sends',
         transport' = "open" => transport = "open" /\ UNCHANGED <<holder, history>>,
         \A t \in DOMAIN sends : sends'[t].own = sends[t].own /\ sends'[t].window = sends[t].window,
         ~Overrides => \A t \in DOMAIN sends' \ DOMAIN sends : sends'[t].own = FALSE
  PROVE  StreamInv'
<1>1. \A n : Ids(n)' = Ids(n)
  BY DEF Ids
<1>2. \A q : After(q)' = After(q)
  BY DEF After
<1>3. holder # 0 => holder \in DOMAIN sends
  BY CallsDomain DEF Types, LockInv
<1> SUFFICES ASSUME ~Overrides PROVE StreamInv'
  BY DEF StreamInv
<1>4. \A s \in DOMAIN sends' : sends'[s].own = FALSE
  BY DEF StreamInv
<1>5. \A i \in DOMAIN wire' :
        /\ ~mode'.compress => wire'[i].kind = "plain"
        /\ mode'.compress => wire'[i].kind \in {"small", "large"} /\ wire'[i].window = After(Ids(i - 1))'
  BY <1>1, <1>2 DEF StreamInv, After, Ids
<1>6. mode'.compress /\ transport' = "open" =>
        /\ holder' = 0 => history' = Ids(Len(wire))'
        /\ holder' # 0 => /\ history' = Append(Ids(Len(wire)), holder)'
                          /\ sends'[holder'].window = After(Ids(Len(wire)))'
  BY <1>1, <1>2, <1>3 DEF StreamInv, After, Ids
<1> QED BY <1>4, <1>5, <1>6 DEF StreamInv

LEMMA IdsType ==
  ASSUME NEW n \in Nat, \A i \in 1 .. n : wire[i].id \in Nat
  PROVE  Ids(n) \in Seq(Nat) /\ Len(Ids(n)) = n /\ \A i \in 1 .. n : Ids(n)[i] = wire[i].id
<1>1. Ids(n) \in [1 .. n -> Nat] /\ \A i \in 1 .. n : Ids(n)[i] = wire[i].id
  BY DEF Ids
<1>2. Ids(n) \in Seq(Nat)
  BY <1>1
<1> QED BY <1>1, <1>2, LenProperties

LEMMA IdsGrow ==
  ASSUME Types, NEW f \in Frame, wire' = Append(wire, f)
  PROVE  /\ Len(wire) \in Nat /\ Len(wire') = Len(wire) + 1
         /\ DOMAIN wire = 1 .. Len(wire) /\ DOMAIN wire' = 1 .. Len(wire) + 1
         /\ \A i \in DOMAIN wire : wire'[i] = wire[i]
         /\ wire'[Len(wire) + 1] = f
         /\ \A n \in 0 .. Len(wire) : [i \in 1 .. n |-> wire'[i].id] = Ids(n)
         /\ [i \in 1 .. Len(wire) + 1 |-> wire'[i].id] = Append(Ids(Len(wire)), f.id)
<1> DEFINE k == Len(wire)
           g == [i \in 1 .. k + 1 |-> wire'[i].id]
<1>1. /\ k \in Nat /\ DOMAIN wire = 1 .. k /\ DOMAIN wire' = 1 .. k + 1 /\ Len(wire') = k + 1
      /\ \A i \in 1 .. k : wire'[i] = wire[i] /\ wire[i] \in Frame
      /\ wire'[k + 1] = f
  BY AppendProperties, LenProperties, ElementOfSeq DEF Types
<1>2. \A n \in 0 .. k : [i \in 1 .. n |-> wire'[i].id] = Ids(n)
  BY <1>1 DEF Ids
<1>3. g = Append(Ids(k), f.id)
  <2>1. Ids(k) \in Seq(Nat) /\ Len(Ids(k)) = k /\ f.id \in Nat
    <3>1. \A i \in 1 .. k : wire[i].id \in Nat
      BY <1>1 DEF Frame
    <3> QED BY <1>1, <3>1, IdsType DEF Frame
  <2>2. /\ Append(Ids(k), f.id) \in Seq(Nat) /\ Len(Append(Ids(k), f.id)) = k + 1
        /\ \A i \in 1 .. k : Append(Ids(k), f.id)[i] = Ids(k)[i]
        /\ Append(Ids(k), f.id)[k + 1] = f.id
    BY <2>1, AppendProperties
  <2>3. Append(Ids(k), f.id) \in [1 .. k + 1 -> Nat]
    BY <2>2, LenProperties
  <2>4. ASSUME NEW i \in 1 .. k + 1 PROVE g[i] = Append(Ids(k), f.id)[i]
    <3>1. CASE i \in 1 .. k
      <4>1. g[i] = wire[i].id
        BY <1>1, <3>1
      <4>2. Ids(k)[i] = wire[i].id
        BY <3>1 DEF Ids
      <4> QED BY <2>2, <3>1, <4>1, <4>2
    <3>2. CASE i = k + 1
      BY <1>1, <2>2, <3>2
    <3>3. i \in 1 .. k \/ i = k + 1
      BY <1>1
    <3> QED BY <3>1, <3>2, <3>3
  <2>5. g = [i \in 1 .. k + 1 |-> g[i]]
    OBVIOUS
  <2> HIDE DEF g
  <2> QED BY <2>3, <2>4, <2>5
<1> QED BY <1>1, <1>2, <1>3

\* A frame is written; then the lock is free.
LEMMA StreamWritten ==
  ASSUME Types, LockInv, StreamInv, mode' = mode, transport = "open", ~Overrides => holder' = 0,
         NEW f \in Frame, wire' = Append(wire, f),
         ~Overrides => \A t \in DOMAIN sends' : sends'[t].own = FALSE,
         ~Overrides /\ ~mode.compress => f.kind = "plain",
         ~Overrides /\ mode.compress =>
            /\ f.kind \in {"small", "large"} /\ f.window = After(Ids(Len(wire)))
            /\ history' = Append(Ids(Len(wire)), f.id)
  PROVE  StreamInv'
<1> DEFINE k == Len(wire)
<1>1. /\ k \in Nat /\ Len(wire') = k + 1 /\ DOMAIN wire = 1 .. k /\ DOMAIN wire' = 1 .. k + 1
      /\ \A i \in 1 .. k : wire'[i] = wire[i]
      /\ wire'[k + 1] = f
      /\ \A n \in 0 .. k : Ids(n)' = Ids(n)
      /\ Ids(Len(wire))' = Append(Ids(k), f.id)
  <2>1. /\ k \in Nat /\ Len(wire') = k + 1 /\ DOMAIN wire = 1 .. k /\ DOMAIN wire' = 1 .. k + 1
        /\ \A i \in DOMAIN wire : wire'[i] = wire[i]
        /\ wire'[k + 1] = f
        /\ \A n \in 0 .. k : [i \in 1 .. n |-> wire'[i].id] = Ids(n)
        /\ [i \in 1 .. k + 1 |-> wire'[i].id] = Append(Ids(k), f.id)
    BY IdsGrow
  <2>2. /\ \A n : Ids(n)' = [i \in 1 .. n |-> wire'[i].id]
        /\ Ids(Len(wire))' = [i \in 1 .. Len(wire') |-> wire'[i].id]
    BY DEF Ids
  <2> QED BY <2>1, <2>2
<1>2. \A q : After(q)' = After(q)
  BY DEF After
<1> SUFFICES ASSUME ~Overrides PROVE StreamInv'
  BY DEF StreamInv
<1>3. ASSUME NEW i \in DOMAIN wire'
      PROVE  /\ ~mode'.compress => wire'[i].kind = "plain"
             /\ mode'.compress => wire'[i].kind \in {"small", "large"} /\ wire'[i].window = After(Ids(i - 1))'
  <2>1. i - 1 \in 0 .. k
    BY <1>1
  <2>2. After(Ids(i - 1))' = After(Ids(i - 1))
    BY <1>1, <2>1 DEF After
  <2>3. CASE i \in DOMAIN wire
    BY <1>1, <2>2, <2>3 DEF StreamInv
  <2>4. CASE i = k + 1
    BY <1>1, <2>2, <2>4
  <2> QED BY <1>1, <2>3, <2>4
<1>4. mode'.compress => history' = Ids(Len(wire))'
  BY <1>1 DEF Ids
<1> QED BY <1>3, <1>4 DEF StreamInv

\* A message is given to the executor.
LEMMA StreamStarted ==
  ASSUME Types, LockInv, StreamInv, UNCHANGED <<mode, wire, transport>>, holder = 0, holder' # 0,
         DOMAIN sends \subseteq DOMAIN sends', holder' \in DOMAIN sends',
         ~Overrides => \A t \in DOMAIN sends' : sends'[t].own = FALSE,
         ~Overrides => sends'[holder'].window = After(history),
         ~Overrides => history' = Append(history, holder')
  PROVE  StreamInv'
<1> SUFFICES ASSUME ~Overrides PROVE StreamInv'
  BY DEF StreamInv
<1>1. \A i \in DOMAIN wire' :
        /\ ~mode'.compress => wire'[i].kind = "plain"
        /\ mode'.compress => wire'[i].kind \in {"small", "large"} /\ wire'[i].window = After(Ids(i - 1))'
  BY DEF StreamInv, After, Ids
<1>2. mode'.compress /\ transport' = "open" =>
        history' = Append(Ids(Len(wire)), holder)' /\ sends'[holder'].window = After(Ids(Len(wire)))'
  BY DEF StreamInv, After, Ids
<1> QED BY <1>1, <1>2 DEF StreamInv

(* ------------------------------- new calls ------------------------------ *)

Inv == Types /\ LockInv /\ DrainIsWoken /\ OrderInv /\ StreamInv

\* Calls that differ in how far they are only.
Like(c, d) == c.kind = d.kind /\ c.own = d.own /\ c.job = d.job /\ c.window = d.window

LEMMA EndedCall ==
  ASSUME NEW calls \in Seq(CallType), NEW s \in DOMAIN calls, NEW pc \in {"done", "drain"},
         NEW res \in Results, Ended(s, calls, pc, res)
  PROVE  \E c \in CallType : sends' = Put(calls, s, c) /\ Like(c, calls[s]) /\ c.pc = pc
<1> DEFINE c == [calls[s] EXCEPT !.pc = pc, !.res = res]
<1>1. calls[s] \in CallType /\ pc \in Places
  BY CallsDomain DEF Places
<1>2. c \in CallType /\ Like(c, calls[s]) /\ c.pc = pc
  BY <1>1 DEF CallType, Like
<1>3. sends' = Put(calls, s, c)
  BY DEF Ended
<1> QED BY <1>2, <1>3

LEMMA Added ==
  ASSUME Types, NEW c \in CallType, sends' = Append(sends, c)
  PROVE  /\ sends' \in Seq(CallType) /\ Len(sends') = Len(sends) + 1 /\ Len(sends) \in Nat
         /\ DOMAIN sends \subseteq DOMAIN sends' /\ Len(sends) + 1 \in DOMAIN sends' \ DOMAIN sends
         /\ \A t \in DOMAIN sends : sends'[t] = sends[t] /\ t < Len(sends) + 1
         /\ sends'[Len(sends) + 1] = c
         /\ \A t \in DOMAIN sends' : t \in DOMAIN sends \/ t = Len(sends) + 1
<1>1. sends \in Seq(CallType) /\ Len(sends) \in Nat /\ DOMAIN sends = 1 .. Len(sends)
  BY CallsDomain DEF Types
<1>2. /\ sends' \in Seq(CallType) /\ Len(sends') = Len(sends) + 1
      /\ DOMAIN sends' = 1 .. Len(sends) + 1
      /\ \A t \in DOMAIN sends : sends'[t] = sends[t]
      /\ sends'[Len(sends) + 1] = c
  BY <1>1, AddType
<1> QED BY <1>1, <1>2

\* A new call that is changed at once is another new call.
LEMMA PutNew ==
  ASSUME Types, NEW d \in CallType, NEW c \in CallType
  PROVE  Put(Append(sends, d), Len(sends) + 1, c) = Append(sends, c)
<1> DEFINE n == Len(sends)
           a == Append(sends, d)
           f == Put(a, n + 1, c)
           g == Append(sends, c)
<1>1. sends \in Seq(CallType) /\ n \in Nat /\ DOMAIN sends = 1 .. n
  BY CallsDomain DEF Types
<1>2. /\ a \in Seq(CallType) /\ Len(a) = n + 1 /\ DOMAIN a = 1 .. n + 1
      /\ \A t \in 1 .. n : a[t] = sends[t]
      /\ g \in Seq(CallType) /\ Len(g) = n + 1 /\ DOMAIN g = 1 .. n + 1
      /\ \A t \in 1 .. n : g[t] = sends[t]
      /\ g[n + 1] = c
  BY <1>1, AddType
<1>3. n + 1 \in 1 .. n + 1 /\ \A t \in 1 .. n : t # n + 1 /\ t \in 1 .. n + 1
  BY <1>1
<1> HIDE DEF a
<1>4. /\ f \in Seq(CallType) /\ Len(f) = n + 1 /\ DOMAIN f = 1 .. n + 1
      /\ f[n + 1] = c /\ \A t \in 1 .. n : f[t] = sends[t]
  <2>1. n + 1 \in DOMAIN a
    BY <1>2, <1>3
  <2>2. /\ f \in Seq(CallType) /\ Len(f) = Len(a) /\ DOMAIN f = DOMAIN a
        /\ f[n + 1] = c /\ \A t \in DOMAIN a : t # n + 1 => f[t] = a[t]
    BY <1>2, <2>1, PutType, ZenonT(60)
  <2> QED BY <1>2, <1>3, <2>2
<1> HIDE DEF f, g
<1>5. \A t \in 1 .. n + 1 : t \in 1 .. n \/ t = n + 1
  BY <1>1
<1>6. \A t \in 1 .. n + 1 : f[t] = g[t]
  BY <1>2, <1>4, <1>5
<1>7. f \in [1 .. n + 1 -> CallType] /\ g \in [1 .. n + 1 -> CallType]
  BY <1>2, <1>4, LenProperties
<1> QED BY <1>6, <1>7 DEF f, g, a

\* A call that begins and does not write: it raises, or joins the queue.
LEMMA BeginsOnly ==
  ASSUME Inv, NEW c \in CallType, sends' = Append(sends, c), c.pc # "start", c.pc # "drain",
         ~Overrides => c.own = FALSE, Waits(c) => Overrides \/ mode.compress,
         UNCHANGED <<mode, protocolVars, output, holder, history, wire>>, waiters' \in Seq(Nat)
  PROVE  Types' /\ DrainIsWoken' /\ OrderInv' /\ StreamInv'
<1>1. Types /\ LockInv /\ DrainIsWoken /\ OrderInv /\ StreamInv
  BY DEF Inv
<1>2. /\ sends' \in Seq(CallType) /\ Len(sends') = Len(sends) + 1 /\ Len(sends) \in Nat
      /\ DOMAIN sends \subseteq DOMAIN sends' /\ Len(sends) + 1 \in DOMAIN sends' \ DOMAIN sends
      /\ \A t \in DOMAIN sends : sends'[t] = sends[t] /\ t < Len(sends) + 1
      /\ sends'[Len(sends) + 1] = c
      /\ \A t \in DOMAIN sends' : t \in DOMAIN sends \/ t = Len(sends) + 1
  BY <1>1, Added
<1>3. Types'
  BY <1>1, <1>2 DEF Types, FlowTypes, protocolVars
<1>4. DrainIsWoken'
  BY <1>1, <1>2, DrainStays DEF protocolVars
<1>5. OrderInv'
  <2>1. Len(sends) <= Len(sends')
    BY <1>2
  <2> QED BY <1>1, <1>2, <2>1, OrderKept
<1>6. StreamInv'
  <2>1. \A t \in DOMAIN sends' \ DOMAIN sends : sends'[t] = c
    BY <1>2
  <2>2. UNCHANGED <<mode, wire>> /\ transport' = transport /\ holder' = holder /\ history' = history
    BY DEF protocolVars
  <2> QED BY <1>1, <1>2, <2>1, <2>2, StreamKept
<1> QED BY <1>3, <1>4, <1>5, <1>6

\* A call that begins and writes.
LEMMA BeginsWriting ==
  ASSUME Inv, NEW kind \in Kinds, NEW own \in BOOLEAN, NEW window,
         WriteNow(Len(sends) + 1, Append(sends, Call(kind, own)), window), UNCHANGED lockVars
  PROVE  /\ FlowTypes' /\ DrainIsWoken' /\ LockInv' /\ transport' = transport
         /\ \E c \in CallType : /\ sends' = Append(sends, c) /\ Like(c, Call(kind, own))
                                /\ c.pc \in {"done", "drain"}
         /\ Wrote(Len(sends) + 1, kind, window) \/ (transport # "open" /\ wire' = wire)
<1> DEFINE n == Len(sends) + 1
           d == Call(kind, own)
           calls == Append(sends, d)
<1>1. Types /\ LockInv /\ DrainIsWoken
  BY DEF Inv
<1>2. d \in CallType /\ d.kind = kind /\ d.job = "none"
  BY NewCall DEF Call
<1> HIDE DEF d
<1>3. /\ calls \in Seq(CallType) /\ n \in DOMAIN calls /\ calls[n] = d /\ Len(sends) \in Nat
      /\ \A t \in DOMAIN calls : t # n => t \in DOMAIN sends /\ calls[t] = sends[t]
  <2>1. sends \in Seq(CallType) /\ Len(sends) \in Nat /\ DOMAIN sends = 1 .. Len(sends)
    BY <1>1, CallsDomain DEF Types
  <2>2. /\ calls \in Seq(CallType) /\ DOMAIN calls = 1 .. n
        /\ \A t \in DOMAIN sends : calls[t] = sends[t]
        /\ calls[n] = d
    BY <1>2, <2>1, AddType
  <2> QED BY <2>1, <2>2
<1> HIDE DEF calls, n
<1>4. /\ FlowTypes' /\ transport' = transport /\ (paused => paused')
      /\ \E pc \in {"done", "drain"}, res \in Results : Ended(n, calls, pc, res)
      /\ Wrote(n, calls[n].kind, window) \/ (transport # "open" /\ wire' = wire)
  <2>1. WriteNow(n, calls, window) /\ FlowTypes
    BY <1>1 DEF n, calls, d, Types
  <2> QED BY <1>3, <2>1, WriteNowEnds
<1>5. PICK pc \in {"done", "drain"}, res \in Results : Ended(n, calls, pc, res)
  BY <1>4
<1>6. DrainIsWoken'
  BY <1>1, <1>3, <1>4, <1>5, DrainEnded
<1>7. PICK c \in CallType : sends' = Put(calls, n, c) /\ Like(c, d) /\ c.pc = pc
  BY <1>3, <1>5, EndedCall
<1>8. sends' = Append(sends, c)
  BY <1>1, <1>2, <1>7, PutNew DEF n, calls
<1>9. LockInv'
  <2>1. /\ sends' \in Seq(CallType) /\ Len(sends') = Len(sends) + 1
        /\ \A t \in DOMAIN sends : sends'[t] = sends[t]
        /\ sends'[n] = c
        /\ \A t \in DOMAIN sends' : t \in DOMAIN sends \/ t = n
    BY <1>1, <1>8, Added DEF n
  <2>2. c.job = "none" /\ c.pc # "lock"
    BY <1>2, <1>7 DEF Like
  <2> QED BY <1>1, <2>1, <2>2, LockStays
<1> QED BY <1>2, <1>3, <1>4, <1>6, <1>7, <1>8, <1>9 DEF n, d

LEMMA Begun ==
  ASSUME NEW kind \in Kinds, NEW own \in BOOLEAN, Begin(kind, own)
  PROVE  /\ ~Overrides => own = FALSE
         /\ kind \in {"small", "large"} => Overrides \/ mode.compress
         /\ kind = "plain" => ~mode.compress
BY DEF Begin

LEMMA RefusedKeeps == ASSUME Inv, NEW kind \in Kinds, NEW own \in BOOLEAN, Refused(kind, own) PROVE Inv'
<1> DEFINE c == [Call(kind, own) EXCEPT !.pc = "done", !.res = "error"]
<1>1. Call(kind, own) \in CallType /\ {"done"} \subseteq Places /\ "error" \in Results
  BY NewCall DEF Places, Results
<1>2. c \in CallType /\ c.pc = "done" /\ c.own = own /\ c.job = "none"
  BY <1>1 DEF CallType, Call
<1>3. sends' = Append(sends, c) /\ UNCHANGED <<mode, protocolVars, output, lockVars, history, wire>>
  BY DEF Refused
<1>4. ~Overrides => own = FALSE
  BY Begun DEF Refused
<1> HIDE DEF c
<1>5. Types' /\ DrainIsWoken' /\ OrderInv' /\ StreamInv'
  <2>1. waiters' \in Seq(Nat) /\ UNCHANGED holder
    BY <1>3 DEF Inv, Types, lockVars
  <2> QED BY <1>2, <1>3, <1>4, <2>1, BeginsOnly DEF Waits
<1>6. LockInv'
  <2>1. Types /\ LockInv
    BY DEF Inv
  <2>2. /\ sends' \in Seq(CallType) /\ Len(sends') = Len(sends) + 1
        /\ \A t \in DOMAIN sends : sends'[t] = sends[t]
        /\ \A t \in DOMAIN sends' \ DOMAIN sends : sends'[t] = c
    BY <1>2, <1>3, <2>1, Added
  <2> QED BY <1>2, <1>3, <2>1, <2>2, LockStays
<1> QED BY <1>5, <1>6 DEF Inv

\* What is common to the calls that write at once: nobody waits for the lock,
\* or the messages of this connection are not compressed.
LEMMA NewFrame ==
  ASSUME Inv, NEW c \in CallType, sends' = Append(sends, c), c.pc \in {"done", "drain"}, c.job = "none",
         ~Overrides => c.own = FALSE, FlowTypes', LockInv', UNCHANGED <<mode, lockVars, transport>>,
         history' \in Seq(Nat), NEW window \in Seq(Nat),
         \/ transport # "open" /\ wire' = wire
         \/ c.kind \notin Data /\ wire' = wire /\ history' = history
         \/ /\ transport = "open" /\ c.kind \in Data
            /\ wire' = Append(wire, [id |-> Len(sends) + 1, kind |-> c.kind, window |-> window])
            /\ mode.compress => LockFree
            /\ ~Overrides /\ mode.compress =>
                 /\ c.kind \in {"small", "large"}
                 /\ window = After(history) /\ history' = Append(history, Len(sends) + 1)
            /\ ~Overrides /\ ~mode.compress => c.kind = "plain"
  PROVE  Types' /\ OrderInv' /\ StreamInv'
<1> DEFINE n == Len(sends) + 1
           f == [id |-> n, kind |-> c.kind, window |-> window]
<1>1. Types /\ LockInv /\ OrderInv /\ StreamInv
  BY DEF Inv
<1>2. /\ sends' \in Seq(CallType) /\ Len(sends') = Len(sends) + 1 /\ Len(sends) \in Nat
      /\ DOMAIN sends \subseteq DOMAIN sends' /\ n \in DOMAIN sends' \ DOMAIN sends
      /\ \A t \in DOMAIN sends : sends'[t] = sends[t] /\ t < n
      /\ sends'[n] = c
      /\ \A t \in DOMAIN sends' : t \in DOMAIN sends \/ t = n
  BY <1>1, Added
<1>3. wire' \in Seq(Frame) => Types'
  BY <1>1, <1>2 DEF Types, lockVars
<1>4. Len(sends) <= Len(sends') /\ ~Waits(c)
  BY <1>2 DEF Waits
<1>5. ~Overrides => \A t \in DOMAIN sends' : sends'[t].own = FALSE
  BY <1>1, <1>2 DEF StreamInv
<1>6. CASE \/ transport # "open" /\ wire' = wire
           \/ c.kind \notin Data /\ wire' = wire /\ history' = history
  <2>1. OrderInv'
    BY <1>1, <1>2, <1>4, <1>6, OrderKept
  <2>2. UNCHANGED <<mode, wire>> /\ transport' = transport /\ holder' = holder
    BY <1>6 DEF lockVars
  <2>3. StreamInv'
    BY <1>1, <1>2, <1>5, <1>6, <2>2, StreamKept
  <2>4. wire' \in Seq(Frame)
    BY <1>1, <1>6 DEF Types
  <2> QED BY <1>3, <2>1, <2>3, <2>4
<1>7. CASE /\ transport = "open" /\ c.kind \in Data
           /\ wire' = Append(wire, [id |-> Len(sends) + 1, kind |-> c.kind, window |-> window])
           /\ mode.compress => LockFree
           /\ ~Overrides /\ mode.compress =>
                /\ c.kind \in {"small", "large"}
                /\ window = After(history) /\ history' = Append(history, Len(sends) + 1)
           /\ ~Overrides /\ ~mode.compress => c.kind = "plain"
  <2>1. f \in Frame /\ f.id = n /\ wire' = Append(wire, f) /\ f.window = window /\ f.kind = c.kind
    BY <1>2, <1>7 DEF Frame
  <2> HIDE DEF f
  <2>2. Types'
    BY <1>1, <1>3, <2>1, AppendProperties DEF Types
  <2>3. Ordered => \A t \in DOMAIN sends : ~Waits(sends[t])
    BY <1>1, <1>7, WaitsForLock DEF OrderInv
  <2>4. OrderInv'
    <3>1. Ordered => \A i \in DOMAIN wire : wire[i].id < n
      BY <1>1, <1>2 DEF OrderInv
    <3>2. Ordered => \A t \in DOMAIN sends' : ~Waits(sends'[t])
      BY <1>2, <1>4, <2>3
    <3> HIDE DEF n
    <3> QED BY <1>1, <1>2, <1>4, <2>1, <3>1, <3>2, OrderWritten
  <2>5. ~Overrides => holder = 0 /\ holder' = 0
    <3>1. holder # 0 => holder \in DOMAIN sends
      BY <1>1, CallsDomain DEF Types, LockInv
    <3> QED BY <1>1, <2>3, <3>1, WaitsForLock DEF lockVars, Ordered
  <2>6. ~Overrides /\ mode.compress =>
          /\ f.kind \in {"small", "large"} /\ f.window = After(Ids(Len(wire)))
          /\ history' = Append(Ids(Len(wire)), f.id)
    BY <1>1, <1>7, <2>1, <2>5 DEF StreamInv
  <2>7. StreamInv'
    BY <1>1, <1>5, <1>7, <2>1, <2>5, <2>6, StreamWritten
  <2> QED BY <2>2, <2>4, <2>7
<1> QED BY <1>6, <1>7

LEMMA SendUncompressedKeeps ==
  ASSUME Inv, NEW kind \in {"ping", "close", "plain"}, SendUncompressed(kind)
  PROVE  Inv'
<1>1. kind \in Kinds /\ FALSE \in BOOLEAN /\ <<>> \in Seq(Nat)
  BY EmptySeq DEF Kinds
<1>2. /\ WriteNow(Len(sends) + 1, Append(sends, Call(kind, FALSE)), <<>>)
      /\ UNCHANGED <<mode, lockVars, history>> /\ (kind = "plain" => ~mode.compress)
  BY <1>1, Begun DEF SendUncompressed
<1>3. /\ FlowTypes' /\ DrainIsWoken' /\ LockInv' /\ transport' = transport
      /\ \E c \in CallType : /\ sends' = Append(sends, c) /\ Like(c, Call(kind, FALSE))
                             /\ c.pc \in {"done", "drain"}
      /\ Wrote(Len(sends) + 1, kind, <<>>) \/ (transport # "open" /\ wire' = wire)
  BY <1>1, <1>2, BeginsWriting
<1>4. PICK c \in CallType : /\ sends' = Append(sends, c) /\ Like(c, Call(kind, FALSE))
                            /\ c.pc \in {"done", "drain"}
  BY <1>3
<1>5. c.kind = kind /\ c.own = FALSE /\ c.job = "none"
  BY <1>4 DEF Like, Call
<1>6. \/ transport # "open" /\ wire' = wire
      \/ c.kind \notin Data /\ wire' = wire /\ history' = history
      \/ /\ transport = "open" /\ c.kind \in Data /\ c.kind = "plain"
         /\ wire' = Append(wire, [id |-> Len(sends) + 1, kind |-> c.kind, window |-> <<>>])
  BY <1>2, <1>3, <1>5 DEF Wrote, Data
<1>7. history' \in Seq(Nat)
  BY <1>2 DEF Inv, Types
<1>8. Types' /\ OrderInv' /\ StreamInv'
  BY <1>1, <1>2, <1>3, <1>4, <1>5, <1>6, <1>7, NewFrame
<1> QED BY <1>3, <1>8 DEF Inv

LEMMA WindowType ==
  ASSUME Types, NEW own \in BOOLEAN, NEW n \in Nat
  PROVE  /\ Window(own) \in Seq(Nat) /\ Compressed(n, own) \in Seq(Nat)
         /\ own = FALSE => Window(own) = After(history) /\ Compressed(n, own) = Append(history, n)
<1>1. history \in Seq(Nat) /\ <<>> \in Seq(Nat) /\ Append(history, n) \in Seq(Nat)
  BY EmptySeq, AppendProperties DEF Types
<1> QED BY <1>1 DEF Window, Compressed, After

LEMMA SendSmallKeeps ==
  ASSUME Inv, NEW own \in BOOLEAN, SendSmall(own)
  PROVE  Inv'
<1> DEFINE n == Len(sends) + 1
<1>1. Types /\ LockInv /\ OrderInv /\ n \in Nat
  BY CallsDomain DEF Inv, Types
<1>2. "small" \in Kinds /\ "small" \in Data /\ Begin("small", own) /\ UNCHANGED mode
  BY DEF Kinds, Data, SendSmall
<1>3. (~Overrides => own = FALSE) /\ (Overrides \/ mode.compress)
  BY <1>2, Begun
<1>4. CASE /\ LockFree /\ CompressNow(n, Append(sends, Call("small", own)), own)
           /\ UNCHANGED lockVars
  <2>1. /\ WriteNow(n, Append(sends, Call("small", own)), Window(own))
        /\ history' = Compressed(n, own)
    BY <1>4 DEF CompressNow
  <2>2. /\ Window(own) \in Seq(Nat) /\ history' \in Seq(Nat)
        /\ ~Overrides => Window(own) = After(history) /\ history' = Append(history, n)
    BY <1>1, <1>3, <2>1, WindowType
  <2>3. /\ FlowTypes' /\ DrainIsWoken' /\ LockInv' /\ transport' = transport
        /\ \E c \in CallType : /\ sends' = Append(sends, c) /\ Like(c, Call("small", own))
                               /\ c.pc \in {"done", "drain"}
        /\ Wrote(n, "small", Window(own)) \/ (transport # "open" /\ wire' = wire)
    BY <1>2, <1>4, <2>1, BeginsWriting
  <2>4. PICK c \in CallType : /\ sends' = Append(sends, c) /\ Like(c, Call("small", own))
                              /\ c.pc \in {"done", "drain"}
    BY <2>3
  <2>5. c.kind = "small" /\ c.own = own /\ c.job = "none"
    BY <2>4 DEF Like, Call
  <2>6. \/ transport # "open" /\ wire' = wire
        \/ /\ transport = "open"
           /\ wire' = Append(wire, [id |-> n, kind |-> c.kind, window |-> Window(own)])
    BY <1>2, <2>3, <2>5 DEF Wrote
  <2>7. Types' /\ OrderInv' /\ StreamInv'
    <3> DEFINE w == Window(own)
    <3>1. w \in Seq(Nat) /\ (~Overrides => w = After(history))
      BY <2>2
    <3>2. \/ transport # "open" /\ wire' = wire
          \/ /\ transport = "open"
             /\ wire' = Append(wire, [id |-> n, kind |-> c.kind, window |-> w])
      BY <2>6
    <3> HIDE DEF w
    <3> QED BY <1>2, <1>3, <1>4, <2>2, <2>3, <2>4, <2>5, <3>1, <3>2, NewFrame
  <2> QED BY <2>3, <2>7 DEF Inv
<1>5. CASE /\ ~LockFree /\ waiters' = Append(waiters, n)
           /\ sends' = Append(sends, [Call("small", own) EXCEPT !.pc = "lock"])
           /\ UNCHANGED <<protocolVars, output, holder, history, wire>>
  <2> DEFINE c == [Call("small", own) EXCEPT !.pc = "lock"]
  <2>1. Call("small", own) \in CallType /\ "lock" \in Places
    BY <1>2, NewCall DEF Places
  <2>2. c \in CallType /\ c.pc = "lock" /\ c.own = own /\ c.job = "none" /\ c.kind = "small"
    BY <2>1 DEF CallType, Call
  <2> HIDE DEF c
  <2>3. sends' = Append(sends, c)
    BY <1>5 DEF c
  <2>4. LockInv'
    BY <1>1, <1>5, <2>2, <2>3, LockJoined
  <2>5. waiters' \in Seq(Nat)
    BY <1>1, <1>5, AppendProperties DEF Types
  <2>6. Types' /\ DrainIsWoken' /\ OrderInv' /\ StreamInv'
    BY <1>2, <1>3, <1>5, <2>2, <2>3, <2>5, BeginsOnly
  <2> QED BY <2>4, <2>6 DEF Inv
<1> QED BY <1>4, <1>5 DEF SendSmall

(* ------------------------- the job of a large message ------------------- *)

LEMMA JobsCall ==
  ASSUME NEW calls \in Seq(CallType), NEW s \in DOMAIN calls, NEW j \in Jobs, NEW w \in Seq(Nat)
  PROVE  /\ [calls EXCEPT ![s].job = j, ![s].window = w] = Put(calls, s, [calls[s] EXCEPT !.job = j, !.window = w])
         /\ [calls EXCEPT ![s].job = j] = Put(calls, s, [calls[s] EXCEPT !.job = j])
         /\ [calls[s] EXCEPT !.job = j, !.window = w] \in CallType
         /\ [calls[s] EXCEPT !.job = j] \in CallType
<1>1. calls[s] \in CallType
  BY CallsDomain
<1>2. [calls[s] EXCEPT !.job = j, !.window = w] \in CallType /\ [calls[s] EXCEPT !.job = j] \in CallType
  BY <1>1 DEF CallType
<1> QED BY <1>1, <1>2, CallsDomain DEF Put

LEMMA SendLargeKeeps ==
  ASSUME Inv, NEW own \in BOOLEAN, SendLarge(own)
  PROVE  Inv'
<1> DEFINE n == Len(sends) + 1
           d == [Call("large", own) EXCEPT !.pc = "shield"]
           calls == Append(sends, d)
<1>1. Types /\ LockInv /\ OrderInv /\ StreamInv /\ DrainIsWoken /\ n \in Nat /\ sends \in Seq(CallType)
  BY CallsDomain DEF Inv, Types
<1>2. /\ Begin("large", own) /\ "large" \in Kinds
      /\ UNCHANGED <<mode, protocolVars, output, wire>>
      /\ \/ LockFree /\ StartJob(n, calls) /\ UNCHANGED waiters
         \/ /\ ~LockFree
            /\ waiters' = Append(waiters, n)
            /\ sends' = [calls EXCEPT ![n].job = "lock"]
            /\ UNCHANGED <<holder, history>>
  BY DEF SendLarge, Kinds
<1>3. (~Overrides => own = FALSE) /\ (Overrides \/ mode.compress)
  BY <1>2, Begun
<1>4. d \in CallType /\ d.kind = "large" /\ d.own = own /\ d.pc = "shield"
  <2>1. Call("large", own) \in CallType /\ "shield" \in Places
    BY <1>2, NewCall DEF Places
  <2> QED BY <2>1 DEF CallType, Call
<1> HIDE DEF d
<1>5. calls \in Seq(CallType) /\ n \in DOMAIN calls /\ calls[n] = d
  <2>1. calls \in Seq(CallType) /\ DOMAIN calls = 1 .. n /\ calls[n] = d
    BY <1>1, <1>4, AddType
  <2> QED BY <1>1, <2>1, CallsDomain
<1> HIDE DEF calls
<1>6. CASE LockFree /\ StartJob(n, calls) /\ UNCHANGED waiters
  <2> DEFINE w == Window(own)
             c == [d EXCEPT !.job = "executor", !.window = w]
  <2>1. /\ w \in Seq(Nat) /\ Compressed(n, own) \in Seq(Nat)
        /\ ~Overrides => w = After(history) /\ Compressed(n, own) = Append(history, n)
    BY <1>1, <1>3, WindowType
  <2>2. /\ holder' = n /\ history' = Compressed(n, own)
        /\ sends' = [calls EXCEPT ![n].job = "executor", ![n].window = w]
    BY <1>4, <1>5, <1>6 DEF StartJob
  <2> HIDE DEF w
  <2>3. /\ c \in CallType /\ c.kind = "large" /\ c.own = own /\ c.pc = "shield"
        /\ c.job = "executor" /\ c.window = w
    BY <1>4, <2>1 DEF CallType, Jobs
  <2>4. sends' = Put(calls, n, c)
    BY <1>5, <2>1, <2>2, JobsCall DEF Jobs
  <2> HIDE DEF c
  <2>5. sends' = Append(sends, c)
    BY <1>1, <1>4, <2>3, <2>4, PutNew DEF calls
  <2>6. /\ sends' \in Seq(CallType) /\ Len(sends') = Len(sends) + 1 /\ Len(sends) \in Nat
        /\ DOMAIN sends \subseteq DOMAIN sends' /\ n \in DOMAIN sends' \ DOMAIN sends
        /\ \A t \in DOMAIN sends : sends'[t] = sends[t] /\ t < n
        /\ sends'[n] = c
        /\ \A t \in DOMAIN sends' : t \in DOMAIN sends \/ t = n
    BY <1>1, <2>3, <2>5, Added
  <2>7. LockInv'
    BY <1>1, <1>6, <2>2, <2>3, <2>5, LockStarted
  <2>8. Types'
    <3>1. FlowTypes' /\ mode' \in Mode /\ wire' \in Seq(Frame)
      BY <1>1, <1>2 DEF Types, FlowTypes, protocolVars
    <3>2. \A t \in DOMAIN sends' : sends'[t].pc # "start"
      BY <1>1, <2>3, <2>6 DEF Types
    <3>3. holder' \in Nat /\ waiters' \in Seq(Nat) /\ history' \in Seq(Nat)
      BY <1>1, <1>6, <2>1, <2>2 DEF Types
    <3> QED BY <2>6, <3>1, <3>2, <3>3 DEF Types
  <2>9. DrainIsWoken'
    BY <1>1, <1>2, <2>3, <2>6, DrainStays DEF protocolVars
  <2>10. OrderInv'
    BY <1>1, <1>2, <1>3, <2>6, OrderKept
  <2>11. StreamInv'
    <3>1. holder = 0 /\ n # 0
      BY <1>1, <1>6, <2>6 DEF LockFree
    <3>2. ~Overrides => \A t \in DOMAIN sends' : sends'[t].own = FALSE
      BY <1>1, <1>3, <2>3, <2>6 DEF StreamInv
    <3> HIDE DEF n
    <3>3. UNCHANGED <<mode, wire, transport>>
      BY <1>2 DEF protocolVars
    <3> QED BY <1>1, <2>1, <2>2, <2>3, <2>6, <3>1, <3>2, <3>3, StreamStarted
  <2> QED BY <2>7, <2>8, <2>9, <2>10, <2>11 DEF Inv
<1>7. CASE /\ ~LockFree
           /\ waiters' = Append(waiters, n)
           /\ sends' = [calls EXCEPT ![n].job = "lock"]
           /\ UNCHANGED <<holder, history>>
  <2> DEFINE c == [d EXCEPT !.job = "lock"]
  <2>1. c \in CallType /\ c.kind = "large" /\ c.own = own /\ c.pc = "shield" /\ c.job = "lock"
    BY <1>4 DEF CallType, Jobs
  <2>2. sends' = Put(calls, n, c)
    <3>1. <<>> \in Seq(Nat) /\ "lock" \in Jobs
      BY EmptySeq DEF Jobs
    <3> QED BY <1>5, <1>7, <3>1, JobsCall
  <2> HIDE DEF c
  <2>3. sends' = Append(sends, c)
    BY <1>1, <1>4, <2>1, <2>2, PutNew DEF calls
  <2>4. LockInv'
    BY <1>1, <1>7, <2>1, <2>3, LockJoined
  <2>5. waiters' \in Seq(Nat)
    BY <1>1, <1>7, AppendProperties DEF Types
  <2>6. Types' /\ DrainIsWoken' /\ OrderInv' /\ StreamInv'
    BY <1>2, <1>3, <1>7, <2>1, <2>3, <2>5, BeginsOnly
  <2> QED BY <2>4, <2>6 DEF Inv
<1> QED BY <1>2, <1>6, <1>7

LEMMA FirstOfQueue ==
  ASSUME Types, LockInv, holder = 0, waiters # <<>>, NEW s \in DOMAIN sends, s = Head(waiters)
  PROVE  /\ Waits(sends[s]) /\ Tail(waiters) \in Seq(Nat)
         /\ \A t \in DOMAIN sends : Waits(sends[t]) /\ t # s => s < t
<1>1. waiters \in Seq(Nat) /\ Sorted(waiters) /\ Once(waiters)
  BY SortedOnce DEF Types, LockInv
<1>2. /\ Tail(waiters) \in Seq(Nat) /\ In(waiters, s)
      /\ \A t : In(Tail(waiters), t) <=> In(waiters, t) /\ t # s
  BY <1>1, OnceTail
<1>3. \A t : In(Tail(waiters), t) => s < t
  BY <1>1, SortedTail DEF In
<1>4. \A t \in DOMAIN sends : t # 0
  BY CallsDomain DEF Types
<1> QED BY <1>2, <1>3, <1>4, WaitsForLock

LEMMA TakeLockKeeps == ASSUME Inv, NEW s \in DOMAIN sends, TakeLock(s) PROVE Inv'
<1>1. /\ Types /\ LockInv /\ OrderInv /\ StreamInv /\ DrainIsWoken
      /\ s \in Nat \ {0} /\ sends \in Seq(CallType) /\ sends[s] \in CallType
  BY CallsDomain DEF Inv, Types
<1>2. /\ holder = 0 /\ waiters # <<>> /\ s = Head(waiters) /\ waiters' = Tail(waiters) /\ mode' = mode
      /\ \/ /\ sends[s].pc = "lock"
            /\ CompressNow(s, sends, sends[s].own)
            /\ UNCHANGED holder
         \/ /\ sends[s].job = "lock"
            /\ StartJob(s, sends)
            /\ UNCHANGED <<protocolVars, output, wire>>
  BY DEF TakeLock
<1>3. /\ Waits(sends[s]) /\ Tail(waiters) \in Seq(Nat)
      /\ \A t \in DOMAIN sends : Waits(sends[t]) /\ t # s => s < t
  BY <1>1, <1>2, FirstOfQueue
<1> DEFINE own == sends[s].own
           w == Window(own)
<1>4. /\ w \in Seq(Nat) /\ Compressed(s, own) \in Seq(Nat)
      /\ ~Overrides => w = After(history) /\ Compressed(s, own) = Append(history, s)
  <2>1. own \in BOOLEAN /\ (~Overrides => own = FALSE)
    BY <1>1 DEF CallType, StreamInv
  <2> QED BY <1>1, <2>1, WindowType
<1>5. ~Overrides => mode.compress
  BY <1>1, <1>3 DEF OrderInv, Ordered
<1> HIDE DEF w
<1>6. CASE /\ sends[s].pc = "lock"
           /\ CompressNow(s, sends, sends[s].own)
           /\ UNCHANGED holder
  <2>1. WriteNow(s, sends, w) /\ history' = Compressed(s, own)
    BY <1>6 DEF CompressNow, w
  <2>2. sends[s].kind = "small" /\ sends[s].job = "none" /\ "small" \in Data
    BY <1>1, <1>6 DEF LockInv, CallType, Jobs, Data
  <2>3. /\ FlowTypes' /\ transport' = transport /\ (paused => paused')
        /\ \E pc \in {"done", "drain"}, res \in Results : Ended(s, sends, pc, res)
        /\ Wrote(s, "small", w) \/ (transport # "open" /\ wire' = wire)
    <3>1. FlowTypes
      BY <1>1 DEF Types
    <3> QED BY <1>1, <2>1, <2>2, <3>1, WriteNowEnds
  <2>4. PICK pc \in {"done", "drain"}, res \in Results : Ended(s, sends, pc, res)
    BY <2>3
  <2>5. DrainIsWoken'
    BY <1>1, <2>3, <2>4, DrainEnded
  <2>6. PICK c \in CallType : sends' = Put(sends, s, c) /\ Like(c, sends[s]) /\ c.pc = pc
    BY <1>1, <2>4, EndedCall
  <2>7. c.kind = "small" /\ c.job = "none" /\ c.own = own /\ c.pc # "lock" /\ c.pc # "start" /\ ~Waits(c)
    BY <2>2, <2>6 DEF Like, Waits
  <2>8. /\ sends' \in Seq(CallType) /\ Len(sends') = Len(sends) /\ DOMAIN sends' = DOMAIN sends
        /\ sends'[s] = c /\ \A t \in DOMAIN sends : t # s => sends'[t] = sends[t]
    BY <1>1, <2>6, PutSends
  <2>9. LockInv'
    BY <1>1, <1>2, <1>6, <2>2, <2>6, <2>7, LockTaken
  <2>10. wire' \in Seq(Frame) => Types'
    <3>1. \A t \in DOMAIN sends' : sends'[t].pc # "start"
      BY <1>1, <2>7, <2>8 DEF Types
    <3>2. mode' \in Mode /\ holder' \in Nat /\ waiters' \in Seq(Nat) /\ history' \in Seq(Nat)
      BY <1>1, <1>2, <1>3, <1>4, <1>6, <2>1 DEF Types
    <3> QED BY <2>3, <2>8, <3>1, <3>2 DEF Types
  <2>11. /\ Len(sends) <= Len(sends') /\ DOMAIN sends \subseteq DOMAIN sends'
         /\ \A t \in DOMAIN sends' : Waits(sends'[t]) => t \in DOMAIN sends /\ Waits(sends[t]) /\ s < t
         /\ \A t \in DOMAIN sends' : t \notin DOMAIN sends => FALSE
    <3>1. Len(sends) \in Nat
      BY <1>1, LenProperties
    <3> QED BY <1>3, <2>7, <2>8, <3>1
  <2>12. \A t \in DOMAIN sends : sends'[t].own = sends[t].own /\ sends'[t].window = sends[t].window
    BY <2>6, <2>8 DEF Like
  <2>13. CASE transport # "open" /\ wire' = wire
    <3>1. OrderInv'
      BY <1>1, <1>2, <2>8, <2>11, <2>13, OrderKept
    <3>2. StreamInv'
      BY <1>1, <1>2, <2>3, <2>11, <2>12, <2>13, StreamKept
    <3>3. wire' \in Seq(Frame)
      BY <1>1, <2>13 DEF Types
    <3> QED BY <2>5, <2>9, <2>10, <3>1, <3>2, <3>3 DEF Inv
  <2>14. CASE Wrote(s, "small", w)
    <3> DEFINE f == [id |-> s, kind |-> "small", window |-> w]
    <3>1. /\ transport = "open" /\ f \in Frame /\ wire' = Append(wire, f)
          /\ f.id = s /\ f.kind = "small" /\ f.window = w
      BY <1>1, <1>4, <2>2, <2>14 DEF Wrote, Frame
    <3> HIDE DEF f
    <3>2. Types'
      BY <1>1, <2>10, <3>1, AppendProperties DEF Types
    <3>3. OrderInv'
      <4>1. Ordered => \A i \in DOMAIN wire : wire[i].id < f.id
        BY <1>1, <1>3, <3>1 DEF OrderInv
      <4> QED BY <1>1, <1>2, <2>8, <2>11, <3>1, <4>1, OrderWritten
    <3>4. StreamInv'
      <4>1. ~Overrides => \A t \in DOMAIN sends' : sends'[t].own = FALSE
        BY <1>1, <2>8, <2>12 DEF StreamInv
      <4>2. ~Overrides => f.window = After(Ids(Len(wire))) /\ history' = Append(Ids(Len(wire)), f.id)
        BY <1>1, <1>2, <1>4, <1>5, <2>1, <3>1 DEF StreamInv
      <4> QED BY <1>1, <1>2, <1>5, <1>6, <3>1, <4>1, <4>2, StreamWritten
    <3> QED BY <2>5, <2>9, <3>2, <3>3, <3>4 DEF Inv
  <2> QED BY <2>3, <2>13, <2>14
<1>7. CASE /\ sends[s].job = "lock"
           /\ StartJob(s, sends)
           /\ UNCHANGED <<protocolVars, output, wire>>
  <2> DEFINE c == [sends[s] EXCEPT !.job = "executor", !.window = w]
  <2>1. /\ holder' = s /\ history' = Compressed(s, own)
        /\ sends' = [sends EXCEPT ![s].job = "executor", ![s].window = w]
    BY <1>7 DEF StartJob, w
  <2>2. /\ c \in CallType /\ c.kind = sends[s].kind /\ c.own = own /\ c.pc = sends[s].pc
        /\ c.job = "executor" /\ c.window = w
    BY <1>1, <1>4 DEF CallType, Jobs
  <2>3. sends' = Put(sends, s, c)
    BY <1>1, <1>4, <2>1, JobsCall DEF Jobs
  <2> HIDE DEF c
  <2>4. sends[s].kind = "large" /\ sends[s].pc # "lock" /\ sends[s].pc # "start"
    BY <1>1, <1>7 DEF LockInv, Types
  <2>5. /\ sends' \in Seq(CallType) /\ Len(sends') = Len(sends) /\ DOMAIN sends' = DOMAIN sends
        /\ sends'[s] = c /\ \A t \in DOMAIN sends : t # s => sends'[t] = sends[t]
    BY <1>1, <2>2, <2>3, PutSends
  <2>6. LockInv'
    <3>1. /\ c \in CallType /\ c.kind = sends[s].kind /\ c.kind = "large" /\ c.job = "executor"
          /\ c.pc # "lock" /\ holder' = s
      BY <2>1, <2>2, <2>4
    <3>2. holder = 0 /\ waiters # <<>> /\ s = Head(waiters) /\ waiters' = Tail(waiters)
      BY <1>2
    <3> QED BY <1>1, <2>3, <3>1, <3>2, LockTaken
  <2>7. Types'
    <3>1. \A t \in DOMAIN sends' : sends'[t].pc # "start"
      BY <1>1, <2>2, <2>4, <2>5 DEF Types
    <3>2. mode' \in Mode /\ holder' \in Nat /\ waiters' \in Seq(Nat) /\ history' \in Seq(Nat)
      BY <1>1, <1>2, <1>3, <1>4, <2>1 DEF Types
    <3>3. FlowTypes' /\ wire' \in Seq(Frame)
      BY <1>1, <1>7 DEF Types, FlowTypes, protocolVars
    <3> QED BY <2>5, <3>1, <3>2, <3>3 DEF Types
  <2>8. DrainIsWoken'
    <3>1. \A t \in DOMAIN sends' : sends'[t].pc = sends[t].pc
      BY <2>2, <2>5
    <3> QED BY <1>1, <1>7, <2>5, <3>1, DrainStays DEF protocolVars
  <2>9. OrderInv'
    <3>1. Len(sends) <= Len(sends')
      BY <1>1, <2>5, LenProperties
    <3>2. \A t \in DOMAIN sends' : Waits(sends'[t]) => t \in DOMAIN sends /\ Waits(sends[t])
      BY <1>3, <2>5
    <3> QED BY <1>1, <1>2, <1>7, <2>5, <3>1, <3>2, OrderKept
  <2>10. StreamInv'
    <3>1. ~Overrides => \A t \in DOMAIN sends' : sends'[t].own = FALSE
      BY <1>1, <2>2, <2>5 DEF StreamInv
    <3>2. UNCHANGED <<mode, wire, transport>>
      BY <1>2, <1>7 DEF protocolVars
    <3> QED BY <1>1, <1>2, <1>4, <2>1, <2>2, <2>5, <3>1, <3>2, StreamStarted
  <2> QED BY <2>6, <2>7, <2>8, <2>9, <2>10 DEF Inv
<1> QED BY <1>2, <1>6, <1>7

LEMMA FinishJobKeeps == ASSUME Inv, NEW s \in DOMAIN sends, FinishJob(s) PROVE Inv'
<1>1. /\ Types /\ LockInv /\ OrderInv /\ StreamInv /\ DrainIsWoken /\ FlowTypes
      /\ s \in Nat \ {0} /\ sends \in Seq(CallType) /\ sends[s] \in CallType
  BY CallsDomain DEF Inv, Types
<1>2. sends[s].job = "executor" /\ holder' = 0 /\ UNCHANGED <<mode, drainWaiter, waiters, history>>
  BY DEF FinishJob
<1>3. holder = s /\ sends[s].kind = "large" /\ sends[s].pc # "lock" /\ Waits(sends[s])
  BY <1>1, <1>2 DEF LockInv, Waits
<1>4. \E pc \in Places \ {"start", "lock", "drain"}, res \in Results :
        /\ sends' = [sends EXCEPT ![s].job = "none", ![s].window = <<>>,
             ![s].pc = IF @ = "shield" THEN pc ELSE @,
             ![s].res = IF sends[s].pc = "shield" THEN res ELSE @]
        /\ \/ transport # "open" /\ wire' = wire /\ UNCHANGED <<protocolVars, output>>
           \/ WriteFrame(s, "large", sends[s].window) /\ output' = output + 2
  BY DEF FinishJob, Size, Places, Results
<1>5. PICK pc \in Places \ {"start", "lock", "drain"}, res \in Results :
        sends' = [sends EXCEPT ![s].job = "none", ![s].window = <<>>,
          ![s].pc = IF @ = "shield" THEN pc ELSE @,
          ![s].res = IF sends[s].pc = "shield" THEN res ELSE @]
  BY <1>4, ZenonT(60)
<1> DEFINE c == [sends[s] EXCEPT !.job = "none", !.window = <<>>,
                   !.pc = IF @ = "shield" THEN pc ELSE @,
                   !.res = IF sends[s].pc = "shield" THEN res ELSE @]
<1>6. /\ c \in CallType /\ c.kind = "large" /\ c.own = sends[s].own /\ c.job = "none"
      /\ c.pc \in {sends[s].pc, pc}
  <2>1. <<>> \in Seq(Nat) /\ "none" \in Jobs
    BY EmptySeq DEF Jobs
  <2> QED BY <1>1, <1>3, <2>1 DEF CallType
<1>7. sends' = Put(sends, s, c)
  BY <1>1, <1>5, CallsDomain DEF Put
<1> HIDE DEF c
<1>8. /\ sends' \in Seq(CallType) /\ Len(sends') = Len(sends) /\ DOMAIN sends' = DOMAIN sends
      /\ sends'[s] = c /\ \A t \in DOMAIN sends : t # s => sends'[t] = sends[t]
  BY <1>1, <1>6, <1>7, PutSends
<1>9. ~Waits(c) /\ c.pc # "start" /\ (c.pc = "drain" => sends[s].pc = "drain")
  BY <1>1, <1>3, <1>6 DEF Waits, Types
<1>10. LockInv'
  BY <1>1, <1>2, <1>3, <1>6, <1>7, <1>9, LockReleased DEF Waits
<1>11. /\ FlowTypes' /\ transport' = transport /\ (paused => paused')
       /\ Wrote(s, "large", sends[s].window) \/ (transport # "open" /\ wire' = wire)
  <2>1. CASE transport # "open" /\ wire' = wire /\ UNCHANGED <<protocolVars, output>>
    BY <1>1, <2>1 DEF FlowTypes, protocolVars
  <2>2. CASE WriteFrame(s, "large", sends[s].window) /\ output' = output + 2
    BY <1>1, <1>2, <2>2, WriteFrameFlow DEF FlowTypes
  <2> QED BY <1>4, <2>1, <2>2
<1>12. DrainIsWoken'
  <2>1. \A t \in DOMAIN sends' : sends'[t].pc = "drain" => t \in DOMAIN sends /\ sends[t].pc = "drain"
    BY <1>8, <1>9
  <2> QED BY <1>1, <1>2, <1>11, <2>1, DrainStays
<1>13. wire' \in Seq(Frame) => Types'
  <2>1. \A t \in DOMAIN sends' : sends'[t].pc # "start"
    BY <1>1, <1>8, <1>9 DEF Types
  <2> QED BY <1>1, <1>2, <1>8, <1>11, <2>1 DEF Types
<1>14. /\ Len(sends) <= Len(sends') /\ DOMAIN sends \subseteq DOMAIN sends'
       /\ \A t \in DOMAIN sends' : Waits(sends'[t]) => t \in DOMAIN sends /\ Waits(sends[t]) /\ s < t
  <2>1. Len(sends) \in Nat
    BY <1>1, LenProperties
  <2>2. \A t \in DOMAIN sends : Waits(sends[t]) /\ t # s => s < t
    BY <1>1, <1>3, WaitsForLock DEF In, LockInv
  <2> QED BY <1>8, <1>9, <2>1, <2>2
<1>15. ~Overrides => \A t \in DOMAIN sends' : sends'[t].own = FALSE
  BY <1>1, <1>6, <1>8 DEF StreamInv
<1>16. CASE transport # "open" /\ wire' = wire
  <2>1. OrderInv'
    BY <1>1, <1>2, <1>8, <1>14, <1>16, OrderKept
  <2>2. StreamInv'
    <3> SUFFICES ASSUME ~Overrides PROVE StreamInv'
      BY DEF StreamInv
    <3>1. \A i \in DOMAIN wire' :
            /\ ~mode'.compress => wire'[i].kind = "plain"
            /\ mode'.compress => wire'[i].kind \in {"small", "large"} /\ wire'[i].window = After(Ids(i - 1))'
      BY <1>1, <1>2, <1>16 DEF StreamInv, After, Ids
    <3> QED BY <1>11, <1>15, <1>16, <3>1 DEF StreamInv
  <2>3. wire' \in Seq(Frame)
    BY <1>1, <1>16 DEF Types
  <2> QED BY <1>10, <1>12, <1>13, <2>1, <2>2, <2>3 DEF Inv
<1>17. CASE Wrote(s, "large", sends[s].window)
  <2> DEFINE f == [id |-> s, kind |-> "large", window |-> sends[s].window]
  <2>1. /\ transport = "open" /\ f \in Frame /\ wire' = Append(wire, f)
        /\ f.id = s /\ f.kind = "large" /\ f.window = sends[s].window
    <3>1. "large" \in Data /\ sends[s].window \in Seq(Nat)
      BY <1>1 DEF Data, CallType
    <3> QED BY <1>1, <1>17, <3>1 DEF Wrote, Frame
  <2> HIDE DEF f
  <2>2. Types'
    BY <1>1, <1>13, <2>1, AppendProperties DEF Types
  <2>3. OrderInv'
    <3>1. Ordered => \A i \in DOMAIN wire : wire[i].id < f.id
      BY <1>1, <1>3, <2>1 DEF OrderInv
    <3> QED BY <1>1, <1>2, <1>8, <1>14, <2>1, <3>1, OrderWritten
  <2>4. StreamInv'
    <3>1. ~Overrides => mode.compress
      BY <1>1, <1>3 DEF OrderInv, Ordered
    <3>2. ~Overrides => f.window = After(Ids(Len(wire))) /\ history' = Append(Ids(Len(wire)), f.id)
      BY <1>1, <1>2, <1>3, <2>1, <3>1 DEF StreamInv
    <3> QED BY <1>1, <1>2, <1>15, <2>1, <3>1, <3>2, StreamWritten
  <2> QED BY <1>10, <1>12, <2>2, <2>3, <2>4 DEF Inv
<1> QED BY <1>11, <1>16, <1>17

(* ---------- steps that write nothing and leave the stream alone --------- *)

LEMMA QuietKeeps ==
  ASSUME Inv, UNCHANGED <<mode, history, wire, holder>>, FlowTypes', waiters' \in Seq(Nat),
         sends' \in Seq(CallType), Len(sends') = Len(sends),
         \A t \in DOMAIN sends : /\ Like(sends'[t], sends[t]) /\ sends'[t].pc # "start"
                                 /\ sends'[t].pc = "lock" => sends[t].pc = "lock",
         transport' = "open" => transport = "open"
  PROVE  /\ Types' /\ OrderInv' /\ StreamInv'
         /\ waiters' = waiters /\ (\A t \in DOMAIN sends : sends[t].pc = "lock" => sends'[t].pc = "lock")
              => LockInv'
<1>1. /\ Types /\ LockInv /\ OrderInv /\ StreamInv /\ Len(sends) \in Nat
      /\ DOMAIN sends = 1 .. Len(sends) /\ DOMAIN sends' = 1 .. Len(sends')
  BY CallsDomain DEF Inv, Types
<1>2. DOMAIN sends' = DOMAIN sends /\ Len(sends) <= Len(sends')
  BY <1>1
<1>3. Types'
  BY <1>1, <1>2 DEF Types
<1>4. \A t \in DOMAIN sends' : Waits(sends'[t]) => t \in DOMAIN sends /\ Waits(sends[t])
  BY <1>2 DEF Like, Waits
<1>5. OrderInv'
  BY <1>1, <1>2, <1>4, OrderKept
<1>6. StreamInv'
  BY <1>1, <1>2, StreamKept DEF Like
<1>7. ASSUME waiters' = waiters, \A t \in DOMAIN sends : sends[t].pc = "lock" => sends'[t].pc = "lock"
      PROVE  LockInv'
  <2>1. UNCHANGED lockVars
    BY <1>7 DEF lockVars
  <2>2. \A t \in DOMAIN sends : /\ sends'[t].job = sends[t].job /\ sends'[t].kind = sends[t].kind
                                /\ sends'[t].pc = "lock" <=> sends[t].pc = "lock"
    BY <1>7 DEF Like
  <2> QED BY <1>1, <1>2, <2>1, <2>2, LockStays
<1> QED BY <1>3, <1>5, <1>6, <1>7

LEMMA AfterShieldKeeps == ASSUME Inv, NEW s \in DOMAIN sends, AfterShield(s) PROVE Inv'
<1>1. Types /\ DrainIsWoken /\ FlowTypes /\ sends \in Seq(CallType) /\ output \in Nat
  BY DEF Inv, Types, FlowTypes
<1>2. /\ sends[s].pc = "written" /\ UNCHANGED <<transport, buffered, paused, mode, lockVars, history, wire>>
      /\ FlowControl(s, sends, output)
  BY DEF AfterShield
<1>3. output' \in Nat /\ \E pc \in {"done", "drain"}, res \in Results : Ended(s, sends, pc, res)
  BY <1>1, <1>2, FlowEnds
<1>4. PICK pc \in {"done", "drain"}, res \in Results : Ended(s, sends, pc, res)
  BY <1>3
<1>5. DrainIsWoken'
  BY <1>1, <1>2, <1>4, DrainEnded
<1>6. PICK c \in CallType : sends' = Put(sends, s, c) /\ Like(c, sends[s]) /\ c.pc = pc
  BY <1>1, <1>4, EndedCall
<1>7. /\ sends' \in Seq(CallType) /\ Len(sends') = Len(sends)
      /\ sends'[s] = c /\ \A t \in DOMAIN sends : t # s => sends'[t] = sends[t]
  BY <1>1, <1>6, PutSends
<1>8. FlowTypes'
  <2>1. drainWaiter' \in {"none", "pending", "cancelled"}
    BY <1>1, <1>4 DEF Ended, FlowTypes
  <2> QED BY <1>1, <1>2, <1>3, <2>1 DEF FlowTypes
<1>9. \A t \in DOMAIN sends : /\ Like(sends'[t], sends[t]) /\ sends'[t].pc # "start"
                              /\ sends'[t].pc = "lock" <=> sends[t].pc = "lock"
  BY <1>1, <1>2, <1>6, <1>7 DEF Like, Types
<1>10. waiters' \in Seq(Nat) /\ waiters' = waiters /\ holder' = holder
  BY <1>1, <1>2 DEF Types, lockVars
<1> QED BY <1>2, <1>5, <1>7, <1>8, <1>9, <1>10, QuietKeeps DEF Inv

LEMMA ReturnKeeps == ASSUME Inv, NEW s \in DOMAIN sends, Return(s) PROVE Inv'
<1>1. Types /\ DrainIsWoken /\ FlowTypes /\ sends \in Seq(CallType) /\ sends[s] \in CallType
  BY CallsDomain DEF Inv, Types
<1>2. /\ sends[s].pc = "ready" /\ sends' = [sends EXCEPT ![s].pc = "done"]
      /\ UNCHANGED <<mode, protocolVars, output, lockVars, history, wire>>
  BY DEF Return
<1> DEFINE c == [sends[s] EXCEPT !.pc = "done"]
<1>3. sends' = Put(sends, s, c) /\ c \in CallType
  BY <1>1, <1>2, MovesCall DEF Places
<1>4. Like(c, sends[s]) /\ c.pc = "done"
  BY <1>1 DEF CallType, Like
<1> HIDE DEF c
<1>5. /\ sends' \in Seq(CallType) /\ Len(sends') = Len(sends) /\ DOMAIN sends' = DOMAIN sends
      /\ sends'[s] = c /\ \A t \in DOMAIN sends : t # s => sends'[t] = sends[t]
  BY <1>1, <1>3, PutSends
<1>6. DrainIsWoken'
  BY <1>1, <1>2, <1>4, <1>5, DrainStays DEF protocolVars
<1>7. FlowTypes' /\ waiters' \in Seq(Nat) /\ waiters' = waiters /\ holder' = holder /\ transport' = transport
  BY <1>1, <1>2 DEF FlowTypes, Types, protocolVars, lockVars
<1>8. \A t \in DOMAIN sends : /\ Like(sends'[t], sends[t]) /\ sends'[t].pc # "start"
                              /\ sends'[t].pc = "lock" <=> sends[t].pc = "lock"
  BY <1>1, <1>2, <1>4, <1>5 DEF Like, Types
<1> QED BY <1>2, <1>5, <1>6, <1>7, <1>8, QuietKeeps DEF Inv

LEMMA CancelAllMakes ==
  ASSUME Types, NEW s, NEW S, CancelAll(s, S)
  PROVE  /\ sends' \in Seq(CallType) /\ Len(sends') = Len(sends) /\ DOMAIN sends' = DOMAIN sends
         /\ \A t \in DOMAIN sends : /\ Like(sends'[t], sends[t]) /\ sends'[t].pc # "start"
                                    /\ t \in S => sends'[t].pc = "ready"
                                    /\ t \notin S => sends'[t].pc = sends[t].pc
<1> DEFINE asked(t) == sends[t].asked \/ t = s
           pc(t) == IF t \in S THEN "ready" ELSE sends[t].pc
           res(t) == IF t \in S THEN "cancelled" ELSE sends[t].res
           c(t) == [sends[t] EXCEPT !.asked = asked(t), !.pc = pc(t), !.res = res(t)]
<1>1. sends \in Seq(CallType) /\ \A t \in DOMAIN sends : sends[t] \in CallType /\ sends[t].pc # "start"
  BY CallsDomain DEF Types
<1>2. sends' = [t \in DOMAIN sends |-> c(t)]
  BY DEF CancelAll
<1>3. ASSUME NEW t \in DOMAIN sends
      PROVE  /\ c(t) \in CallType /\ Like(c(t), sends[t]) /\ c(t).pc = pc(t) /\ pc(t) # "start"
  <2>1. asked(t) \in BOOLEAN
    OBVIOUS
  <2>2. pc(t) \in Places /\ res(t) \in Results /\ pc(t) # "start"
    BY <1>1 DEF CallType, Places, Results
  <2> HIDE DEF asked, pc, res
  <2> QED BY <1>1, <2>1, <2>2 DEF CallType, Like
<1>4. \A t \in DOMAIN sends : /\ t \in S => pc(t) = "ready"
                              /\ t \notin S => pc(t) = sends[t].pc
  OBVIOUS
<1> HIDE DEF c, pc
<1>5. DOMAIN sends' = DOMAIN sends /\ \A t \in DOMAIN sends : sends'[t] = c(t)
  BY <1>2
<1>6. sends' = [t \in DOMAIN sends' |-> sends'[t]] /\ \A t \in DOMAIN sends' : sends'[t] \in CallType
  BY <1>2, <1>3, <1>5
<1>7. sends' \in Seq(CallType) /\ Len(sends') = Len(sends)
  BY <1>1, <1>5, <1>6, CallsMapped
<1> QED BY <1>3, <1>4, <1>5, <1>7

\* Some callers are cancelled that do not wait for the lock.
LEMMA CancelsOthers ==
  ASSUME Inv, NEW s \in DOMAIN sends, NEW S \in SUBSET DOMAIN sends, CancelAll(s, S),
         \A t \in S : sends[t].pc # "lock",
         UNCHANGED <<mode, transport, buffered, paused, output, lockVars, history, wire>>,
         \/ drainWaiter' = drainWaiter
         \/ /\ drainWaiter' = "cancelled" /\ paused
            /\ \A t \in DOMAIN sends : sends[t].pc = "drain" => t \in S
  PROVE  Inv'
<1>1. Types /\ DrainIsWoken /\ FlowTypes
  BY DEF Inv, Types
<1>2. /\ sends' \in Seq(CallType) /\ Len(sends') = Len(sends) /\ DOMAIN sends' = DOMAIN sends
      /\ \A t \in DOMAIN sends : /\ Like(sends'[t], sends[t]) /\ sends'[t].pc # "start"
                                 /\ t \in S => sends'[t].pc = "ready"
                                 /\ t \notin S => sends'[t].pc = sends[t].pc
  BY <1>1, CancelAllMakes
<1>3. DrainIsWoken'
  <2>1. CASE drainWaiter' = drainWaiter
    BY <1>1, <1>2, <2>1, DrainStays
  <2>2. CASE /\ drainWaiter' = "cancelled" /\ paused
             /\ \A t \in DOMAIN sends : sends[t].pc = "drain" => t \in S
    BY <1>2, <2>2 DEF DrainIsWoken
  <2> QED BY <2>1, <2>2
<1>4. FlowTypes' /\ waiters' \in Seq(Nat) /\ waiters' = waiters /\ holder' = holder
  BY <1>1 DEF FlowTypes, Types, lockVars
<1>5. \A t \in DOMAIN sends : sends'[t].pc = "lock" <=> sends[t].pc = "lock"
  BY <1>2
<1> QED BY <1>2, <1>3, <1>4, <1>5, QuietKeeps DEF Inv

LEMMA CancelKeeps == ASSUME Inv, NEW s \in DOMAIN sends, Cancel(s) PROVE Inv'
<1>1. CASE CancelLock(s)
  <2>1. Types /\ LockInv /\ DrainIsWoken /\ FlowTypes /\ waiters \in Seq(Nat)
    BY DEF Inv, Types
  <2>2. /\ sends[s].pc = "lock" /\ CancelAll(s, {s})
        /\ UNCHANGED <<mode, protocolVars, output, holder, history, wire>>
    BY <1>1 DEF CancelLock
  <2>3. PICK i \in DOMAIN waiters : waiters[i] = s /\ waiters' = RemoveAt(waiters, i)
    BY <1>1 DEF CancelLock
  <2>4. /\ sends' \in Seq(CallType) /\ Len(sends') = Len(sends) /\ DOMAIN sends' = DOMAIN sends
        /\ \A t \in DOMAIN sends : /\ Like(sends'[t], sends[t]) /\ sends'[t].pc # "start"
                                   /\ t \in {s} => sends'[t].pc = "ready"
                                   /\ t \notin {s} => sends'[t].pc = sends[t].pc
    BY <2>1, <2>2, CancelAllMakes
  <2>5. LockInv'
    <3>1. \A t \in DOMAIN sends : /\ sends'[t].job = sends[t].job /\ sends'[t].kind = sends[t].kind
                                  /\ t # s => sends'[t].pc = sends[t].pc
      BY <2>4 DEF Like
    <3> QED BY <2>1, <2>2, <2>3, <2>4, <3>1, LockLeft
  <2>6. waiters' \in Seq(Nat)
    <3>1. i \in 1 .. Len(waiters)
      BY <2>1, LenProperties
    <3> QED BY <2>1, <2>3, <3>1, RemoveAtProperties
  <2>7. DrainIsWoken'
    BY <2>1, <2>2, <2>4, DrainStays DEF protocolVars
  <2>8. FlowTypes' /\ transport' = transport
    BY <2>1, <2>2 DEF FlowTypes, protocolVars
  <2>9. \A t \in DOMAIN sends : sends'[t].pc = "lock" => sends[t].pc = "lock"
    BY <2>4
  <2>10. Types' /\ OrderInv' /\ StreamInv'
    BY <2>2, <2>4, <2>6, <2>8, <2>9, QuietKeeps
  <2> QED BY <2>5, <2>7, <2>10 DEF Inv
<1>2. CASE CancelShield(s) \/ CancelWoken(s)
  <2>1. /\ CancelAll(s, {s}) /\ sends[s].pc # "lock"
        /\ UNCHANGED <<mode, protocolVars, output, lockVars, history, wire>>
    BY <1>2 DEF CancelShield, CancelWoken
  <2> QED BY <2>1, CancelsOthers DEF protocolVars
<1>3. CASE CancelDrain(s)
  <2> DEFINE S == {t \in DOMAIN sends : sends[t].pc = "drain"}
  <2>1. /\ sends[s].pc = "drain" /\ drainWaiter' = "cancelled" /\ CancelAll(s, S)
        /\ UNCHANGED <<mode, transport, buffered, paused, output, lockVars, history, wire>>
    BY <1>3 DEF CancelDrain
  <2>2. paused
    BY <2>1 DEF Inv, DrainIsWoken
  <2>3. S \in SUBSET DOMAIN sends /\ \A t \in S : sends[t].pc # "lock"
    OBVIOUS
  <2>4. \A t \in DOMAIN sends : sends[t].pc = "drain" => t \in S
    OBVIOUS
  <2> HIDE DEF S
  <2> QED BY <2>1, <2>2, <2>3, <2>4, CancelsOthers
<1> QED BY <1>1, <1>2, <1>3 DEF Cancel

(* ------------------------------ the transport --------------------------- *)

\* Everybody who waits for the drain is woken.
LEMMA WakeKeeps ==
  ASSUME Inv, NEW res \in Results, WakeDrainers(res), FlowTypes',
         UNCHANGED <<mode, lockVars, history, wire>>, transport' = "open" => transport = "open"
  PROVE  Inv'
<1> DEFINE c(t) == IF sends[t].pc = "drain" THEN [sends[t] EXCEPT !.pc = "ready", !.res = res] ELSE sends[t]
<1>1. /\ Types /\ sends \in Seq(CallType)
      /\ \A t \in DOMAIN sends : sends[t] \in CallType /\ sends[t].pc # "start"
  BY CallsDomain DEF Inv, Types
<1>2. sends' = [t \in DOMAIN sends |-> c(t)] /\ drainWaiter' = "none"
  BY DEF WakeDrainers
<1>3. ASSUME NEW t \in DOMAIN sends
      PROVE  /\ c(t) \in CallType /\ Like(c(t), sends[t]) /\ c(t).pc \notin {"start", "drain"}
             /\ c(t).pc = "lock" <=> sends[t].pc = "lock"
  BY <1>1 DEF CallType, Like, Places
<1> HIDE DEF c
<1>4. DOMAIN sends' = DOMAIN sends /\ \A t \in DOMAIN sends : sends'[t] = c(t)
  BY <1>2
<1>5. sends' = [t \in DOMAIN sends' |-> sends'[t]] /\ \A t \in DOMAIN sends' : sends'[t] \in CallType
  BY <1>2, <1>3, <1>4
<1>6. sends' \in Seq(CallType) /\ Len(sends') = Len(sends)
  BY <1>1, <1>4, <1>5, CallsMapped
<1>7. DrainIsWoken'
  BY <1>2, <1>3, <1>4 DEF DrainIsWoken
<1>8. waiters' \in Seq(Nat) /\ waiters' = waiters /\ holder' = holder
  BY <1>1 DEF Types, lockVars
<1> QED BY <1>3, <1>4, <1>6, <1>7, <1>8, QuietKeeps DEF Inv

\* Nobody is.
LEMMA TransportKeeps ==
  ASSUME Inv, UNCHANGED <<mode, paused, drainWaiter, sends, output, lockVars, history, wire>>, FlowTypes',
         \/ transport' = transport
         \/ transport' = "closing" /\ transport \in {"open", "closing"}
         \/ transport' = "lost" /\ ~paused
  PROVE  Inv'
<1>1. Types /\ DrainIsWoken /\ sends \in Seq(CallType)
  BY DEF Inv, Types
<1>2. DrainIsWoken'
  BY <1>1 DEF DrainIsWoken
<1>3. waiters' \in Seq(Nat) /\ waiters' = waiters /\ holder' = holder
  BY <1>1 DEF Types, lockVars
<1>4. \A t \in DOMAIN sends : Like(sends'[t], sends[t]) /\ sends'[t].pc # "start"
  BY <1>1 DEF Like, Types
<1> QED BY <1>1, <1>2, <1>3, <1>4, QuietKeeps DEF Inv

LEMMA FlushKeeps == ASSUME Inv, Flush PROVE Inv'
<1>1. FlowTypes
  BY DEF Inv, Types
<1>2. /\ buffered' \in Nat /\ UNCHANGED <<mode, transport, output, lockVars, history, wire>>
      /\ \/ ResumeWriting
         \/ UNCHANGED <<paused, drainWaiter, sends>>
  BY <1>1 DEF Flush, FlowTypes
<1>3. CASE ResumeWriting
  <2>1. FlowTypes' /\ WakeDrainers("ok")
    BY <1>1, <1>2, <1>3 DEF FlowTypes, ResumeWriting, WakeDrainers
  <2> QED BY <1>2, <2>1, WakeKeeps DEF Results
<1>4. CASE UNCHANGED <<paused, drainWaiter, sends>>
  <2>1. FlowTypes'
    BY <1>1, <1>2, <1>4 DEF FlowTypes
  <2> QED BY <1>2, <1>4, <2>1, TransportKeeps
<1> QED BY <1>2, <1>3, <1>4

LEMMA CloseTransportKeeps ==
  ASSUME Inv, NEW left \in 0 .. buffered, CloseTransport(left)
  PROVE  Inv'
<1>1. FlowTypes
  BY DEF Inv, Types
<1>2. FlowTypes'
  BY <1>1 DEF FlowTypes, CloseTransport
<1> QED BY <1>2, TransportKeeps DEF CloseTransport

LEMMA ConnectionLostKeeps ==
  ASSUME Inv, NEW err \in BOOLEAN, ConnectionLost(err)
  PROVE  Inv'
<1>1. FlowTypes
  BY DEF Inv, Types
<1>2. transport' = "lost" /\ UNCHANGED <<mode, buffered, paused, output, lockVars, history, wire>>
  BY DEF ConnectionLost
<1> DEFINE res == IF err THEN "error" ELSE "ok"
<1>3. res \in Results
  BY DEF Results
<1> HIDE DEF res
<1>4. CASE paused
  <2>1. WakeDrainers(res)
    BY <1>4 DEF ConnectionLost, res
  <2>2. FlowTypes'
    BY <1>1, <1>2, <2>1 DEF FlowTypes, WakeDrainers
  <2> QED BY <1>2, <1>3, <2>1, <2>2, WakeKeeps
<1>5. CASE ~paused
  <2>1. UNCHANGED <<drainWaiter, sends>>
    BY <1>5 DEF ConnectionLost
  <2>2. FlowTypes'
    BY <1>1, <1>2, <2>1 DEF FlowTypes
  <2> QED BY <1>2, <1>5, <2>1, <2>2, TransportKeeps
<1> QED BY <1>4, <1>5

(* ------------------------------- the writer ----------------------------- *)

LEMMA InitInv == Init => Inv
<1> SUFFICES ASSUME Init PROVE Inv
  OBVIOUS
<1>1. /\ mode \in Mode /\ transport = "open" /\ buffered = 0 /\ paused = FALSE /\ drainWaiter = "none"
      /\ sends = <<>> /\ output = 0 /\ holder = 0 /\ waiters = <<>> /\ history = <<>> /\ wire = <<>>
  BY DEF Init, Mode
<1>2. /\ \A S : <<>> \in Seq(S)
      /\ Len(<<>>) = 0 /\ DOMAIN <<>> = {}
  BY EmptySeq
<1>3. Types
  BY <1>1, <1>2 DEF Types, FlowTypes
<1>4. LockInv
  BY <1>1, <1>2 DEF LockInv, Sorted
<1>5. DrainIsWoken /\ OrderInv
  BY <1>1, <1>2 DEF DrainIsWoken, OrderInv, CallOrder
<1>6. StreamInv
  <2>1. Ids(Len(wire)) = <<>>
    BY <1>1, <1>2 DEF Ids
  <2> QED BY <1>1, <1>2, <2>1 DEF StreamInv
<1> QED BY <1>3, <1>4, <1>5, <1>6 DEF Inv

LEMMA StepInv == Inv /\ [Next]_vars => Inv'
<1> SUFFICES ASSUME Inv, [Next]_vars PROVE Inv'
  OBVIOUS
<1>1. ASSUME NEW kind \in Kinds, NEW own \in BOOLEAN, Refused(kind, own) PROVE Inv'
  BY <1>1, RefusedKeeps
<1>2. ASSUME NEW kind \in {"ping", "close", "plain"}, SendUncompressed(kind) PROVE Inv'
  BY <1>2, SendUncompressedKeeps
<1>3. ASSUME NEW own \in BOOLEAN, SendSmall(own) \/ SendLarge(own) PROVE Inv'
  BY <1>3, SendSmallKeeps, SendLargeKeeps
<1>4. ASSUME NEW s \in DOMAIN sends, TakeLock(s) \/ Continue(s) \/ Cancel(s) PROVE Inv'
  BY <1>4, TakeLockKeeps, FinishJobKeeps, AfterShieldKeeps, ReturnKeeps, CancelKeeps DEF Continue
<1>5. CASE Flush
  BY <1>5, FlushKeeps
<1>6. ASSUME NEW left \in 0 .. buffered, CloseTransport(left) PROVE Inv'
  BY <1>6, CloseTransportKeeps
<1>7. ASSUME NEW err \in BOOLEAN, ConnectionLost(err) PROVE Inv'
  BY <1>7, ConnectionLostKeeps
<1>8. CASE UNCHANGED vars
  <2>1. UNCHANGED <<mode, transport, buffered, paused, drainWaiter, sends, output, lockVars, history, wire>>
    BY <1>8 DEF vars, protocolVars
  <2>2. FlowTypes'
    BY <2>1 DEF Inv, Types, FlowTypes
  <2> QED BY <2>1, <2>2, TransportKeeps
<1> QED BY <1>1, <1>2, <1>3, <1>4, <1>5, <1>6, <1>7, <1>8 DEF Next

\* The invariant: the types, who owns and who waits for the lock, who waits
\* for the drain, and what the shared compressor has seen.
THEOREM WriterCorrect == Spec => []Inv
<1>1. Init => Inv
  BY InitInv
<1>2. Inv /\ [Next]_vars => Inv'
  BY StepInv
<1> QED BY <1>1, <1>2, PTL DEF Spec

\* A call of send_frame() that waits for the transport is always woken by the
\* next resume_writing() or connection_lost(), whatever its limits are and
\* however many calls wait and are cancelled.
THEOREM DrainIsWokenCorrect == Spec => []DrainIsWoken
<1>1. Inv => DrainIsWoken
  BY DEF Inv
<1> QED BY <1>1, WriterCorrect, PTL

\* Messages leave in the order of the calls of send_frame(); except that on a
\* connection without compression a message that is sent with compress= can
\* be overtaken, while it waits for the lock, by those sent without.
THEOREM CallOrderCorrect == Spec => []((Overrides => mode.compress) => CallOrder)
<1>1. Inv => ((Overrides => mode.compress) => CallOrder)
  BY DEF Inv, OrderInv, Ordered
<1> QED BY <1>1, WriterCorrect, PTL

LEMMA TypesHold == Inv => TypeOK
<1> SUFFICES ASSUME Inv PROVE TypeOK
  OBVIOUS
<1>1. Types /\ LockInv
  BY DEF Inv
<1>2. /\ transport \in {"open", "closing", "lost"} /\ drainWaiter \in {"none", "pending", "cancelled"}
      /\ {buffered, output} \subseteq Nat /\ paused \in BOOLEAN
  BY <1>1 DEF Types, FlowTypes
<1>3. ASSUME NEW s \in DOMAIN sends
      PROVE  /\ sends[s].kind \in Kinds /\ sends[s].job \in {"none", "lock", "executor"}
             /\ sends[s].pc \in {"lock", "shield", "written", "drain", "ready", "done"}
             /\ sends[s].res \in {"none", "ok", "error", "cancelled"}
             /\ (holder = s) = (sends[s].job = "executor")
             /\ (\E i \in DOMAIN waiters : waiters[i] = s) = (sends[s].pc = "lock" \/ sends[s].job = "lock")
  <2>1. sends[s] \in CallType /\ sends[s].pc # "start"
    BY <1>1, CallsDomain DEF Types
  <2>2. /\ holder = s <=> sends[s].job = "executor"
        /\ (\E i \in DOMAIN waiters : waiters[i] = s) <=> sends[s].pc = "lock" \/ sends[s].job = "lock"
    BY <1>1 DEF LockInv, In
  <2>3. /\ sends[s].kind \in Kinds /\ sends[s].job \in {"none", "lock", "executor"}
        /\ sends[s].pc \in {"lock", "shield", "written", "drain", "ready", "done"}
        /\ sends[s].res \in {"none", "ok", "error", "cancelled"}
    BY <2>1 DEF CallType, Jobs, Places, Results
  <2> QED BY <2>2, <2>3
<1>4. IsInjective(waiters)
  BY <1>1, SortedOnce DEF Types, LockInv, Once, IsInjective
<1> QED BY <1>2, <1>3, <1>4 DEF TypeOK

(* --------------------------- what the peer reads ------------------------ *)

\* When every message on the wire is compressed, the peer has seen those
\* before the i-th.
LEMMA SeenIsIds ==
  ASSUME wire \in Seq(Frame), NEW i \in DOMAIN wire,
         \A k \in DOMAIN wire : wire[k].kind \in {"small", "large"}
  PROVE  SeenBefore(i) = Ids(i - 1)
<1> DEFINE D == 0 .. i - 1
           body(f) == [n \in D |-> IF n = 0 THEN <<>>
                                   ELSE IF wire[n].kind \in {"small", "large"} THEN Append(f[n - 1], wire[n].id)
                                   ELSE f[n - 1]]
           g == [n \in D |-> Ids(n)]
           seen == CHOOSE f : f = body(f)
<1>1. i \in Nat \ {0} /\ DOMAIN wire = 1 .. Len(wire) /\ Len(wire) \in Nat /\ i <= Len(wire)
  BY LenProperties
<1>2. \A n \in D : n # 0 => n \in DOMAIN wire /\ n - 1 \in D
  BY <1>1
<1>3. Ids(0) = <<>>
  BY DEF Ids
<1>4. ASSUME NEW n \in D, n # 0 PROVE Ids(n) = Append(Ids(n - 1), wire[n].id)
  <2>1. \A k \in DOMAIN wire : wire[k].id \in Nat
    <3>1. \A k \in DOMAIN wire : wire[k] \in Frame
      BY <1>1, ElementOfSeq
    <3> QED BY <3>1 DEF Frame
  <2>2. n \in DOMAIN wire /\ n - 1 \in Nat /\ 1 .. n - 1 \subseteq DOMAIN wire
    BY <1>1, <1>2, <1>4
  <2>3. /\ Ids(n - 1) \in Seq(Nat) /\ Len(Ids(n - 1)) = n - 1 /\ wire[n].id \in Nat
        /\ \A k \in 1 .. n - 1 : Ids(n - 1)[k] = wire[k].id
    BY <2>1, <2>2, IdsType
  <2> DEFINE a == Append(Ids(n - 1), wire[n].id)
  <2>4. /\ a \in Seq(Nat) /\ Len(a) = n - 1 + 1
        /\ \A k \in 1 .. n - 1 : a[k] = Ids(n - 1)[k]
        /\ a[n - 1 + 1] = wire[n].id
    BY <2>3, AppendProperties
  <2> HIDE DEF a
  <2>5. a \in [1 .. n -> Nat] /\ n - 1 + 1 = n
    BY <1>1, <2>3, <2>4, LenProperties, SMTT(30)
  <2>6. \A k \in 1 .. n : a[k] = wire[k].id
    <3>1. \A k \in 1 .. n : k \in 1 .. n - 1 \/ k = n
      BY <1>1
    <3> QED BY <2>3, <2>4, <2>5, <3>1
  <2> QED BY <2>5, <2>6 DEF Ids, a
<1>5. g = body(g)
  <2>1. \A n \in D : g[n] = IF n = 0 THEN <<>>
                            ELSE IF wire[n].kind \in {"small", "large"} THEN Append(g[n - 1], wire[n].id)
                            ELSE g[n - 1]
    <3> SUFFICES ASSUME NEW n \in D
                 PROVE  g[n] = IF n = 0 THEN <<>>
                               ELSE IF wire[n].kind \in {"small", "large"} THEN Append(g[n - 1], wire[n].id)
                               ELSE g[n - 1]
      OBVIOUS
    <3>1. CASE n = 0
      BY <1>3, <3>1
    <3>2. CASE n # 0
      <4>1. wire[n].kind \in {"small", "large"} /\ g[n - 1] = Ids(n - 1) /\ g[n] = Ids(n)
        BY <1>2, <3>2
      <4> QED BY <1>4, <3>2, <4>1
    <3> QED BY <3>1, <3>2
  <2> QED BY <2>1
<1>6. seen = body(seen)
  BY <1>5
<1>7. SeenBefore(i) = seen[i - 1]
  BY DEF SeenBefore
<1> HIDE DEF seen
<1>8. seen[0] = Ids(0) /\ \A n \in D : n # 0 => seen[n] = Append(seen[n - 1], wire[n].id)
  <2>1. 0 \in D
    BY <1>1
  <2>2. seen[0] = <<>>
    BY <1>6, <2>1
  <2>3. ASSUME NEW n \in D, n # 0 PROVE seen[n] = Append(seen[n - 1], wire[n].id)
    <3>1. wire[n].kind \in {"small", "large"}
      BY <1>2, <2>3
    <3>2. seen[n] = body(seen)[n]
      BY <1>6
    <3> QED BY <2>3, <3>1, <3>2
  <2> QED BY <1>3, <2>2, <2>3
<1> DEFINE S == {n \in Nat : n \in D => seen[n] = Ids(n)}
<1>9. 0 \in S
  BY <1>8
<1>10. ASSUME NEW n \in Nat, n \in S PROVE n + 1 \in S
  <2>1. n + 1 \in D => n \in D /\ n + 1 # 0 /\ (n + 1) - 1 = n
    BY <1>1
  <2>2. ASSUME n + 1 \in D PROVE seen[n + 1] = Ids(n + 1)
    <3>1. seen[n] = Ids(n)
      BY <1>10, <2>1, <2>2
    <3>2. seen[n + 1] = Append(seen[n], wire[n + 1].id)
      BY <1>8, <2>1, <2>2
    <3>3. Ids(n + 1) = Append(Ids(n), wire[n + 1].id)
      BY <1>4, <2>1, <2>2
    <3> QED BY <3>1, <3>2, <3>3
  <2> QED BY <2>2
<1> HIDE DEF S
<1>11. Nat \subseteq S
  BY <1>9, <1>10, SetInduction
<1>12. i - 1 \in D /\ i - 1 \in Nat
  BY <1>1
<1> QED BY <1>7, <1>11, <1>12 DEF S

\* The two windows there are: everything and nothing.
LEMMA SuffixOfIds ==
  ASSUME NEW n \in Nat
  PROVE  IsSuffix(Ids(n), Ids(n)) /\ IsSuffix(<<>>, Ids(n))
<1>1. DOMAIN Ids(n) = 1 .. n /\ Len(Ids(n)) = n
  BY DEF Ids
<1>2. DOMAIN Reverse(Ids(n)) = 1 .. n /\ Len(Reverse(Ids(n))) = n
  BY <1>1 DEF Reverse
<1>3. Reverse(<<>>) = <<>>
  BY DEF Reverse
<1>4. SubSeq(<<>>, 1, 0) = <<>> /\ SubSeq(Reverse(Ids(n)), 1, 0) = <<>>
  OBVIOUS
<1> QED BY <1>2, <1>3, <1>4 DEF IsSuffix, IsPrefix

\* The peer can decompress every message it gets, as long as no message
\* overrides what the handshake agreed on: its window refers to what the peer
\* has decompressed, whatever is cancelled and wherever it was compressed.
THEOREM DecodableCorrect == Spec => [](~Overrides => Decodable)
<1>1. ASSUME Inv, ~Overrides PROVE Decodable
  <2>1. wire \in Seq(Frame) /\ StreamInv
    BY <1>1 DEF Inv, Types
  <2>2. ASSUME NEW i \in DOMAIN wire, wire[i].kind \in {"small", "large"}
        PROVE  IsSuffix(wire[i].window, SeenBefore(i))
    <3>1. mode.compress /\ wire[i].window = After(Ids(i - 1))
      BY <1>1, <2>1, <2>2 DEF StreamInv
    <3>2. \A k \in DOMAIN wire : wire[k].kind \in {"small", "large"}
      BY <1>1, <2>1, <3>1 DEF StreamInv
    <3>3. SeenBefore(i) = Ids(i - 1)
      BY <2>1, <3>2, SeenIsIds
    <3>4. i - 1 \in Nat
      BY <2>1, LenProperties
    <3> QED BY <3>1, <3>3, <3>4, SuffixOfIds DEF After
  <2> QED BY <1>1, <2>2, TypesHold DEF Decodable
<1>2. Inv => (~Overrides => Decodable)
  BY <1>1
<1> QED BY <1>2, WriterCorrect, PTL

=============================================================================
