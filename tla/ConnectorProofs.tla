-------------------------- MODULE ConnectorProofs --------------------------
(***************************************************************************)
(* What the pool guarantees for every number of callers, hosts and         *)
(* connections, and for every value of the limits: who owns a connection,  *)
(* that the accounting is exact, what the limits allow, that nobody in the *)
(* queues of callers is forgotten, and that it implements ConnectionLease. *)
(***************************************************************************)
EXTENDS Connector, QueueLemmas, FiniteSetTheorems

(* ------------------------------- queues -------------------------------- *)

\* Taking the own future out of the queue leaves a queue.
LEMMA PopWaiterType ==
  ASSUME TypeOK, NEW r \in Tasks
  PROVE  PopWaiter(r) \in Seq(Tasks)
<1> DEFINE q == waiters[key[r]]
<1>1. q \in Seq(Tasks)
  BY DEF TypeOK
<1>2. CASE ~ \E i \in DOMAIN q : q[i] = r
  BY <1>1, <1>2 DEF PopWaiter
<1>3. CASE \E i \in DOMAIN q : q[i] = r
  <2> DEFINE i == CHOOSE j \in DOMAIN q : q[j] = r
  <2>1. i \in 1 .. Len(q)
    BY <1>1, <1>3, LenProperties
  <2>2. PopWaiter(r) = RemoveAt(q, i)
    BY <1>3 DEF PopWaiter
  <2> QED
    BY <1>1, <2>1, <2>2, RemoveAtProperties
<1> QED
  BY <1>2, <1>3

\* Waking a waiter keeps the queues' type and makes no future appear or vanish.
LEMMA ReleaseWaiterType ==
  ASSUME TypeOK, NEW acq, NEW perHost, ReleaseWaiter(acq, perHost)
  PROVE  /\ waiters' \in [Keys -> Seq(Tasks)]
         /\ fut' \in [Tasks -> {"none", "pending", "result", "cancelled"}]
         /\ \A r \in Tasks : fut'[r] = "none" <=> fut[r] = "none"
<1>0. waiters \in [Keys -> Seq(Tasks)] /\ <<>> \in Seq(Tasks)
  BY EmptySeq DEF TypeOK
<1>1. CASE WakeNobody(acq, perHost)
  <2>1. waiters' = [k \in Keys |-> IF k \in OpenHosts(acq, perHost) THEN <<>> ELSE waiters[k]]
    BY <1>1 DEF WakeNobody
  <2>2. waiters' \in [Keys -> Seq(Tasks)]
    BY <1>0, <2>1
  <2>3. UNCHANGED fut
    BY <1>1 DEF WakeNobody
  <2> QED
    BY <2>2, <2>3 DEF TypeOK
<1>2. ASSUME NEW k \in Keys, NEW i \in Pending(k), NEW drained \in SUBSET Keys,
             WakeFirst(k, i, drained)
      PROVE  /\ waiters' \in [Keys -> Seq(Tasks)]
             /\ fut' \in [Tasks -> {"none", "pending", "result", "cancelled"}]
             /\ \A r \in Tasks : fut'[r] = "none" <=> fut[r] = "none"
  <2>1. waiters[k] \in Seq(Tasks) /\ i \in 1 .. Len(waiters[k])
    BY <1>0, LenProperties DEF Pending
  <2>2. SubSeq(waiters[k], i + 1, Len(waiters[k])) \in Seq(Tasks)
    BY <2>1, SuffixProperties
  <2>3. waiters' \in [Keys -> Seq(Tasks)]
    BY <1>0, <1>2, <2>2 DEF WakeFirst
  <2>4. waiters[k][i] \in Tasks /\ fut[waiters[k][i]] = "pending"
    BY <2>1, ElementOfSeq DEF Pending
  <2>5. fut' = [fut EXCEPT ![waiters[k][i]] = "result"]
    BY <1>2 DEF WakeFirst
  <2> QED
    BY <2>3, <2>4, <2>5 DEF TypeOK
<1> QED
  <2>1. OpenHosts(acq, perHost) \subseteq Keys /\ LiveHosts(acq, perHost) \subseteq Keys
    BY DEF OpenHosts, LiveHosts
  <2> QED
    BY <1>1, <1>2, <2>1 DEF ReleaseWaiter
(* ----------------------------- type correctness ------------------------ *)

Futures == {"none", "pending", "result", "cancelled"}
WithProto == {"created", "reusing", "holding"}
Places == {"idle", "waiting", "reusing", "creating", "created", "holding", "done"}

\* Adding a placeholder or a protocol to what is in use.
LEMMA AcquireType ==
  ASSUME TypeOK, NEW x \in Tasks \cup Protos, NEW k \in Keys, Acquire(x, k)
  PROVE  /\ acquired' \in SUBSET (Tasks \cup Protos)
         /\ acquiredPerHost' \in [Keys -> SUBSET (Tasks \cup Protos)]
  BY DEF TypeOK, Acquire

\* Taking one out and waking a waiter.
LEMMA ReleaseAcquiredType ==
  ASSUME TypeOK, NEW x, NEW k \in Keys, ReleaseAcquired(k, x)
  PROVE  /\ acquired' \in SUBSET (Tasks \cup Protos)
         /\ acquiredPerHost' \in [Keys -> SUBSET (Tasks \cup Protos)]
         /\ waiters' \in [Keys -> Seq(Tasks)]
         /\ fut' \in [Tasks -> Futures]
         /\ \A r \in Tasks : fut'[r] = "none" <=> fut[r] = "none"
<1>1. CASE closed
  BY <1>1 DEF ReleaseAcquired, TypeOK, limitVars, waitVars, Futures
<1>2. CASE ~closed
  <2>1. ReleaseWaiter(acquired', acquiredPerHost')
    BY <1>2 DEF ReleaseAcquired
  <2>2. /\ waiters' \in [Keys -> Seq(Tasks)]
        /\ fut' \in [Tasks -> Futures]
        /\ \A r \in Tasks : fut'[r] = "none" <=> fut[r] = "none"
    BY <2>1, ReleaseWaiterType DEF Futures
  <2>3. acquired' \in SUBSET (Tasks \cup Protos)
    BY <1>2 DEF ReleaseAcquired, TypeOK
  <2>4. acquiredPerHost' \in [Keys -> SUBSET (Tasks \cup Protos)]
    <3>1. acquiredPerHost \in [Keys -> SUBSET (Tasks \cup Protos)]
      BY DEF TypeOK
    <3>2. \/ acquiredPerHost' = acquiredPerHost
          \/ acquiredPerHost' = [acquiredPerHost EXCEPT ![k] = @ \ {x}]
      BY <1>2 DEF ReleaseAcquired
    <3> QED
      BY <3>1, <3>2
  <2> QED
    BY <2>2, <2>3, <2>4
<1> QED
  BY <1>1, <1>2

\* Closing idle or used connections.
LEMMA CloseProtosType ==
  ASSUME TypeOK, NEW S \in SUBSET Protos, NEW k \in Keys, CloseProtos(S, k)
  PROVE  /\ tr' \in [Protos -> {"none", "open", "lost"}]
         /\ expired' \in SUBSET Protos
         /\ cleanupClosed' \in SUBSET Protos
  BY DEF TypeOK, CloseProtos

\* A task that got a connection from the pool.
LEMMA GetHitType ==
  ASSUME TypeOK, NEW r \in Tasks, NEW k \in Keys, GetHit(r, k)
  PROVE  /\ conns' \in [Keys -> SUBSET Protos]
         /\ tr' \in [Protos -> {"none", "open", "lost"}]
         /\ expired' \in SUBSET Protos /\ cleanupClosed' \in SUBSET Protos
         /\ acquired' \in SUBSET (Tasks \cup Protos)
         /\ acquiredPerHost' \in [Keys -> SUBSET (Tasks \cup Protos)]
         /\ pc' \in [Tasks -> Places] /\ held' \in [Tasks -> Protos \cup {NoProto}]
         /\ \A t \in Tasks : held'[t] # NoProto <=> pc'[t] \in WithProto
         /\ \A t \in Tasks : pc'[t] = "waiting" <=> t # r /\ pc[t] = "waiting"
<1>1. PICK p \in conns[k], skipped \in SUBSET conns[k] :
        /\ conns' = PopIdle(k, skipped \cup {p})
        /\ CloseProtos(skipped, k)
        /\ Acquire(p, k)
        /\ held' = [held EXCEPT ![r] = p]
        /\ pc' = [pc EXCEPT ![r] = IF Traced THEN "reusing" ELSE "holding"]
  BY DEF GetHit
<1>2. p \in Protos /\ skipped \in SUBSET Protos
  BY DEF TypeOK
<1>3. conns' \in [Keys -> SUBSET Protos]
  BY <1>1 DEF PopIdle, TypeOK
<1>4. PICK a \in {"reusing", "holding"} : pc' = [pc EXCEPT ![r] = a]
  BY <1>1
<1>5. pc' \in [Tasks -> Places] /\ held' \in [Tasks -> Protos \cup {NoProto}]
  BY <1>1, <1>2, <1>4 DEF TypeOK, Places
<1>6. \A t \in Tasks : held'[t] # NoProto <=> pc'[t] \in WithProto
  BY <1>1, <1>2, <1>4, ConnectorAssumption DEF TypeOK, WithProto
<1>7. \A t \in Tasks : pc'[t] = "waiting" <=> t # r /\ pc[t] = "waiting"
  BY <1>4 DEF TypeOK
<1> QED
  BY <1>1, <1>2, <1>3, <1>5, <1>6, <1>7, CloseProtosType, AcquireType

\* A task that found nothing in the pool.
LEMMA GetMissType ==
  ASSUME TypeOK, NEW k \in Keys, GetMiss(k)
  PROVE  /\ conns' \in [Keys -> SUBSET Protos]
         /\ tr' \in [Protos -> {"none", "open", "lost"}]
         /\ expired' \in SUBSET Protos /\ cleanupClosed' \in SUBSET Protos
<1>1. conns[k] \in SUBSET Protos /\ conns' \in [Keys -> SUBSET Protos]
  BY DEF GetMiss, TypeOK
<1> QED
  BY <1>1, CloseProtosType DEF GetMiss

LEMMA TypeInit == Init => TypeOK
<1> SUFFICES ASSUME Init PROVE TypeOK
  OBVIOUS
<1>1. <<>> \in Seq(Tasks)
  BY EmptySeq
<1>2. key \in [Tasks -> Keys] /\ home \in [Protos -> Keys]
  BY DEF Init
<1> QED
  BY <1>1, <1>2 DEF Init, TypeOK

LEMMA TypeConnect ==
  ASSUME TypeOK, NEW r \in Tasks, NEW k \in Keys,
         ConnectReuse(r, k) \/ ConnectCreate(r, k) \/ ConnectWait(r, k)
  PROVE  TypeOK'
<1>0. key' \in [Tasks -> Keys] /\ closed' \in BOOLEAN /\ home' \in [Protos -> Keys]
      /\ cleanupHandle' \in BOOLEAN /\ cleanupTimer' \in BOOLEAN /\ pc[r] = "idle"
  BY DEF ConnectReuse, ConnectCreate, ConnectWait, Unaffected, TypeOK
<1>1. CASE ConnectReuse(r, k)
  <2>1. GetHit(r, k) /\ UNCHANGED waitVars
    BY <1>1 DEF ConnectReuse
  <2> QED
    BY <1>0, <2>1, GetHitType DEF TypeOK, waitVars, Places, WithProto
<1>2. CASE ConnectCreate(r, k)
  <2>1. GetMiss(k) /\ StartCreating(r, k) /\ UNCHANGED waitVars
    BY <1>2 DEF ConnectCreate
  <2>2. Acquire(r, k) /\ pc' = [pc EXCEPT ![r] = "creating"] /\ held' = held
    BY <2>1 DEF StartCreating
  <2> QED
    BY <1>0, <2>1, <2>2, GetMissType, AcquireType DEF TypeOK, waitVars
<1>3. CASE ConnectWait(r, k)
  <2>1. GetMiss(k)
    BY <1>3 DEF ConnectWait
  <2>2. waiters' \in [Keys -> Seq(Tasks)]
    BY <1>3, AppendProperties DEF ConnectWait, TypeOK
  <2> QED
    BY <1>0, <1>3, <2>1, <2>2, GetMissType, ZenonT(60) DEF ConnectWait, TypeOK, limitVars
<1> QED
  BY <1>1, <1>2, <1>3

\* A call that ended has neither a future nor a protocol.
LEMMA EndCallType ==
  ASSUME TypeOK, NEW r \in Tasks, EndCall(r)
  PROVE  /\ pc' \in [Tasks -> Places] /\ held' \in [Tasks -> Protos \cup {NoProto}]
         /\ \A t \in Tasks : held'[t] # NoProto <=> pc'[t] \in WithProto
         /\ \A t \in Tasks : pc'[t] = "waiting" <=> t # r /\ pc[t] = "waiting"
  BY ConnectorAssumption DEF EndCall, TypeOK, Places, WithProto

LEMMA TypeCancelWait ==
  ASSUME TypeOK, NEW r \in Tasks, CancelWait(r)
  PROVE  TypeOK'
  BY DEF TypeOK, CancelWait, poolVars, limitVars, taskVars, protoVars

LEMMA TypeWake ==
  ASSUME TypeOK, NEW r \in Tasks, Wake(r)
  PROVE  TypeOK'
<1>0. key[r] \in Keys /\ PopWaiter(r) \in Seq(Tasks) /\ <<r>> \in Seq(Tasks)
  BY PopWaiterType DEF TypeOK
<1>1. CASE WaitCancelled(r)
  <2>1. waiters' \in [Keys -> Seq(Tasks)]
    BY <1>0, <1>1 DEF WaitCancelled, TypeOK
  <2>2. fut' = [fut EXCEPT ![r] = "none"] /\ EndCall(r)
    BY <1>1 DEF WaitCancelled
  <2>3. \A t \in Tasks : fut'[t] = "none" <=> pc'[t] # "waiting"
    BY <2>2, EndCallType DEF TypeOK
  <2>4. UNCHANGED <<closed, poolVars, limitVars, key, protoVars>>
    BY <1>1 DEF WaitCancelled
  <2> QED
    BY <2>1, <2>2, <2>3, <2>4, EndCallType
       DEF TypeOK, poolVars, limitVars, protoVars, Places, WithProto
<1>2. CASE WaitAgain(r)
  <2>1. <<r>> \o PopWaiter(r) \in Seq(Tasks)
    BY <1>0, ConcatProperties
  <2>2. waiters' \in [Keys -> Seq(Tasks)]
    BY <1>0, <1>2, <2>1 DEF WaitAgain, TypeOK
  <2> QED
    BY <1>2, <2>2 DEF WaitAgain, TypeOK, poolVars, limitVars, taskVars, protoVars
<1>3. CASE WaitDone(r)
  <2>1. waiters' \in [Keys -> Seq(Tasks)]
    BY <1>0, <1>3 DEF WaitDone, TypeOK
  <2>2. /\ fut' = [fut EXCEPT ![r] = "none"] /\ pc[r] = "waiting"
        /\ Unaffected /\ UNCHANGED key
    BY <1>3 DEF WaitDone
  <2>3. CASE GetHit(r, key[r])
    BY <1>0, <2>1, <2>2, <2>3, GetHitType DEF TypeOK, Unaffected, Places, WithProto
  <2>4. CASE GetMiss(key[r]) /\ StartCreating(r, key[r])
    <3>1. Acquire(r, key[r]) /\ pc' = [pc EXCEPT ![r] = "creating"] /\ held' = held
      BY <2>4 DEF StartCreating
    <3> QED
      BY <1>0, <2>1, <2>2, <2>4, <3>1, GetMissType, AcquireType DEF TypeOK, Unaffected
  <2> QED
    BY <1>3, <2>3, <2>4 DEF WaitDone
<1> QED
  BY <1>1, <1>2, <1>3 DEF Wake

\* Replacing the placeholder by the protocol.
LEMMA EstablishType ==
  ASSUME TypeOK, NEW r \in Tasks, NEW p \in Protos, Establish(r, p)
  PROVE  /\ acquired' \in SUBSET (Tasks \cup Protos)
         /\ acquiredPerHost' \in [Keys -> SUBSET (Tasks \cup Protos)]
         /\ pc' \in [Tasks -> Places] /\ held' \in [Tasks -> Protos \cup {NoProto}]
         /\ \A t \in Tasks : held'[t] # NoProto <=> pc'[t] \in WithProto
         /\ \A t \in Tasks : pc'[t] = "waiting" <=> t # r /\ pc[t] = "waiting"
<1>1. acquiredPerHost \in [Keys -> SUBSET (Tasks \cup Protos)]
  BY DEF TypeOK
<1>2. \/ acquiredPerHost' = acquiredPerHost
      \/ acquiredPerHost' = [acquiredPerHost EXCEPT ![key[r]] = (@ \ {r}) \cup {p}]
  BY DEF Establish
<1>3. acquiredPerHost' \in [Keys -> SUBSET (Tasks \cup Protos)]
  BY <1>1, <1>2
<1>4. held' = [held EXCEPT ![r] = p] /\ pc' = [pc EXCEPT ![r] = "holding"]
  BY DEF Establish
<1>5. acquired' \in SUBSET (Tasks \cup Protos)
  BY DEF Establish, TypeOK
<1> QED
  BY <1>3, <1>4, <1>5, ConnectorAssumption DEF TypeOK, Places, WithProto

LEMMA TypeCreate ==
  ASSUME TypeOK, NEW r \in Tasks, Create(r)
  PROVE  TypeOK'
<1>1. CASE Created(r)
  <2>0. UNCHANGED <<closed, poolVars, waitVars, key>> /\ pc[r] = "creating"
    BY <1>1 DEF Created
  <2>1. PICK p \in Protos :
          /\ home' = [home EXCEPT ![p] = key[r]]
          /\ expired' = expired \ {p}
          /\ \/ /\ Traced
                /\ tr' = [tr EXCEPT ![p] = "open"]
                /\ held' = [held EXCEPT ![r] = p]
                /\ pc' = [pc EXCEPT ![r] = "created"]
                /\ UNCHANGED limitVars
             \/ /\ ~Traced /\ ~closed
                /\ tr' = [tr EXCEPT ![p] = "open"]
                /\ Establish(r, p)
             \/ /\ ~Traced /\ closed
                /\ tr' = [tr EXCEPT ![p] = "none"]
                /\ EndCall(r)
                /\ UNCHANGED limitVars
    BY <1>1 DEF Created
  <2>2. home' \in [Protos -> Keys] /\ expired' \in SUBSET Protos
    BY <2>1 DEF TypeOK
  <2>3. CASE /\ tr' = [tr EXCEPT ![p] = "open"]
             /\ held' = [held EXCEPT ![r] = p]
             /\ pc' = [pc EXCEPT ![r] = "created"]
             /\ UNCHANGED limitVars
    BY <2>0, <2>2, <2>3, ConnectorAssumption DEF TypeOK, poolVars, waitVars, limitVars
  <2>4. CASE tr' = [tr EXCEPT ![p] = "open"] /\ Establish(r, p)
    BY <2>0, <2>2, <2>4, EstablishType DEF TypeOK, poolVars, waitVars, Places, WithProto
  <2>5. CASE tr' = [tr EXCEPT ![p] = "none"] /\ EndCall(r) /\ UNCHANGED limitVars
    BY <2>0, <2>2, <2>5, EndCallType
       DEF TypeOK, poolVars, waitVars, limitVars, Places, WithProto
  <2> QED
    BY <2>1, <2>3, <2>4, <2>5
<1>2. CASE CreateTraceEnd(r)
  <2>0. UNCHANGED <<closed, poolVars, waitVars, key, expired, home>> /\ pc[r] = "created"
    BY <1>2 DEF CreateTraceEnd
  <2>1. CASE tr' = [tr EXCEPT ![held[r]] = "none"] /\ EndCall(r) /\ UNCHANGED limitVars
    BY <2>0, <2>1, EndCallType
       DEF TypeOK, poolVars, waitVars, limitVars, Places, WithProto
  <2>2. CASE Establish(r, held[r]) /\ UNCHANGED tr
    <3>1. held[r] \in Protos
      BY <2>0 DEF TypeOK
    <3> QED
      BY <2>0, <2>2, <3>1, EstablishType DEF TypeOK, poolVars, waitVars, Places, WithProto
  <2> QED
    BY <1>2, <2>1, <2>2 DEF CreateTraceEnd
<1>3. CASE CreateFail(r)
  <2>1. /\ ReleaseAcquired(key[r], r) /\ EndCall(r) /\ key[r] \in Keys /\ pc[r] # "waiting"
        /\ UNCHANGED <<closed, poolVars, key, protoVars>>
    BY <1>3 DEF CreateFail, TypeOK
  <2> QED
    BY <2>1, ReleaseAcquiredType, EndCallType
       DEF TypeOK, poolVars, protoVars, Futures, Places, WithProto
<1> QED
  BY <1>1, <1>2, <1>3 DEF Create

LEMMA TypeReuse ==
  ASSUME TypeOK, NEW r \in Tasks, Reuse(r)
  PROVE  TypeOK'
<1>1. CASE ReuseTraceEnd(r)
  BY <1>1 DEF ReuseTraceEnd, TypeOK, poolVars, limitVars, waitVars, protoVars
<1>2. CASE ReuseTraceFail(r)
  <2>1. /\ ReleaseAcquired(key[r], held[r]) /\ EndCall(r) /\ key[r] \in Keys
        /\ pc[r] # "waiting"
        /\ UNCHANGED <<closed, poolVars, key, protoVars>>
    BY <1>2 DEF ReuseTraceFail, TypeOK
  <2> QED
    BY <2>1, ReleaseAcquiredType, EndCallType
       DEF TypeOK, poolVars, protoVars, Futures, Places, WithProto
<1> QED
  BY <1>1, <1>2 DEF Reuse

LEMMA TypeRelease ==
  ASSUME TypeOK, NEW r \in Tasks, NEW shouldClose \in BOOLEAN, Release(r, shouldClose)
  PROVE  TypeOK'
<1>1. /\ ReleaseAcquired(key[r], held[r]) /\ EndCall(r)
      /\ key[r] \in Keys /\ held[r] \in Protos /\ pc[r] # "waiting"
      /\ UNCHANGED <<closed, key, home>>
  BY DEF Release, TypeOK
<1>2. /\ conns' \in [Keys -> SUBSET Protos]
      /\ cleanupHandle' \in BOOLEAN /\ cleanupTimer' \in BOOLEAN
      /\ cleanupClosed' \in SUBSET Protos
      /\ tr' \in [Protos -> {"none", "open", "lost"}] /\ expired' \in SUBSET Protos
  <2>1. CASE UNCHANGED <<poolVars, tr, expired>>
    BY <2>1 DEF TypeOK, poolVars
  <2>2. CASE CloseProtos({held[r]}, key[r]) /\ UNCHANGED <<conns, cleanupHandle, cleanupTimer>>
    <3>1. {held[r]} \in SUBSET Protos
      BY <1>1
    <3> QED
      BY <1>1, <2>2, <3>1, CloseProtosType DEF TypeOK
  <2>3. CASE /\ conns' = [conns EXCEPT ![key[r]] = @ \cup {held[r]}]
             /\ cleanupHandle' = TRUE
             /\ cleanupTimer' = (cleanupTimer \/ ~cleanupHandle)
             /\ UNCHANGED <<cleanupClosed, tr, expired>>
    BY <1>1, <2>3 DEF TypeOK
  <2> QED
    BY <2>1, <2>2, <2>3 DEF Release
<1> QED
  BY <1>1, <1>2, ReleaseAcquiredType, EndCallType DEF TypeOK, Futures, Places, WithProto

LEMMA TypeEnvironment ==
  ASSUME TypeOK, NEW p \in Protos, Disconnect(p) \/ Expire(p)
  PROVE  TypeOK'
  BY ZenonT(60) DEF TypeOK, Disconnect, Expire, poolVars, limitVars, waitVars, taskVars

LEMMA TypeTimers ==
  ASSUME TypeOK, Cleanup \/ CleanupClosed
  PROVE  TypeOK'
<1>1. CASE CleanupClosed
  BY <1>1 DEF TypeOK, CleanupClosed, limitVars, waitVars, taskVars, protoVars
<1>2. CASE Cleanup
  <2> DEFINE dead == {p \in Idle : ~Reusable(p)}
  <2>1. dead \in SUBSET Protos
    BY DEF Idle, TypeOK
  <2>2. /\ conns' = [k \in Keys |-> conns[k] \ dead]
        /\ tr' = [p \in Protos |-> IF p \in dead THEN "none" ELSE tr[p]]
        /\ expired' = expired \ dead
        /\ cleanupClosed' = cleanupClosed \cup
             {p \in dead : \E k \in SslKeys : p \in conns[k]}
        /\ cleanupHandle' = (Idle # dead) /\ cleanupTimer' = (Idle # dead)
        /\ UNCHANGED <<closed, limitVars, waitVars, taskVars, home>>
    BY <1>2 DEF Cleanup
  <2> HIDE DEF dead
  <2>3. conns' \in [Keys -> SUBSET Protos] /\ tr' \in [Protos -> {"none", "open", "lost"}]
    BY <2>2 DEF TypeOK
  <2>4. cleanupClosed' \in SUBSET Protos /\ expired' \in SUBSET Protos
    BY <2>1, <2>2 DEF TypeOK
  <2>5. cleanupHandle' \in BOOLEAN /\ cleanupTimer' \in BOOLEAN
    BY <2>2
  <2> QED
    BY <2>2, <2>3, <2>4, <2>5 DEF TypeOK, limitVars, waitVars, taskVars
<1> QED
  BY <1>1, <1>2

LEMMA TypeClose ==
  ASSUME TypeOK, CloseConnector
  PROVE  TypeOK'
<1>1. waiters' \in [Keys -> Seq(Tasks)]
  BY EmptySeq DEF CloseConnector
<1>2. \A r \in Tasks : fut'[r] \in Futures /\ (fut'[r] = "none" <=> fut[r] = "none")
  BY DEF CloseConnector, TypeOK, Futures
<1>3. fut' \in [Tasks -> Futures]
  BY <1>2 DEF CloseConnector
<1> QED
  BY <1>1, <1>2, <1>3 DEF CloseConnector, TypeOK, taskVars, Futures

LEMMA TypeNext == TypeOK /\ [Next]_vars => TypeOK'
<1> SUFFICES ASSUME TypeOK, [Next]_vars PROVE TypeOK'
  OBVIOUS
<1>1. CASE Next
  BY <1>1, TypeConnect, TypeCancelWait, TypeWake, TypeCreate, TypeReuse, TypeRelease,
     TypeEnvironment, TypeTimers, TypeClose DEF Next, Connect
<1>2. CASE UNCHANGED vars
  BY <1>2 DEF TypeOK, vars, poolVars, limitVars, waitVars, taskVars, protoVars
<1> QED
  BY <1>1, <1>2

\* Every state of the pool is well typed, and a call's future and protocol
\* exist exactly while its place in the code says so.
THEOREM TypeCorrect == Spec => []TypeOK
<1> QED
  BY TypeInit, TypeNext, PTL DEF Spec

(* ------------------------------- ownership ----------------------------- *)

\* Steps that only take protocols away from tasks and from the pool.
LEMMA OwnershipShrinks ==
  ASSUME TypeOK, ExclusiveOwnership,
         \A k \in Keys : conns'[k] \subseteq conns[k],
         \A t \in Tasks : held'[t] \in {held[t], NoProto},
         \A t \in Tasks : held'[t] # NoProto => key'[t] = key[t],
         home' = home
  PROVE  ExclusiveOwnership'
<1>1. \A k \in Keys : NoProto \notin conns[k]
  BY ConnectorAssumption DEF TypeOK
<1> QED
  BY <1>1 DEF ExclusiveOwnership

\* A protocol goes from the pool to one task.
LEMMA OwnershipGetHit ==
  ASSUME TypeOK, ExclusiveOwnership, NEW r \in Tasks, NEW k \in Keys, GetHit(r, k),
         held[r] = NoProto, key' = [key EXCEPT ![r] = k], home' = home
  PROVE  ExclusiveOwnership'
<1>1. PICK p \in conns[k], skipped \in SUBSET conns[k] :
        conns' = PopIdle(k, skipped \cup {p}) /\ held' = [held EXCEPT ![r] = p]
  BY DEF GetHit
<1>2. p \in Protos /\ home[p] = k
  BY DEF TypeOK, ExclusiveOwnership
<1>3. \A h \in Keys : conns'[h] \subseteq conns[h]
  BY <1>1 DEF PopIdle, TypeOK
<1>4. \A h \in Keys : p \notin conns'[h]
  BY <1>1, <1>2 DEF PopIdle, TypeOK, ExclusiveOwnership
<1>5. \A t \in Tasks : held[t] # p
  BY <1>1 DEF ExclusiveOwnership
<1>6. \A t \in Tasks : held'[t] = (IF t = r THEN p ELSE held[t])
  BY <1>1 DEF TypeOK
<1>7. \A t \in Tasks : key'[t] = (IF t = r THEN k ELSE key[t])
  BY DEF TypeOK
<1>8. \A s, t \in Tasks : held'[s] = held'[t] /\ held'[s] # NoProto => s = t
  BY <1>5, <1>6 DEF ExclusiveOwnership
<1>9. \A t \in Tasks, h \in Keys : held'[t] \notin conns'[h]
  BY <1>3, <1>4, <1>6 DEF ExclusiveOwnership
<1>10. \A t \in Tasks : held'[t] # NoProto => home'[held'[t]] = key'[t]
  BY <1>2, <1>6, <1>7 DEF ExclusiveOwnership
<1>11. \A h \in Keys : \A q \in conns'[h] : home'[q] = h
  BY <1>3 DEF ExclusiveOwnership
<1> QED
  BY <1>8, <1>9, <1>10, <1>11 DEF ExclusiveOwnership

\* A new protocol goes to the task that opened it.
LEMMA OwnershipCreated ==
  ASSUME TypeOK, ExclusiveOwnership, NEW r \in Tasks, NEW p \in Protos, FreshProto(p),
         held[r] = NoProto, held' = [held EXCEPT ![r] = p],
         home' = [home EXCEPT ![p] = key[r]], UNCHANGED <<conns, key>>
  PROVE  ExclusiveOwnership'
<1>1. \A k \in Keys : p \notin conns[k]
  BY DEF FreshProto, Idle
<1>2. \A t \in Tasks : held[t] # p
  BY ConnectorAssumption DEF FreshProto, Held
<1>3. \A t \in Tasks : held'[t] = (IF t = r THEN p ELSE held[t])
  BY DEF TypeOK
<1>4. \A q \in Protos : home'[q] = (IF q = p THEN key[r] ELSE home[q])
  BY DEF TypeOK
<1>5. \A k \in Keys : conns[k] \subseteq Protos
  BY DEF TypeOK
<1>6. \A s, t \in Tasks : held'[s] = held'[t] /\ held'[s] # NoProto => s = t
  BY <1>2, <1>3 DEF ExclusiveOwnership
<1>7. \A t \in Tasks, h \in Keys : held'[t] \notin conns'[h]
  BY <1>1, <1>3 DEF ExclusiveOwnership
<1>8. \A t \in Tasks : held'[t] # NoProto => home'[held'[t]] = key'[t]
  <2> SUFFICES ASSUME NEW t \in Tasks, held'[t] # NoProto
               PROVE  home'[held'[t]] = key'[t]
    OBVIOUS
  <2>1. CASE t = r
    BY <1>3, <1>4, <2>1
  <2>2. CASE t # r
    <3>1. held'[t] = held[t] /\ held[t] \in Protos /\ held[t] # p
      BY <1>2, <1>3, <2>2 DEF TypeOK
    <3> QED
      BY <1>4, <3>1 DEF ExclusiveOwnership
  <2> QED
    BY <2>1, <2>2
<1>9. \A h \in Keys : \A q \in conns'[h] : home'[q] = h
  BY <1>1, <1>4, <1>5 DEF ExclusiveOwnership
<1> QED
  BY <1>6, <1>7, <1>8, <1>9 DEF ExclusiveOwnership

\* A task gives its protocol back to the pool.
LEMMA OwnershipReturned ==
  ASSUME TypeOK, ExclusiveOwnership, NEW r \in Tasks, held[r] \in Protos,
         conns' = [conns EXCEPT ![key[r]] = @ \cup {held[r]}],
         held' = [held EXCEPT ![r] = NoProto], UNCHANGED <<key, home>>
  PROVE  ExclusiveOwnership'
<1>1. \A t \in Tasks : held'[t] = (IF t = r THEN NoProto ELSE held[t])
  BY DEF TypeOK
<1>2. \A h \in Keys : conns'[h] = (IF h = key[r] THEN conns[h] \cup {held[r]} ELSE conns[h])
  BY DEF TypeOK
<1>3. \A h \in Keys : NoProto \notin conns[h]
  BY ConnectorAssumption DEF TypeOK
<1>4. home[held[r]] = key[r] /\ held[r] # NoProto
  BY ConnectorAssumption DEF ExclusiveOwnership
<1>5. \A s, t \in Tasks : held'[s] = held'[t] /\ held'[s] # NoProto => s = t
  BY <1>1 DEF ExclusiveOwnership
<1>6. \A t \in Tasks, h \in Keys : held'[t] \notin conns'[h]
  BY <1>1, <1>2, <1>3, <1>4 DEF ExclusiveOwnership
<1>7. \A t \in Tasks : held'[t] # NoProto => home'[held'[t]] = key'[t]
  BY <1>1 DEF ExclusiveOwnership
<1>8. \A h \in Keys : \A q \in conns'[h] : home'[q] = h
  BY <1>2, <1>4 DEF ExclusiveOwnership
<1> QED
  BY <1>5, <1>6, <1>7, <1>8 DEF ExclusiveOwnership

LEMMA OwnershipInit == Init => ExclusiveOwnership
  BY DEF Init, ExclusiveOwnership

LEMMA OwnershipConnect ==
  ASSUME TypeOK, ExclusiveOwnership, NEW r \in Tasks, NEW k \in Keys,
         ConnectReuse(r, k) \/ ConnectCreate(r, k) \/ ConnectWait(r, k)
  PROVE  ExclusiveOwnership'
<1>1. held[r] = NoProto /\ key' = [key EXCEPT ![r] = k] /\ home' = home
  BY DEF ConnectReuse, ConnectCreate, ConnectWait, Unaffected, TypeOK
<1>2. CASE ConnectReuse(r, k)
  BY <1>1, <1>2, OwnershipGetHit DEF ConnectReuse
<1>3. CASE ConnectCreate(r, k) \/ ConnectWait(r, k)
  <2>1. held' = held /\ conns' = [conns EXCEPT ![k] = {}]
    BY <1>3 DEF ConnectCreate, ConnectWait, StartCreating, GetMiss
  <2>2. \A h \in Keys : conns'[h] \subseteq conns[h]
    BY <2>1 DEF TypeOK
  <2>3. \A t \in Tasks : held'[t] # NoProto => key'[t] = key[t]
    BY <1>1, <2>1 DEF TypeOK
  <2> QED
    BY <1>1, <2>1, <2>2, <2>3, OwnershipShrinks
<1> QED
  BY <1>2, <1>3

LEMMA OwnershipWake ==
  ASSUME TypeOK, ExclusiveOwnership, NEW r \in Tasks, Wake(r)
  PROVE  ExclusiveOwnership'
<1>1. CASE WaitCancelled(r)
  <2>1. held' = [held EXCEPT ![r] = NoProto] /\ UNCHANGED <<conns, key, home>>
    BY <1>1 DEF WaitCancelled, EndCall, poolVars, protoVars
  <2>2. \A t \in Tasks : held'[t] \in {held[t], NoProto}
    BY <2>1 DEF TypeOK
  <2> QED
    BY <2>1, <2>2, OwnershipShrinks
<1>2. CASE WaitAgain(r)
  BY <1>2, OwnershipShrinks DEF WaitAgain, poolVars, taskVars, protoVars
<1>3. CASE WaitDone(r)
  <2>1. /\ held[r] = NoProto /\ key[r] \in Keys /\ home' = home /\ key' = key
        /\ key' = [key EXCEPT ![r] = key[r]]
    BY <1>3 DEF WaitDone, Unaffected, TypeOK
  <2>2. CASE GetHit(r, key[r])
    BY <2>1, <2>2, OwnershipGetHit
  <2>3. CASE GetMiss(key[r]) /\ StartCreating(r, key[r])
    <3>1. held' = held /\ conns' = [conns EXCEPT ![key[r]] = {}]
      BY <2>3 DEF StartCreating, GetMiss
    <3>2. \A h \in Keys : conns'[h] \subseteq conns[h]
      BY <3>1 DEF TypeOK
    <3> QED
      BY <2>1, <3>1, <3>2, OwnershipShrinks
  <2> QED
    BY <1>3, <2>2, <2>3 DEF WaitDone
<1> QED
  BY <1>1, <1>2, <1>3 DEF Wake

LEMMA OwnershipCreate ==
  ASSUME TypeOK, ExclusiveOwnership, NEW r \in Tasks, Create(r)
  PROVE  ExclusiveOwnership'
<1>1. CASE Created(r)
  <2>1. held[r] = NoProto /\ UNCHANGED <<conns, key>>
    BY <1>1 DEF Created, TypeOK, poolVars
  <2>2. PICK p \in Protos :
          /\ FreshProto(p) /\ home' = [home EXCEPT ![p] = key[r]]
          /\ held' \in {[held EXCEPT ![r] = p], [held EXCEPT ![r] = NoProto]}
    BY <1>1 DEF Created, Establish, EndCall
  <2>3. CASE held' = [held EXCEPT ![r] = p]
    BY <2>1, <2>2, <2>3, OwnershipCreated
  <2>4. CASE held' = [held EXCEPT ![r] = NoProto]
    <3>1. held' = held
      BY <2>1, <2>4 DEF TypeOK
    <3>2. \A k \in Keys : p \notin conns[k] /\ conns[k] \subseteq Protos
      BY <2>2 DEF FreshProto, Idle, TypeOK
    <3>3. \A t \in Tasks : held[t] # p /\ (held[t] # NoProto => held[t] \in Protos)
      BY <2>2, ConnectorAssumption DEF FreshProto, Held, TypeOK
    <3>4. \A q \in Protos : q # p => home'[q] = home[q]
      BY <2>2 DEF TypeOK
    <3> QED
      BY <2>1, <3>1, <3>2, <3>3, <3>4 DEF ExclusiveOwnership
  <2> QED
    BY <2>2, <2>3, <2>4
<1>2. CASE CreateTraceEnd(r)
  <2>1. UNCHANGED <<conns, key, home>>
    BY <1>2 DEF CreateTraceEnd, poolVars
  <2>2. held' \in {[held EXCEPT ![r] = NoProto], [held EXCEPT ![r] = held[r]]}
    BY <1>2 DEF CreateTraceEnd, EndCall, Establish
  <2>3. \A t \in Tasks : held'[t] \in {held[t], NoProto}
    BY <2>2 DEF TypeOK
  <2> QED
    BY <2>1, <2>3, OwnershipShrinks
<1>3. CASE CreateFail(r)
  <2>1. held' = [held EXCEPT ![r] = NoProto] /\ UNCHANGED <<conns, key, home>>
    BY <1>3 DEF CreateFail, EndCall, poolVars, protoVars
  <2>2. \A t \in Tasks : held'[t] \in {held[t], NoProto}
    BY <2>1 DEF TypeOK
  <2> QED
    BY <2>1, <2>2, OwnershipShrinks
<1> QED
  BY <1>1, <1>2, <1>3 DEF Create

LEMMA OwnershipReuse ==
  ASSUME TypeOK, ExclusiveOwnership, NEW r \in Tasks, Reuse(r)
  PROVE  ExclusiveOwnership'
<1>1. UNCHANGED <<conns, key, home>>
  BY DEF Reuse, ReuseTraceEnd, ReuseTraceFail, poolVars, protoVars
<1>2. held' \in {held, [held EXCEPT ![r] = NoProto]}
  BY DEF Reuse, ReuseTraceEnd, ReuseTraceFail, EndCall
<1>3. \A t \in Tasks : held'[t] \in {held[t], NoProto}
  BY <1>2 DEF TypeOK
<1> QED
  BY <1>1, <1>3, OwnershipShrinks

LEMMA OwnershipRelease ==
  ASSUME TypeOK, ExclusiveOwnership,
         NEW r \in Tasks, NEW shouldClose \in BOOLEAN, Release(r, shouldClose)
  PROVE  ExclusiveOwnership'
<1>1. /\ held' = [held EXCEPT ![r] = NoProto] /\ held[r] \in Protos
      /\ UNCHANGED <<key, home>>
  BY DEF Release, EndCall, TypeOK
<1>2. \/ conns' = conns
      \/ conns' = [conns EXCEPT ![key[r]] = @ \cup {held[r]}]
  BY DEF Release, poolVars
<1>3. CASE conns' = conns
  <2>1. \A t \in Tasks : held'[t] \in {held[t], NoProto}
    BY <1>1 DEF TypeOK
  <2> QED
    BY <1>1, <1>3, <2>1, OwnershipShrinks
<1> QED
  BY <1>1, <1>2, <1>3, OwnershipReturned

LEMMA OwnershipTimersAndClose ==
  ASSUME TypeOK, ExclusiveOwnership, Cleanup \/ CleanupClosed \/ CloseConnector
  PROVE  ExclusiveOwnership'
<1>1. UNCHANGED <<held, key, home>>
  BY DEF Cleanup, CleanupClosed, CloseConnector, taskVars, protoVars
<1>2. \A k \in Keys : conns'[k] \subseteq conns[k]
  <2>1. CASE Cleanup
    <3>1. PICK dead : conns' = [k \in Keys |-> conns[k] \ dead]
      BY <2>1 DEF Cleanup
    <3> QED
      BY <3>1
  <2>2. CASE CleanupClosed
    BY <2>2 DEF CleanupClosed
  <2>3. CASE CloseConnector
    BY <2>3 DEF CloseConnector
  <2> QED
    BY <2>1, <2>2, <2>3
<1> QED
  BY <1>1, <1>2, OwnershipShrinks

LEMMA OwnershipNext ==
  TypeOK /\ ExclusiveOwnership /\ [Next]_vars => ExclusiveOwnership'
<1> SUFFICES ASSUME TypeOK, ExclusiveOwnership, [Next]_vars PROVE ExclusiveOwnership'
  OBVIOUS
<1>1. CASE \E r \in Tasks : CancelWait(r)
  BY <1>1, OwnershipShrinks DEF CancelWait, poolVars, taskVars, protoVars
<1>2. CASE \E p \in Protos : Disconnect(p) \/ Expire(p)
  BY <1>2, OwnershipShrinks DEF Disconnect, Expire, poolVars, taskVars
<1>3. CASE UNCHANGED vars
  BY <1>3, OwnershipShrinks DEF vars, poolVars, taskVars, protoVars
<1> QED
  BY <1>1, <1>2, <1>3, OwnershipConnect, OwnershipWake, OwnershipCreate, OwnershipReuse,
     OwnershipRelease, OwnershipTimersAndClose DEF Next, Connect

\* A connection is never in two hands, and only in hands that asked for its host.
THEOREM OwnershipCorrect == Spec => []ExclusiveOwnership
<1> QED
  BY TypeInit, TypeNext, OwnershipInit, OwnershipNext, PTL DEF Spec

(* ------------------------------ accounting ----------------------------- *)

\* The per-host set covers what is in use, after close() too: close() clears
\* _acquired but not _acquired_per_host.
PerHostCovered == LimitPerHost # 0 => \A k \in Keys : InUse(k) \subseteq acquiredPerHost[k]

\* What the per-host limit really bounds.
PerHostBounded ==
  LimitPerHost # 0 => \A k \in Keys :
    Cardinality(acquiredPerHost[k] \cup conns[k]) <= LimitPerHost

\* Two calls never have the same thing in use.
LEMMA SlotsDisjoint ==
  ASSUME TypeOK, ExclusiveOwnership, NEW s \in Tasks, NEW t \in Tasks, s # t
  PROVE  Slot(s) \cap Slot(t) = {}
  BY ConnectorAssumption DEF Slot, Opener, PoolUser, TypeOK, ExclusiveOwnership

\* How the sets in use change in a step of the one call r.
LEMMA InUseStep ==
  ASSUME TypeOK, ExclusiveOwnership, NEW r \in Tasks,
         \A t \in Tasks \ {r} : Slot(t)' = Slot(t) /\ (Slot(t) # {} => key'[t] = key[t])
  PROVE  /\ Occupied' = (Occupied \ Slot(r)) \cup Slot(r)'
         /\ \A k \in Keys :
              InUse(k)' = (InUse(k) \ Slot(r)) \cup (IF key'[r] = k THEN Slot(r)' ELSE {})
<1>1. \A t \in Tasks \ {r} : Slot(t) \cap Slot(r) = {}
  BY SlotsDisjoint
<1>2. Occupied' = (Occupied \ Slot(r)) \cup Slot(r)'
  <2>1. ASSUME NEW x \in Occupied'
        PROVE  x \in (Occupied \ Slot(r)) \cup Slot(r)'
    <3>1. PICK t \in Tasks : x \in Slot(t)'
      BY <2>1 DEF Occupied
    <3>2. CASE t # r
      BY <1>1, <3>1, <3>2 DEF Occupied
    <3> QED
      BY <3>1, <3>2
  <2>2. ASSUME NEW x \in Occupied, x \notin Slot(r)
        PROVE  x \in Occupied'
    <3>1. PICK t \in Tasks : x \in Slot(t)
      BY <2>2 DEF Occupied
    <3>2. x \in Slot(t)'
      BY <2>2, <3>1
    <3> QED
      BY <3>2 DEF Occupied
  <2>3. Slot(r)' \subseteq Occupied'
    BY DEF Occupied
  <2> QED
    BY <2>1, <2>2, <2>3
<1>3. ASSUME NEW k \in Keys
      PROVE  InUse(k)' = (InUse(k) \ Slot(r)) \cup (IF key'[r] = k THEN Slot(r)' ELSE {})
  <2>1. ASSUME NEW x \in InUse(k)'
        PROVE  x \in (InUse(k) \ Slot(r)) \cup (IF key'[r] = k THEN Slot(r)' ELSE {})
    <3>1. PICK t \in Tasks : key'[t] = k /\ x \in Slot(t)'
      BY <2>1 DEF InUse
    <3>2. CASE t = r
      BY <3>1, <3>2
    <3>3. CASE t # r
      <4>1. x \in Slot(t) /\ key[t] = k /\ x \notin Slot(r)
        BY <1>1, <3>1, <3>3
      <4> QED
        BY <4>1 DEF InUse
    <3> QED
      BY <3>2, <3>3
  <2>2. ASSUME NEW x \in InUse(k), x \notin Slot(r)
        PROVE  x \in InUse(k)'
    <3>1. PICK t \in Tasks : key[t] = k /\ x \in Slot(t)
      BY <2>2 DEF InUse
    <3>2. t # r /\ key'[t] = k /\ x \in Slot(t)'
      BY <2>2, <3>1
    <3> QED
      BY <3>2 DEF InUse
  <2>3. ASSUME NEW x \in Slot(r)', key'[r] = k
        PROVE  x \in InUse(k)'
    BY <2>3 DEF InUse
  <2> QED
    BY <2>1, <2>2, <2>3
<1> QED
  BY <1>2, <1>3

\* What one call has in use is in use for its own host only.
LEMMA SlotOnlyHere ==
  ASSUME TypeOK, ExclusiveOwnership, NEW r \in Tasks, NEW h \in Keys, h # key[r]
  PROVE  InUse(h) \ Slot(r) = InUse(h)
<1>1. ASSUME NEW x \in InUse(h), x \in Slot(r) PROVE FALSE
  <2>1. PICK t \in Tasks : key[t] = h /\ x \in Slot(t)
    BY DEF InUse
  <2> QED
    BY <1>1, <2>1, SlotsDisjoint
<1> QED
  BY <1>1

\* A step of the one call r that changes the sets exactly as its slot changes.
LEMMA AccountingStep ==
  ASSUME TypeOK, ExclusiveOwnership, AcquiredExact, PerHostCovered, NEW r \in Tasks,
         \A t \in Tasks \ {r} : pc'[t] = pc[t] /\ held'[t] = held[t] /\ key'[t] = key[t],
         closed' = closed,
         acquiredPerHost' \in [Keys -> SUBSET (Tasks \cup Protos)],
         ~closed => acquired' = (acquired \ Slot(r)) \cup Slot(r)',
         ~closed /\ LimitPerHost # 0 => \A h \in Keys :
           acquiredPerHost'[h] = (acquiredPerHost[h] \ Slot(r))
                                   \cup (IF key'[r] = h THEN Slot(r)' ELSE {}),
         closed /\ LimitPerHost # 0 => \A h \in Keys :
           acquiredPerHost[h] \cup (IF key'[r] = h THEN Slot(r)' ELSE {})
             \subseteq acquiredPerHost'[h]
  PROVE  AcquiredExact' /\ PerHostCovered'
<1>1. \A t \in Tasks \ {r} : Slot(t)' = Slot(t) /\ (Slot(t) # {} => key'[t] = key[t])
  BY DEF Slot, Opener, PoolUser
<1>2. /\ Occupied' = (Occupied \ Slot(r)) \cup Slot(r)'
      /\ \A k \in Keys :
           InUse(k)' = (InUse(k) \ Slot(r)) \cup (IF key'[r] = k THEN Slot(r)' ELSE {})
  BY <1>1, InUseStep
<1>3. CASE closed
  BY <1>2, <1>3 DEF AcquiredExact, PerHostCovered
<1>4. CASE ~closed
  <2>1. acquired' = Occupied'
    BY <1>2, <1>4 DEF AcquiredExact
  <2>2. ASSUME LimitPerHost # 0, NEW k \in Keys PROVE acquiredPerHost'[k] = InUse(k)'
    <3>1. acquiredPerHost[k] = InUse(k)
      BY <1>4, <2>2 DEF AcquiredExact
    <3>2. acquiredPerHost'[k] =
            (acquiredPerHost[k] \ Slot(r)) \cup (IF key'[r] = k THEN Slot(r)' ELSE {})
      BY <1>4, <2>2
    <3>3. InUse(k)' = (InUse(k) \ Slot(r)) \cup (IF key'[r] = k THEN Slot(r)' ELSE {})
      BY <1>2
    <3> QED
      BY ONLY <3>1, <3>2, <3>3
  <2> QED
    BY <2>1, <2>2 DEF AcquiredExact, PerHostCovered
<1> QED
  BY <1>3, <1>4

\* A step in which no call moves and the sets stay, or the connector is closed.
LEMMA AccountingStutters ==
  ASSUME AcquiredExact, PerHostCovered, UNCHANGED <<key, held, acquiredPerHost>>,
         \A t \in Tasks : Slot(t)' = Slot(t),
         closed' \/ (closed' = closed /\ acquired' = acquired)
  PROVE  AcquiredExact' /\ PerHostCovered'
<1>1. \A k \in Keys : InUse(k)' = InUse(k)
  BY DEF InUse
<1>2. Occupied' = Occupied
  BY DEF Occupied
<1> QED
  BY <1>1, <1>2 DEF AcquiredExact, PerHostCovered

\* Call r, which has nothing in use, gets x.
LEMMA AccountingAcquire ==
  ASSUME TypeOK, ExclusiveOwnership, AcquiredExact, PerHostCovered,
         NEW r \in Tasks, NEW k \in Keys, NEW x \in Tasks \cup Protos,
         \A t \in Tasks \ {r} : pc'[t] = pc[t] /\ held'[t] = held[t] /\ key'[t] = key[t],
         closed' = closed, key'[r] = k, Slot(r) = {}, Slot(r)' = {x}, Acquire(x, k)
  PROVE  AcquiredExact' /\ PerHostCovered'
<1>1. acquiredPerHost' \in [Keys -> SUBSET (Tasks \cup Protos)] /\ acquired' = acquired \cup {x}
  BY AcquireType DEF Acquire
<1>2. LimitPerHost # 0 => \A h \in Keys :
        acquiredPerHost'[h] = (IF h = k THEN acquiredPerHost[h] \cup {x} ELSE acquiredPerHost[h])
  BY DEF Acquire, TypeOK
<1> QED
  BY <1>1, <1>2, AccountingStep

\* Call r gives up what it has in use.
LEMMA AccountingRelease ==
  ASSUME TypeOK, ExclusiveOwnership, AcquiredExact, PerHostCovered, NEW r \in Tasks, NEW x,
         \A t \in Tasks \ {r} : pc'[t] = pc[t] /\ held'[t] = held[t],
         closed' = closed, key' = key, Slot(r) = {x}, Slot(r)' = {},
         ReleaseAcquired(key[r], x)
  PROVE  AcquiredExact' /\ PerHostCovered'
<1>0. key[r] \in Keys
  BY DEF TypeOK
<1>1. acquiredPerHost' \in [Keys -> SUBSET (Tasks \cup Protos)]
  BY <1>0, ReleaseAcquiredType
<1>2. CASE closed
  BY <1>1, <1>2, AccountingStep DEF ReleaseAcquired, limitVars
<1>3. CASE ~closed
  <2>1. acquired' = acquired \ {x}
    BY <1>3 DEF ReleaseAcquired
  <2>2. ASSUME LimitPerHost # 0, NEW h \in Keys
        PROVE  acquiredPerHost'[h] = acquiredPerHost[h] \ {x}
    <3>1. acquiredPerHost' = [acquiredPerHost EXCEPT ![key[r]] = @ \ {x}]
      BY <1>3, <2>2 DEF ReleaseAcquired
    <3>2. CASE h = key[r]
      BY <3>1, <3>2 DEF TypeOK
    <3>3. CASE h # key[r]
      <4>1. acquiredPerHost[h] = InUse(h)
        BY <1>3, <2>2 DEF AcquiredExact
      <4>2. acquiredPerHost'[h] = acquiredPerHost[h]
        BY <3>1, <3>3 DEF TypeOK
      <4> QED
        BY <3>3, <4>1, <4>2, SlotOnlyHere
    <3> QED
      BY <3>2, <3>3
  <2> QED
    BY <1>1, <1>3, <2>1, <2>2, AccountingStep
<1> QED
  BY <1>2, <1>3

\* The placeholder of r gives way to p.
LEMMA AccountingEstablish ==
  ASSUME TypeOK, ExclusiveOwnership, AcquiredExact, PerHostCovered,
         NEW r \in Tasks, NEW p \in Protos, Establish(r, p), Opener(r), ~closed,
         UNCHANGED <<closed, key>>
  PROVE  AcquiredExact' /\ PerHostCovered'
<1>0. key[r] \in Keys
  BY DEF TypeOK
<1>1. Slot(r) = {r} /\ Slot(r)' = {p}
  BY DEF Establish, Slot, Opener, PoolUser, TypeOK
<1>2. \A t \in Tasks \ {r} : pc'[t] = pc[t] /\ held'[t] = held[t]
  BY DEF Establish, TypeOK
<1>3. acquiredPerHost' \in [Keys -> SUBSET (Tasks \cup Protos)]
  BY EstablishType
<1>4. acquired' = (acquired \ {r}) \cup {p}
  BY DEF Establish
<1>5. ASSUME LimitPerHost # 0, NEW h \in Keys
      PROVE  acquiredPerHost'[h] =
               (acquiredPerHost[h] \ {r}) \cup (IF key[r] = h THEN {p} ELSE {})
  <2>1. acquiredPerHost' = [acquiredPerHost EXCEPT ![key[r]] = (@ \ {r}) \cup {p}]
    BY <1>5 DEF Establish
  <2>2. CASE h = key[r]
    BY <2>1, <2>2 DEF TypeOK
  <2>3. CASE h # key[r]
    <3>1. acquiredPerHost[h] = InUse(h)
      BY <1>5 DEF AcquiredExact
    <3>2. acquiredPerHost'[h] = acquiredPerHost[h]
      BY <2>1, <2>3 DEF TypeOK
    <3> QED
      BY <1>1, <2>3, <3>1, <3>2, SlotOnlyHere
  <2> QED
    BY <2>2, <2>3
<1> QED
  BY <1>1, <1>2, <1>3, <1>4, <1>5, AccountingStep

Accounting == AcquiredExact /\ PerHostCovered

LEMMA AccountingInit == Init => Accounting
<1> SUFFICES ASSUME Init PROVE Accounting
  OBVIOUS
<1>1. \A r \in Tasks : Slot(r) = {}
  BY DEF Init, Slot, Opener, PoolUser
<1>2. Occupied = {} /\ \A k \in Keys : InUse(k) = {}
  BY <1>1 DEF Occupied, InUse
<1> QED
  BY <1>2 DEF Init, Accounting, AcquiredExact, PerHostCovered

\* A call takes a connection from the pool, or a placeholder.
LEMMA AccountingGet ==
  ASSUME TypeOK, ExclusiveOwnership, Accounting, NEW r \in Tasks, NEW k \in Keys,
         GetHit(r, k) \/ (StartCreating(r, k) /\ held[r] = NoProto),
         pc[r] \in {"idle", "waiting"},
         \A t \in Tasks \ {r} : key'[t] = key[t], key'[r] = k, closed' = closed
  PROVE  Accounting'
<1>1. Slot(r) = {}
  BY DEF Slot, Opener, PoolUser
<1>2. CASE GetHit(r, k)
  <2>1. PICK p \in conns[k] :
          /\ Acquire(p, k) /\ held' = [held EXCEPT ![r] = p]
          /\ pc' = [pc EXCEPT ![r] = IF Traced THEN "reusing" ELSE "holding"]
    BY <1>2 DEF GetHit
  <2>2. p \in Protos
    BY DEF TypeOK
  <2>3. Slot(r)' = {p}
    BY <2>1 DEF Slot, Opener, PoolUser, TypeOK
  <2>4. \A t \in Tasks \ {r} : pc'[t] = pc[t] /\ held'[t] = held[t]
    BY <2>1 DEF TypeOK
  <2> QED
    BY <1>1, <2>1, <2>2, <2>3, <2>4, AccountingAcquire DEF Accounting
<1>3. CASE StartCreating(r, k)
  <2>1. Acquire(r, k) /\ held' = held /\ pc' = [pc EXCEPT ![r] = "creating"]
    BY <1>3 DEF StartCreating
  <2>2. Slot(r)' = {r}
    BY <2>1 DEF Slot, Opener, TypeOK
  <2>3. \A t \in Tasks \ {r} : pc'[t] = pc[t] /\ held'[t] = held[t]
    BY <2>1 DEF TypeOK
  <2> QED
    BY <1>1, <2>1, <2>2, <2>3, AccountingAcquire DEF Accounting
<1> QED
  BY <1>2, <1>3

\* A step in which slots do not change.
LEMMA AccountingQuiet ==
  ASSUME TypeOK, Accounting, UNCHANGED <<acquired, acquiredPerHost, closed>>,
         \A t \in Tasks : Slot(t)' = Slot(t) /\ (Slot(t) # {} => key'[t] = key[t])
  PROVE  Accounting'
<1>1. Occupied' = Occupied
  BY DEF Occupied
<1>2. \A k \in Keys : InUse(k)' = InUse(k)
  <2>1. ASSUME NEW k \in Keys, NEW x PROVE x \in InUse(k)' <=> x \in InUse(k)
    BY DEF InUse
  <2> QED
    BY <2>1
<1> QED
  BY <1>1, <1>2 DEF Accounting, AcquiredExact, PerHostCovered

LEMMA AccountingConnect ==
  ASSUME TypeOK, ExclusiveOwnership, Accounting, NEW r \in Tasks, NEW k \in Keys,
         ConnectReuse(r, k) \/ ConnectCreate(r, k) \/ ConnectWait(r, k)
  PROVE  Accounting'
<1>1. /\ key'[r] = k /\ closed' = closed /\ held[r] = NoProto /\ pc[r] = "idle"
      /\ \A t \in Tasks \ {r} : key'[t] = key[t]
  BY DEF ConnectReuse, ConnectCreate, ConnectWait, Unaffected, TypeOK
<1>2. CASE ConnectReuse(r, k) \/ ConnectCreate(r, k)
  BY <1>1, <1>2, AccountingGet DEF ConnectReuse, ConnectCreate
<1>3. CASE ConnectWait(r, k)
  <2>1. UNCHANGED <<acquired, acquiredPerHost, held>> /\ pc' = [pc EXCEPT ![r] = "waiting"]
    BY <1>3 DEF ConnectWait, limitVars
  <2>2. \A t \in Tasks : Slot(t)' = Slot(t) /\ (Slot(t) # {} => t # r)
    BY <1>1, <2>1 DEF Slot, Opener, PoolUser, TypeOK
  <2> QED
    BY <1>1, <2>1, <2>2, AccountingQuiet
<1> QED
  BY <1>2, <1>3

LEMMA AccountingWake ==
  ASSUME TypeOK, ExclusiveOwnership, Accounting, NEW r \in Tasks, Wake(r)
  PROVE  Accounting'
<1>1. /\ key' = key /\ closed' = closed /\ held[r] = NoProto /\ pc[r] = "waiting"
      /\ key[r] \in Keys
  BY DEF Wake, WaitCancelled, WaitAgain, WaitDone, Unaffected, taskVars, TypeOK
<1>2. CASE WaitCancelled(r)
  <2>1. UNCHANGED <<acquired, acquiredPerHost>> /\ EndCall(r)
    BY <1>2 DEF WaitCancelled, limitVars
  <2>2. \A t \in Tasks : Slot(t)' = Slot(t)
    BY <1>1, <2>1 DEF EndCall, Slot, Opener, PoolUser, TypeOK
  <2> QED
    BY <1>1, <2>1, <2>2, AccountingQuiet
<1>3. CASE WaitAgain(r)
  <2>1. UNCHANGED <<acquired, acquiredPerHost, pc, held>>
    BY <1>3 DEF WaitAgain, limitVars, taskVars
  <2>2. \A t \in Tasks : Slot(t)' = Slot(t)
    BY <2>1 DEF Slot, Opener, PoolUser
  <2> QED
    BY <1>1, <2>1, <2>2, AccountingQuiet
<1>4. CASE WaitDone(r)
  BY <1>1, <1>4, AccountingGet DEF WaitDone
<1> QED
  BY <1>2, <1>3, <1>4 DEF Wake

\* A call ends and gives up what it has in use.
LEMMA AccountingEnd ==
  ASSUME TypeOK, ExclusiveOwnership, Accounting, NEW r \in Tasks, NEW x,
         Slot(r) = {x}, ReleaseAcquired(key[r], x), EndCall(r), UNCHANGED <<closed, key>>
  PROVE  Accounting'
<1>1. \A t \in Tasks \ {r} : pc'[t] = pc[t] /\ held'[t] = held[t]
  BY DEF EndCall, TypeOK
<1>2. Slot(r)' = {}
  BY DEF EndCall, Slot, Opener, PoolUser, TypeOK
<1> QED
  BY <1>1, <1>2, AccountingRelease DEF Accounting

LEMMA AccountingCreate ==
  ASSUME TypeOK, ExclusiveOwnership, Accounting, NEW r \in Tasks, Create(r)
  PROVE  Accounting'
<1>0. Opener(r) /\ Slot(r) = {r} /\ UNCHANGED <<closed, key>> /\ key[r] \in Keys
  BY DEF Create, Created, CreateTraceEnd, CreateFail, Opener, Slot, TypeOK
<1>1. ASSUME UNCHANGED <<limitVars>>, EndCall(r), closed
      PROVE  Accounting'
  <2>1. \A t \in Tasks \ {r} : pc'[t] = pc[t] /\ held'[t] = held[t]
    BY <1>1 DEF EndCall, TypeOK
  <2>2. Slot(r)' = {}
    BY <1>1 DEF EndCall, Slot, Opener, PoolUser, TypeOK
  <2>3. acquiredPerHost' = acquiredPerHost /\ acquired' = acquired
    BY <1>1 DEF limitVars
  <2> QED
    BY <1>0, <1>1, <2>1, <2>2, <2>3, AccountingStep DEF Accounting, TypeOK
<1>2. CASE Created(r)
  <2>1. PICK p \in Protos :
             \/ /\ held' = [held EXCEPT ![r] = p]
                /\ pc' = [pc EXCEPT ![r] = "created"]
                /\ UNCHANGED limitVars
             \/ ~closed /\ Establish(r, p)
             \/ closed /\ EndCall(r) /\ UNCHANGED limitVars
    BY <1>2 DEF Created
  <2>2. CASE /\ held' = [held EXCEPT ![r] = p]
             /\ pc' = [pc EXCEPT ![r] = "created"]
             /\ UNCHANGED limitVars
    <3>1. \A t \in Tasks : Slot(t)' = Slot(t)
      BY <1>0, <2>2 DEF Slot, Opener, PoolUser, TypeOK
    <3> QED
      BY <1>0, <2>2, <3>1, AccountingQuiet DEF limitVars
  <2>3. CASE ~closed /\ Establish(r, p)
    BY <1>0, <2>3, AccountingEstablish DEF Accounting
  <2> QED
    BY <1>1, <2>1, <2>2, <2>3
<1>3. CASE CreateTraceEnd(r)
  <2>1. held[r] \in Protos
    BY <1>3 DEF CreateTraceEnd, TypeOK
  <2>2. CASE ~closed /\ Establish(r, held[r])
    BY <1>0, <2>1, <2>2, AccountingEstablish DEF Accounting
  <2> QED
    BY <1>1, <1>3, <2>2 DEF CreateTraceEnd
<1>4. CASE CreateFail(r)
  BY <1>0, <1>4, AccountingEnd DEF CreateFail
<1> QED
  BY <1>2, <1>3, <1>4 DEF Create

LEMMA AccountingUse ==
  ASSUME TypeOK, ExclusiveOwnership, Accounting, NEW r \in Tasks,
         Reuse(r) \/ \E shouldClose \in BOOLEAN : Release(r, shouldClose)
  PROVE  Accounting'
<1>1. Slot(r) = {held[r]} /\ UNCHANGED <<closed, key>>
  BY DEF Reuse, ReuseTraceEnd, ReuseTraceFail, Release, Slot, Opener, PoolUser, TypeOK
<1>2. CASE ReuseTraceEnd(r)
  <2>1. \A t \in Tasks : Slot(t)' = Slot(t)
    BY <1>2 DEF ReuseTraceEnd, Slot, Opener, PoolUser, TypeOK
  <2> QED
    BY <1>1, <1>2, <2>1, AccountingQuiet DEF ReuseTraceEnd, limitVars
<1>3. CASE ReuseTraceFail(r)
  BY <1>1, <1>3, AccountingEnd DEF ReuseTraceFail
<1>4. CASE \E shouldClose \in BOOLEAN : Release(r, shouldClose)
  BY <1>1, <1>4, AccountingEnd DEF Release
<1> QED
  BY <1>2, <1>3, <1>4 DEF Reuse

LEMMA AccountingNext ==
  TypeOK /\ ExclusiveOwnership /\ Accounting /\ [Next]_vars => Accounting'
<1> SUFFICES ASSUME TypeOK, ExclusiveOwnership, Accounting, [Next]_vars PROVE Accounting'
  OBVIOUS
<1>1. ASSUME UNCHANGED <<closed, limitVars, taskVars>> PROVE Accounting'
  <2>1. \A t \in Tasks : Slot(t)' = Slot(t)
    BY <1>1 DEF Slot, Opener, PoolUser, taskVars
  <2> QED
    BY <1>1, <2>1, AccountingQuiet DEF taskVars, limitVars
<1>2. CASE CloseConnector
  <2>1. \A t \in Tasks : Slot(t)' = Slot(t)
    BY <1>2 DEF CloseConnector, Slot, Opener, PoolUser, taskVars
  <2>2. closed' /\ UNCHANGED <<key, held, acquiredPerHost>>
    BY <1>2 DEF CloseConnector, taskVars
  <2> QED
    BY <2>1, <2>2, AccountingStutters DEF Accounting
<1>3. CASE \/ \E r \in Tasks : CancelWait(r)
           \/ \E p \in Protos : Disconnect(p) \/ Expire(p)
           \/ Cleanup \/ CleanupClosed \/ UNCHANGED vars
  BY <1>1, <1>3 DEF CancelWait, Disconnect, Expire, Cleanup, CleanupClosed, vars
<1> QED
  BY <1>2, <1>3, AccountingConnect, AccountingWake, AccountingCreate, AccountingUse
     DEF Next, Connect

\* The sets the limits are computed from are exact while the connector is open.
THEOREM AccountingCorrect == Spec => []AcquiredExact
<1>1. TypeOK /\ ExclusiveOwnership /\ Accounting => AcquiredExact
  BY DEF Accounting
<1> QED
  BY <1>1, TypeInit, TypeNext, OwnershipInit, OwnershipNext, AccountingInit,
     AccountingNext, PTL DEF Spec

(* ------------------------------- limits -------------------------------- *)

\* Everything the pool counts is finite.
LEMMA CountedFinite ==
  ASSUME TypeOK, NEW k \in Keys
  PROVE  /\ IsFiniteSet(acquired) /\ IsFiniteSet(acquiredPerHost[k])
         /\ IsFiniteSet(acquiredPerHost[k] \cup conns[k])
         /\ Cardinality(acquired) \in Nat /\ Cardinality(acquiredPerHost[k]) \in Nat
         /\ Cardinality(acquiredPerHost[k] \cup conns[k]) \in Nat
<1>1. IsFiniteSet(Tasks \cup Protos)
  BY FS_Union, ConnectorAssumption
<1>2. /\ acquired \subseteq Tasks \cup Protos /\ acquiredPerHost[k] \subseteq Tasks \cup Protos
      /\ acquiredPerHost[k] \cup conns[k] \subseteq Tasks \cup Protos
  BY DEF TypeOK
<1>3. /\ IsFiniteSet(acquired) /\ IsFiniteSet(acquiredPerHost[k])
      /\ IsFiniteSet(acquiredPerHost[k] \cup conns[k])
  BY <1>1, <1>2, FS_Subset
<1> QED
  BY <1>3, FS_CardinalityType

\* A positive answer of _available_connections leaves room under each limit.
LEMMA AvailableMeansRoom ==
  ASSUME TypeOK, NEW k \in Keys, Available(k) > 0
  PROVE  /\ Limit # 0 => Cardinality(acquired) < Limit
         /\ LimitPerHost # 0 => Cardinality(acquiredPerHost[k]) < LimitPerHost
<1> DEFINE used == Cardinality(acquired)
           hostUsed == Cardinality(acquiredPerHost[k])
<1>1. used \in Nat /\ hostUsed \in Nat /\ Limit \in Nat /\ LimitPerHost \in Nat
  BY CountedFinite, ConnectorAssumption
<1>2. Available(k) =
        LET total == IF Limit = 0 THEN 1 ELSE Limit - used
            host  == LimitPerHost - hostUsed
        IN  IF Limit # 0 /\ total <= 0 THEN total
            ELSE IF LimitPerHost # 0 /\ total > host THEN host
            ELSE total
  BY DEF Available, AvailableConnections
<1> SUFFICES /\ Limit # 0 => used < Limit
             /\ LimitPerHost # 0 => hostUsed < LimitPerHost
  OBVIOUS
<1> HIDE DEF used, hostUsed
<1>3. CASE Limit = 0
  BY <1>1, <1>2, <1>3
<1>4. CASE Limit # 0
  <2>1. Limit - used > 0
    BY <1>1, <1>2, <1>4
  <2>2. LimitPerHost # 0 => LimitPerHost - hostUsed > 0
    BY <1>1, <1>2, <1>4, <2>1
  <2> QED
    BY <1>1, <2>1, <2>2
<1> QED
  BY <1>3, <1>4

\* One more element makes a finite set larger by one at most.
LEMMA AddBound ==
  ASSUME NEW S, NEW x, IsFiniteSet(S)
  PROVE  /\ IsFiniteSet(S \cup {x}) /\ Cardinality(S) \in Nat
         /\ Cardinality(S \cup {x}) \in Nat
         /\ Cardinality(S \cup {x}) <= Cardinality(S) + 1
<1>1. IsFiniteSet(S \cup {x}) /\ Cardinality(S) \in Nat
  BY FS_AddElement, FS_CardinalityType
<1>2. Cardinality(S \cup {x}) \in Nat
  BY <1>1, FS_CardinalityType
<1>3. CASE x \in S
  <2>1. S \cup {x} = S
    BY <1>3
  <2>2. Cardinality(S \cup {x}) = Cardinality(S)
    BY <2>1
  <2> QED
    BY <1>1, <1>2, <2>2
<1>4. CASE x \notin S
  <2>1. Cardinality(S \cup {x}) = Cardinality(S) + 1
    BY <1>4, FS_AddElement
  <2> QED
    BY <1>1, <1>2, <2>1
<1> QED
  BY <1>3, <1>4

\* Steps that open nothing.
LEMMA BoundedShrinks ==
  ASSUME TypeOK, PerHostBounded,
         LimitPerHost # 0 => \A k \in Keys :
           acquiredPerHost'[k] \cup conns'[k] \subseteq acquiredPerHost[k] \cup conns[k]
  PROVE  PerHostBounded'
<1> SUFFICES ASSUME LimitPerHost # 0, NEW k \in Keys
             PROVE  Cardinality(acquiredPerHost'[k] \cup conns'[k]) <= LimitPerHost
  BY DEF PerHostBounded
<1> DEFINE S == acquiredPerHost[k] \cup conns[k]
           T == acquiredPerHost'[k] \cup conns'[k]
<1>1. IsFiniteSet(S) /\ Cardinality(S) \in Nat /\ Cardinality(S) <= LimitPerHost
  BY CountedFinite DEF PerHostBounded
<1>2. T \in SUBSET S
  OBVIOUS
<1>3. IsFiniteSet(T) /\ Cardinality(T) <= Cardinality(S) /\ Cardinality(T) \in Nat
  BY <1>1, <1>2, FS_Subset, FS_CardinalityType
<1> QED
  BY <1>1, <1>3, ConnectorAssumption

\* A placeholder is added for k, when the idle connections of k are gone.
LEMMA BoundedOpens ==
  ASSUME TypeOK, PerHostBounded, NEW r \in Tasks, NEW k \in Keys,
         Available(k) > 0, GetMiss(k), Acquire(r, k)
  PROVE  PerHostBounded'
<1> SUFFICES ASSUME LimitPerHost # 0, NEW h \in Keys
             PROVE  Cardinality(acquiredPerHost'[h] \cup conns'[h]) <= LimitPerHost
  BY DEF PerHostBounded
<1>1. /\ acquiredPerHost' = [acquiredPerHost EXCEPT ![k] = @ \cup {r}]
      /\ conns' = [conns EXCEPT ![k] = {}]
  BY DEF GetMiss, Acquire
<1>2. CASE h = k
  <2>1. acquiredPerHost'[h] \cup conns'[h] = acquiredPerHost[k] \cup {r}
    BY <1>1, <1>2 DEF TypeOK
  <2> DEFINE S == acquiredPerHost[k]
             T == acquiredPerHost'[h] \cup conns'[h]
  <2>2. IsFiniteSet(S) /\ Cardinality(S) < LimitPerHost
    BY AvailableMeansRoom, CountedFinite
  <2>3. T = S \cup {r}
    BY <2>1
  <2> SUFFICES Cardinality(T) <= LimitPerHost
    OBVIOUS
  <2> HIDE DEF S, T
  <2>4. /\ Cardinality(S) \in Nat /\ Cardinality(T) \in Nat
        /\ Cardinality(T) <= Cardinality(S) + 1
    BY <2>2, <2>3, AddBound
  <2> QED
    BY <2>2, <2>4, ConnectorAssumption
<1>3. CASE h # k
  <2>1. acquiredPerHost'[h] \cup conns'[h] = acquiredPerHost[h] \cup conns[h]
    BY <1>1, <1>3 DEF TypeOK
  <2> QED
    BY <2>1 DEF PerHostBounded
<1> QED
  BY <1>2, <1>3

\* An idle connection becomes a used one: it was counted already.
LEMMA BoundedReuses ==
  ASSUME TypeOK, PerHostBounded, NEW r \in Tasks, NEW k \in Keys, GetHit(r, k)
  PROVE  PerHostBounded'
<1>1. PICK p \in conns[k], skipped \in SUBSET conns[k] :
        conns' = PopIdle(k, skipped \cup {p}) /\ Acquire(p, k)
  BY DEF GetHit
<1>2. \A h \in Keys : conns'[h] \subseteq conns[h]
  BY <1>1 DEF PopIdle, TypeOK
<1>3. LimitPerHost # 0 => \A h \in Keys :
        acquiredPerHost'[h] = (IF h = k THEN acquiredPerHost[h] \cup {p} ELSE acquiredPerHost[h])
  BY <1>1 DEF Acquire, TypeOK
<1> QED
  BY <1>2, <1>3, BoundedShrinks

\* The protocol takes the place of the placeholder, which was counted.
LEMMA BoundedEstablish ==
  ASSUME TypeOK, PerHostCovered, PerHostBounded,
         NEW r \in Tasks, NEW p \in Protos, Opener(r), Establish(r, p), conns' = conns
  PROVE  PerHostBounded'
<1> SUFFICES ASSUME LimitPerHost # 0, NEW h \in Keys
             PROVE  Cardinality(acquiredPerHost'[h] \cup conns'[h]) <= LimitPerHost
  BY DEF PerHostBounded
<1>1. acquiredPerHost' = [acquiredPerHost EXCEPT ![key[r]] = (@ \ {r}) \cup {p}]
  BY DEF Establish
<1>2. CASE h # key[r]
  <2>1. acquiredPerHost'[h] \cup conns'[h] = acquiredPerHost[h] \cup conns[h]
    BY <1>1, <1>2 DEF TypeOK
  <2> QED
    BY <2>1 DEF PerHostBounded
<1>3. CASE h = key[r]
  <2> DEFINE S == acquiredPerHost[h] \cup conns[h]
             T == acquiredPerHost'[h] \cup conns'[h]
             R == S \ {r}
  <2>1. r \in S
    <3>1. r \in Slot(r)
      BY DEF Slot
    <3>2. r \in InUse(h)
      BY <1>3, <3>1 DEF InUse
    <3> QED
      BY <3>2 DEF PerHostCovered
  <2>2. r \notin conns[h]
    BY ConnectorAssumption DEF TypeOK
  <2>3. T = R \cup {p}
    BY <1>1, <1>3, <2>2 DEF TypeOK
  <2>4. IsFiniteSet(S) /\ Cardinality(S) \in Nat /\ Cardinality(S) <= LimitPerHost
    BY CountedFinite DEF PerHostBounded
  <2> SUFFICES Cardinality(T) <= LimitPerHost
    OBVIOUS
  <2> HIDE DEF S, T
  <2>5. IsFiniteSet(R) /\ Cardinality(R) = Cardinality(S) - 1
    BY <2>1, <2>4, FS_RemoveElement
  <2> HIDE DEF R
  <2>6. /\ Cardinality(R) \in Nat /\ Cardinality(T) \in Nat
        /\ Cardinality(T) <= Cardinality(R) + 1
    BY <2>3, <2>5, AddBound
  <2> QED
    BY <2>4, <2>5, <2>6, ConnectorAssumption
<1> QED
  BY <1>2, <1>3

LEMMA BoundedInit == Init => PerHostBounded
<1> SUFFICES ASSUME Init, NEW k \in Keys
             PROVE  Cardinality(acquiredPerHost[k] \cup conns[k]) <= LimitPerHost
  BY DEF PerHostBounded
<1>1. acquiredPerHost[k] \cup conns[k] = {}
  BY DEF Init
<1> QED
  BY <1>1, FS_EmptySet, ConnectorAssumption

\* Releasing what a call has in use never adds to a host's set.
LEMMA ReleaseAcquiredShrinks ==
  ASSUME TypeOK, NEW k \in Keys, NEW x, ReleaseAcquired(k, x)
  PROVE  \A h \in Keys : acquiredPerHost'[h] \subseteq acquiredPerHost[h]
<1>1. CASE acquiredPerHost' = acquiredPerHost
  BY <1>1
<1>2. CASE acquiredPerHost' = [acquiredPerHost EXCEPT ![k] = @ \ {x}]
  <2>1. \A h \in Keys : acquiredPerHost'[h] =
          (IF h = k THEN acquiredPerHost[h] \ {x} ELSE acquiredPerHost[h])
    BY <1>2 DEF TypeOK
  <2> QED
    BY <2>1
<1>3. \/ acquiredPerHost' = acquiredPerHost
      \/ acquiredPerHost' = [acquiredPerHost EXCEPT ![k] = @ \ {x}]
  <2>1. CASE closed
    BY <2>1 DEF ReleaseAcquired, limitVars
  <2>2. CASE ~closed
    BY <2>2 DEF ReleaseAcquired
  <2> QED
    BY <2>1, <2>2
<1> QED
  BY <1>1, <1>2, <1>3

LEMMA BoundedNext ==
  TypeOK /\ Accounting /\ PerHostBounded /\ [Next]_vars => PerHostBounded'
<1> SUFFICES ASSUME TypeOK, Accounting, PerHostBounded, [Next]_vars PROVE PerHostBounded'
  OBVIOUS
<1>1. ASSUME acquiredPerHost' = acquiredPerHost, \A k \in Keys : conns'[k] \subseteq conns[k]
      PROVE  PerHostBounded'
  BY <1>1, BoundedShrinks
<1>2. ASSUME NEW r \in Tasks, NEW k \in Keys,
             ConnectReuse(r, k) \/ ConnectCreate(r, k) \/ ConnectWait(r, k)
      PROVE  PerHostBounded'
  <2>1. CASE ConnectReuse(r, k)
    BY <2>1, BoundedReuses DEF ConnectReuse
  <2>2. CASE ConnectCreate(r, k)
    BY <2>2, BoundedOpens DEF ConnectCreate, StartCreating
  <2>3. CASE ConnectWait(r, k)
    <3>1. acquiredPerHost' = acquiredPerHost /\ conns' = [conns EXCEPT ![k] = {}]
      BY <2>3 DEF ConnectWait, GetMiss, limitVars
    <3>2. \A h \in Keys : conns'[h] \subseteq conns[h]
      BY <3>1 DEF TypeOK
    <3> QED
      BY <1>1, <3>1, <3>2
  <2> QED
    BY <1>2, <2>1, <2>2, <2>3
<1>3. ASSUME NEW r \in Tasks, Wake(r)
      PROVE  PerHostBounded'
  <2>1. CASE WaitCancelled(r) \/ WaitAgain(r)
    BY <1>1, <2>1 DEF WaitCancelled, WaitAgain, limitVars, poolVars
  <2>2. CASE WaitDone(r)
    <3>1. key[r] \in Keys /\ Available(key[r]) > 0
      BY <2>2 DEF WaitDone, SlotStillFree, TypeOK
    <3> QED
      BY <2>2, <3>1, BoundedReuses, BoundedOpens DEF WaitDone, StartCreating
  <2> QED
    BY <1>3, <2>1, <2>2 DEF Wake
<1>4. ASSUME NEW r \in Tasks, Create(r)
      PROVE  PerHostBounded'
  <2>1. Opener(r) /\ conns' = conns /\ key[r] \in Keys
    BY <1>4 DEF Create, Created, CreateTraceEnd, CreateFail, Opener, poolVars, TypeOK
  <2>2. CASE Created(r)
    <3>1. PICK p \in Protos : Establish(r, p) \/ UNCHANGED limitVars
      BY <2>2 DEF Created
    <3>2. CASE Establish(r, p)
      BY <2>1, <3>2, BoundedEstablish DEF Accounting
    <3>3. CASE UNCHANGED limitVars
      BY <1>1, <2>1, <3>3 DEF limitVars
    <3> QED
      BY <3>1, <3>2, <3>3
  <2>3. CASE CreateTraceEnd(r)
    <3>1. held[r] \in Protos
      BY <2>3 DEF CreateTraceEnd, TypeOK
    <3>2. Establish(r, held[r]) \/ UNCHANGED limitVars
      BY <2>3 DEF CreateTraceEnd
    <3>3. CASE Establish(r, held[r])
      BY <2>1, <3>1, <3>3, BoundedEstablish DEF Accounting
    <3>4. CASE UNCHANGED limitVars
      BY <1>1, <2>1, <3>4 DEF limitVars
    <3> QED
      BY <3>2, <3>3, <3>4
  <2>4. CASE CreateFail(r)
    BY <2>1, <2>4, ReleaseAcquiredShrinks, BoundedShrinks DEF CreateFail
  <2> QED
    BY <1>4, <2>2, <2>3, <2>4 DEF Create
<1>5. ASSUME NEW r \in Tasks, Reuse(r)
      PROVE  PerHostBounded'
  <2>1. CASE ReuseTraceEnd(r)
    BY <1>1, <2>1 DEF ReuseTraceEnd, limitVars, poolVars
  <2>2. CASE ReuseTraceFail(r)
    <3>1. key[r] \in Keys /\ conns' = conns /\ ReleaseAcquired(key[r], held[r])
      BY <2>2 DEF ReuseTraceFail, poolVars, TypeOK
    <3> QED
      BY <3>1, ReleaseAcquiredShrinks, BoundedShrinks
  <2> QED
    BY <1>5, <2>1, <2>2 DEF Reuse
<1>6. ASSUME NEW r \in Tasks, NEW shouldClose \in BOOLEAN, Release(r, shouldClose)
      PROVE  PerHostBounded'
  <2>1. ReleaseAcquired(key[r], held[r]) /\ key[r] \in Keys /\ PoolUser(r)
    BY <1>6 DEF Release, PoolUser, TypeOK
  <2>2. \A h \in Keys : acquiredPerHost'[h] \subseteq acquiredPerHost[h]
    BY <2>1, ReleaseAcquiredShrinks
  <2>3. CASE conns' = conns
    BY <2>2, <2>3, BoundedShrinks
  <2>4. CASE conns' = [conns EXCEPT ![key[r]] = @ \cup {held[r]}]
    <3>1. held[r] \in Slot(r)
      BY <2>1 DEF Slot, PoolUser, Opener
    <3>2. held[r] \in InUse(key[r])
      BY <3>1 DEF InUse
    <3>3. LimitPerHost # 0 => held[r] \in acquiredPerHost[key[r]]
      BY <2>1, <3>2 DEF Accounting, PerHostCovered
    <3>4. \A h \in Keys :
            conns'[h] = (IF h = key[r] THEN conns[h] \cup {held[r]} ELSE conns[h])
      BY <2>4 DEF TypeOK
    <3>5. ASSUME LimitPerHost # 0, NEW h \in Keys
          PROVE  acquiredPerHost'[h] \cup conns'[h] \subseteq acquiredPerHost[h] \cup conns[h]
      <4>1. acquiredPerHost'[h] \subseteq acquiredPerHost[h]
        BY <2>2
      <4>2. conns'[h] \subseteq acquiredPerHost[h] \cup conns[h]
        BY <3>3, <3>4, <3>5
      <4> QED
        BY ONLY <4>1, <4>2
    <3> QED
      BY <3>5, BoundedShrinks
  <2> QED
    BY <1>6, <2>3, <2>4 DEF Release, poolVars
<1>7. CASE \/ \E r \in Tasks : CancelWait(r)
           \/ \E p \in Protos : Disconnect(p) \/ Expire(p)
           \/ CleanupClosed \/ UNCHANGED vars
  BY <1>1, <1>7 DEF CancelWait, Disconnect, Expire, CleanupClosed, vars, poolVars, limitVars
<1>8. CASE Cleanup
  <2>1. PICK dead : conns' = [k \in Keys |-> conns[k] \ dead]
    BY <1>8 DEF Cleanup
  <2> QED
    BY <1>1, <1>8, <2>1 DEF Cleanup, limitVars
<1>9. CASE CloseConnector
  BY <1>1, <1>9 DEF CloseConnector
<1> QED
  BY <1>2, <1>3, <1>4, <1>5, <1>6, <1>7, <1>8, <1>9 DEF Next, Connect

\* limit_per_host bounds what is in use and idle for every host.
THEOREM PerHostLimitCorrect == Spec => []PerHostLimit
<1>1. TypeOK /\ Accounting /\ PerHostBounded => PerHostLimit
  <2> SUFFICES ASSUME TypeOK, Accounting, PerHostBounded, LimitPerHost # 0, NEW k \in Keys
               PROVE  Cardinality(InUse(k) \cup conns[k]) <= LimitPerHost
    BY DEF PerHostLimit
  <2> DEFINE S == acquiredPerHost[k] \cup conns[k]
             T == InUse(k) \cup conns[k]
  <2>1. IsFiniteSet(S) /\ Cardinality(S) \in Nat /\ Cardinality(S) <= LimitPerHost
    BY CountedFinite DEF PerHostBounded
  <2>2. T \in SUBSET S
    BY DEF Accounting, PerHostCovered
  <2>3. IsFiniteSet(T) /\ Cardinality(T) <= Cardinality(S) /\ Cardinality(T) \in Nat
    BY <2>1, <2>2, FS_Subset, FS_CardinalityType
  <2> QED
    BY <2>1, <2>3, ConnectorAssumption
<1> QED
  BY <1>1, TypeInit, TypeNext, OwnershipInit, OwnershipNext, AccountingInit,
     AccountingNext, BoundedInit, BoundedNext, PTL DEF Spec

\* Every new connection is started within the total limit.
THEOREM OpensUnderLimitCorrect == Spec => OpensUnderLimit
<1> DEFINE Step(r) == pc[r] # "creating" /\ pc'[r] = "creating" /\ Limit # 0
                        => Cardinality(acquired') <= Limit
<1>1. ASSUME TypeOK, Limit # 0, NEW s \in Tasks, NEW k \in Keys,
             Available(k) > 0, Acquire(s, k)
      PROVE  Cardinality(acquired') <= Limit
  <2>1. IsFiniteSet(acquired) /\ Cardinality(acquired) < Limit
    BY <1>1, CountedFinite, AvailableMeansRoom
  <2>2. acquired' = acquired \cup {s}
    BY <1>1 DEF Acquire
  <2>3. /\ Cardinality(acquired) \in Nat /\ Cardinality(acquired') \in Nat
        /\ Cardinality(acquired') <= Cardinality(acquired) + 1
    BY <2>1, <2>2, AddBound
  <2> QED
    BY <2>1, <2>3, ConnectorAssumption
<1>2. ASSUME TypeOK, [Next]_vars, NEW r \in Tasks,
             pc[r] # "creating", pc'[r] = "creating", Limit # 0
      PROVE  Cardinality(acquired') <= Limit
  <2>1. CASE \E k \in Keys : ConnectCreate(r, k)
    BY <1>1, <1>2, <2>1 DEF ConnectCreate, StartCreating
  <2>2. CASE WaitDone(r) /\ StartCreating(r, key[r])
    <3>1. key[r] \in Keys /\ Available(key[r]) > 0 /\ Acquire(r, key[r])
      BY <1>2, <2>2 DEF WaitDone, SlotStillFree, StartCreating, TypeOK
    <3> QED
      BY <1>1, <1>2, <3>1
  <2>3. \/ \E k \in Keys : ConnectCreate(r, k)
        \/ WaitDone(r) /\ StartCreating(r, key[r])
    <3>1. pc \in [Tasks -> {"idle", "waiting", "reusing", "creating", "created",
                            "holding", "done"}]
      BY <1>2 DEF TypeOK
    <3>2. PICK s \in Tasks : \/ \E k \in Keys : ConnectCreate(s, k)
                             \/ WaitDone(s) /\ StartCreating(s, key[s])
      <4>1. ASSUME UNCHANGED pc PROVE FALSE
        BY <1>2, <4>1
      <4>2. ASSUME NEW s \in Tasks, NEW v, v # "creating", pc' = [pc EXCEPT ![s] = v]
            PROVE  FALSE
        BY <1>2, <3>1, <4>2
      <4>3. ASSUME NEW s \in Tasks, EndCall(s) PROVE FALSE
        <5> DEFINE v == IF Reconnect THEN "idle" ELSE "done"
        <5>1. v # "creating" /\ pc' = [pc EXCEPT ![s] = v]
          BY <4>3 DEF EndCall
        <5> HIDE DEF v
        <5> QED
          BY <4>2, <5>1
      <4>4. ASSUME NEW s \in Tasks, NEW k \in Keys, GetHit(s, k) PROVE FALSE
        BY <4>2, <4>4 DEF GetHit
      <4>5. ASSUME NEW s \in Tasks, Connect(s)
            PROVE  \E k \in Keys : ConnectCreate(s, k)
        BY <4>2, <4>4, <4>5 DEF Connect, ConnectReuse, ConnectWait
      <4>6. ASSUME NEW s \in Tasks, Wake(s)
            PROVE  WaitDone(s) /\ StartCreating(s, key[s])
        <5>1. ~WaitCancelled(s)
          BY <4>3 DEF WaitCancelled
        <5>2. ~WaitAgain(s)
          BY <4>1 DEF WaitAgain, taskVars
        <5>3. key[s] \in Keys
          BY <1>2 DEF TypeOK
        <5> QED
          BY <4>4, <4>6, <5>1, <5>2, <5>3 DEF Wake, WaitDone
      <4>7. ASSUME NEW s \in Tasks, Create(s) PROVE FALSE
        BY <4>1, <4>2, <4>3, <4>7 DEF Create, Created, CreateTraceEnd, CreateFail, Establish
      <4>8. ASSUME NEW s \in Tasks, Reuse(s) PROVE FALSE
        BY <4>2, <4>3, <4>8 DEF Reuse, ReuseTraceEnd, ReuseTraceFail
      <4>9. ASSUME NEW s \in Tasks, NEW shouldClose \in BOOLEAN, Release(s, shouldClose)
            PROVE  FALSE
        BY <4>3, <4>9 DEF Release
      <4>10. ASSUME \/ \E s \in Tasks : CancelWait(s)
                    \/ \E p \in Protos : Disconnect(p) \/ Expire(p)
                    \/ Cleanup \/ CleanupClosed \/ CloseConnector \/ UNCHANGED vars
             PROVE  FALSE
        BY <4>1, <4>10
           DEF CancelWait, Disconnect, Expire, Cleanup, CleanupClosed, CloseConnector, vars, taskVars
      <4> QED
        BY <1>2, <4>5, <4>6, <4>7, <4>8, <4>9, <4>10 DEF Next
    <3>3. pc' = [pc EXCEPT ![s] = "creating"]
      BY <3>2 DEF ConnectCreate, StartCreating
    <3>4. s = r
      BY <1>2, <3>1, <3>3
    <3> QED
      BY <3>2, <3>4
  <2> QED
    BY <2>1, <2>2, <2>3
<1>3. TypeOK /\ [Next]_vars => [\A r \in Tasks : Step(r)]_vars
  BY <1>2
<1> QED
  BY <1>3, TypeInit, TypeNext, PTL DEF Spec, OpensUnderLimit

(* ------------------------- who is in the queues ------------------------ *)

\* QueueOK, by members instead of positions.
OnlyWaiting == \A k \in Keys, t \in Tasks : In(waiters[k], t) => pc[t] = "waiting" /\ key[t] = k
NobodyTwice == \A k \in Keys : Once(waiters[k])
NobodyMissing == \A t \in Tasks : fut[t] = "pending" => In(waiters[key[t]], t)
Queues == OnlyWaiting /\ NobodyTwice /\ NobodyMissing

LEMMA QueueOKByMembers == TypeOK => (QueueOK <=> Queues)
<1> SUFFICES ASSUME TypeOK PROVE QueueOK <=> Queues
  OBVIOUS
<1>1. \A k \in Keys : \A i \in DOMAIN waiters[k] : waiters[k][i] \in Tasks
  BY ElementOfSeq, LenProperties DEF TypeOK
<1>2. OnlyWaiting <=> \A k \in Keys : \A i \in DOMAIN waiters[k] :
        pc[waiters[k][i]] = "waiting" /\ key[waiters[k][i]] = k
  BY <1>1 DEF OnlyWaiting, In
<1> QED BY <1>2 DEF QueueOK, Queues, NobodyTwice, NobodyMissing, Once, In

\* Taking the own future out of its queue.
LEMMA PopWaiterRemoves ==
  ASSUME TypeOK, NobodyTwice, NEW r \in Tasks
  PROVE  /\ PopWaiter(r) \in Seq(Tasks) /\ Once(PopWaiter(r))
         /\ \A t : In(PopWaiter(r), t) <=> In(waiters[key[r]], t) /\ t # r
<1> DEFINE q == waiters[key[r]]
<1>1. q \in Seq(Tasks) /\ Once(q)
  BY DEF TypeOK, NobodyTwice
<1>2. CASE ~In(q, r)
  BY <1>1, <1>2, PopWaiterType DEF PopWaiter, In
<1>3. CASE In(q, r)
  <2> DEFINE i == CHOOSE j \in DOMAIN q : q[j] = r
  <2>1. i \in DOMAIN q /\ q[i] = r
    BY <1>3 DEF In
  <2>2. PopWaiter(r) = RemoveAt(q, i)
    BY <1>3 DEF PopWaiter, In
  <2> HIDE DEF i, q
  <2>3. Once(RemoveAt(q, i)) /\ \A t : In(RemoveAt(q, i), t) <=> In(q, t) /\ t # q[i]
    BY <1>1, <2>1, OnceRemove
  <2>4. \A t : In(PopWaiter(r), t) <=> In(q, t) /\ t # r
    BY <2>1, <2>2, <2>3
  <2> QED BY <2>2, <2>3, <2>4, PopWaiterType DEF q
<1> QED BY <1>2, <1>3

\* _release_waiter takes callers out of queues, but a pending one only if it
\* wakes it.
LEMMA ReleaseWaiterKeeps ==
  ASSUME TypeOK, Queues, NEW acq, NEW perHost, ReleaseWaiter(acq, perHost)
  PROVE  /\ \A k \in Keys : Once(waiters'[k]) /\ \A t : In(waiters'[k], t) => In(waiters[k], t)
         /\ \A t \in Tasks : fut'[t] = "pending" => fut[t] = "pending" /\ In(waiters'[key[t]], t)
<1>0. /\ \A k \in Keys : waiters[k] \in Seq(Tasks) /\ Once(waiters[k])
      /\ Once(<<>>) /\ \A t : ~In(<<>>, t)
      /\ key \in [Tasks -> Keys]
  BY DEF TypeOK, Queues, NobodyTwice, Once, In
\* Nobody is pending on an open host that is not live.
<1>1. ASSUME NEW t \in Tasks, fut[t] = "pending", key[t] \in OpenHosts(acq, perHost)
      PROVE  key[t] \in LiveHosts(acq, perHost)
  <2>1. PICK i \in DOMAIN waiters[key[t]] : waiters[key[t]][i] = t
    BY <1>1 DEF Queues, NobodyMissing, In
  <2>2. i \in Pending(key[t])
    BY <1>1, <2>1 DEF Pending
  <2> QED BY <1>0, <1>1, <2>2 DEF LiveHosts
<1>2. CASE WakeNobody(acq, perHost)
  <2>1. \A k \in Keys : waiters'[k] = IF k \in OpenHosts(acq, perHost) THEN <<>> ELSE waiters[k]
    BY <1>2 DEF WakeNobody
  <2>2. fut' = fut /\ LiveHosts(acq, perHost) = {}
    BY <1>2 DEF WakeNobody
  <2>3. \A k \in Keys : Once(waiters'[k]) /\ \A t : In(waiters'[k], t) => In(waiters[k], t)
    BY <1>0, <2>1
  <2>4. ASSUME NEW t \in Tasks, fut'[t] = "pending" PROVE fut[t] = "pending" /\ In(waiters'[key[t]], t)
    <3>1. key[t] \notin OpenHosts(acq, perHost) /\ In(waiters[key[t]], t)
      BY <1>1, <2>2, <2>4 DEF Queues, NobodyMissing
    <3> QED BY <1>0, <2>1, <2>2, <2>4, <3>1
  <2> QED BY <2>3, <2>4
<1>3. ASSUME NEW k \in LiveHosts(acq, perHost), NEW i \in Pending(k),
             NEW drained \in SUBSET (OpenHosts(acq, perHost) \ LiveHosts(acq, perHost)),
             WakeFirst(k, i, drained)
      PROVE  /\ \A h \in Keys : Once(waiters'[h]) /\ \A t : In(waiters'[h], t) => In(waiters[h], t)
             /\ \A t \in Tasks : fut'[t] = "pending" => fut[t] = "pending" /\ In(waiters'[key[t]], t)
  <2>1. /\ k \in Keys /\ i \in DOMAIN waiters[k] /\ \A j \in Pending(k) : i <= j
        /\ i \in Nat /\ \A j \in DOMAIN waiters[k] : j \in Nat
    <3>1. k \in Keys /\ i \in DOMAIN waiters[k] /\ \A j \in Pending(k) : i <= j
      BY <1>3 DEF WakeFirst, LiveHosts, OpenHosts, Pending
    <3> QED BY <1>0, <3>1, LenProperties
  <2> DEFINE rest == SubSeq(waiters[k], i + 1, Len(waiters[k]))
  <2>2. \A h \in Keys : waiters'[h] =
          IF h = k THEN rest ELSE IF h \in drained THEN <<>> ELSE waiters[h]
    BY <1>3 DEF WakeFirst
  <2>3. waiters[k][i] \in Tasks /\ fut' = [fut EXCEPT ![waiters[k][i]] = "result"]
    BY <1>0, <1>3, <2>1, ElementOfSeq, LenProperties DEF WakeFirst
  <2>4. /\ Once(rest) /\ \A t : In(rest, t) => In(waiters[k], t)
        /\ \A j \in DOMAIN waiters[k] : j > i => In(rest, waiters[k][j])
    BY <1>0, <2>1, OnceSuffix
  <2> HIDE DEF rest
  <2>5. \A h \in Keys : Once(waiters'[h]) /\ \A t : In(waiters'[h], t) => In(waiters[h], t)
    BY <1>0, <2>2, <2>4
  <2>6. ASSUME NEW t \in Tasks, fut'[t] = "pending" PROVE fut[t] = "pending" /\ In(waiters'[key[t]], t)
    <3>1. fut[t] = "pending" /\ t # waiters[k][i]
      BY <2>3, <2>6 DEF TypeOK
    <3>2. PICK j \in DOMAIN waiters[key[t]] : waiters[key[t]][j] = t
      BY <3>1 DEF Queues, NobodyMissing, In
    <3>3. CASE key[t] = k
      <4>1. j \in Pending(k)
        BY <3>1, <3>2, <3>3 DEF Pending
      <4>2. j > i
        BY <2>1, <3>1, <3>2, <3>3, <4>1
      <4> QED BY <2>1, <2>2, <2>4, <3>1, <3>2, <3>3, <4>2
    <3>4. CASE key[t] # k
      <4>1. key[t] \notin drained
        BY <1>1, <3>1
      <4> QED BY <1>0, <2>2, <3>1, <3>4, <4>1 DEF Queues, NobodyMissing
    <3> QED BY <3>3, <3>4
  <2> QED BY <2>5, <2>6
<1> QED BY <1>2, <1>3 DEF ReleaseWaiter

\* A step that takes callers out of queues and makes nobody pending.
LEMMA QueuesShrink ==
  ASSUME Queues, \A k \in Keys : Once(waiters'[k]) /\ \A t : In(waiters'[k], t) => In(waiters[k], t),
         \A t \in Tasks : fut'[t] = "pending" => fut[t] = "pending" /\ In(waiters'[key[t]], t) /\ key'[t] = key[t],
         \A k \in Keys, t \in Tasks :
           In(waiters'[k], t) /\ pc[t] = "waiting" => pc'[t] = "waiting" /\ key'[t] = key[t]
  PROVE  Queues'
BY DEF Queues, OnlyWaiting, NobodyTwice, NobodyMissing

\* A step that leaves the queues and the futures alone and every waiting
\* caller where it is.
LEMMA QueuesStay ==
  ASSUME TypeOK, Queues, UNCHANGED waitVars,
         \A t \in Tasks : pc[t] = "waiting" => pc'[t] = "waiting" /\ key'[t] = key[t]
  PROVE  Queues'
<1>1. \A t \in Tasks : fut[t] = "pending" => pc[t] = "waiting"
  BY DEF TypeOK
<1> QED BY <1>1 DEF Queues, OnlyWaiting, NobodyTwice, NobodyMissing, waitVars

\* A call ends and gives up its slot.
LEMMA QueuesRelease ==
  ASSUME TypeOK, Queues, NEW r \in Tasks, NEW k \in Keys, NEW x, ReleaseAcquired(k, x), EndCall(r),
         pc[r] # "waiting", key' = key
  PROVE  Queues'
<1>1. \A t \in Tasks : pc[t] = "waiting" => pc'[t] = "waiting" /\ key'[t] = key[t]
  BY DEF EndCall, TypeOK
<1>2. CASE closed
  BY <1>1, <1>2, QueuesStay DEF ReleaseAcquired
<1>3. CASE ~closed
  <2>1. ReleaseWaiter(acquired', acquiredPerHost')
    BY <1>3 DEF ReleaseAcquired
  <2> QED BY <1>1, <2>1, ReleaseWaiterKeeps, QueuesShrink
<1> QED BY <1>2, <1>3

\* A caller joins the queue of k.
LEMMA QueuesJoin ==
  ASSUME TypeOK, Queues, NEW r \in Tasks, NEW k \in Keys, ConnectWait(r, k)
  PROVE  Queues'
<1>1. /\ waiters' = [waiters EXCEPT ![k] = Append(@, r)]
      /\ fut' = [fut EXCEPT ![r] = "pending"]
      /\ pc' = [pc EXCEPT ![r] = "waiting"] /\ key' = [key EXCEPT ![r] = k] /\ pc[r] = "idle"
  BY DEF ConnectWait
<1>2. \A h \in Keys : waiters[h] \in Seq(Tasks) /\ Once(waiters[h]) /\ ~In(waiters[h], r)
  BY <1>1 DEF TypeOK, Queues, NobodyTwice, OnlyWaiting
<1>3. /\ Once(Append(waiters[k], r))
      /\ \A t : In(Append(waiters[k], r), t) <=> In(waiters[k], t) \/ t = r
  BY <1>2, OnceAppend
<1>4. \A h \in Keys : waiters'[h] = IF h = k THEN Append(waiters[k], r) ELSE waiters[h]
  BY <1>1 DEF TypeOK
<1>5. \A h \in Keys, t \in Tasks : In(waiters'[h], t) <=> In(waiters[h], t) \/ (h = k /\ t = r)
  BY <1>3, <1>4
<1>6. \A t \in Tasks : /\ pc'[t] = IF t = r THEN "waiting" ELSE pc[t]
                       /\ key'[t] = IF t = r THEN k ELSE key[t]
                       /\ fut'[t] = IF t = r THEN "pending" ELSE fut[t]
                       /\ key[t] \in Keys
  BY <1>1 DEF TypeOK
<1>7. OnlyWaiting'
  BY <1>2, <1>5, <1>6 DEF Queues, OnlyWaiting
<1>8. NobodyTwice'
  BY <1>2, <1>3, <1>4 DEF NobodyTwice
<1>9. NobodyMissing'
  BY <1>5, <1>6 DEF Queues, NobodyMissing
<1> QED BY <1>7, <1>8, <1>9 DEF Queues

\* A caller wakes up: it leaves its queue, or goes to its front.
LEMMA QueuesWake ==
  ASSUME TypeOK, Queues, NEW r \in Tasks, Wake(r)
  PROVE  Queues'
<1> DEFINE k == key[r]
<1>1. k \in Keys /\ pc[r] = "waiting" /\ key' = key
  BY DEF TypeOK, Wake, WaitCancelled, WaitAgain, WaitDone, taskVars
<1>2. /\ PopWaiter(r) \in Seq(Tasks) /\ Once(PopWaiter(r))
      /\ \A t : In(PopWaiter(r), t) <=> In(waiters[k], t) /\ t # r
  BY PopWaiterRemoves DEF Queues
<1>3. \A h \in Keys \ {k} : ~In(waiters[h], r)
  BY DEF Queues, OnlyWaiting
<1>4. CASE WaitAgain(r)
  <2>1. /\ waiters' = [waiters EXCEPT ![k] = <<r>> \o PopWaiter(r)]
        /\ fut' = [fut EXCEPT ![r] = "pending"] /\ pc' = pc
    BY <1>4 DEF WaitAgain, taskVars
  <2>2. /\ Once(<<r>> \o PopWaiter(r))
        /\ \A t : In(<<r>> \o PopWaiter(r), t) <=> In(PopWaiter(r), t) \/ t = r
    BY <1>2, OncePrepend
  <2>3. \A h \in Keys : waiters'[h] = IF h = k THEN <<r>> \o PopWaiter(r) ELSE waiters[h]
    BY <2>1 DEF TypeOK
  <2>4. \A h \in Keys, t \in Tasks : In(waiters'[h], t) <=> In(waiters[h], t) \/ (h = k /\ t = r)
    BY <1>2, <2>2, <2>3
  <2>5. \A t \in Tasks : fut'[t] = (IF t = r THEN "pending" ELSE fut[t]) /\ key[t] \in Keys
    BY <2>1 DEF TypeOK
  <2>6. OnlyWaiting'
    BY <1>1, <2>1, <2>4 DEF Queues, OnlyWaiting
  <2>7. NobodyTwice'
    BY <2>2, <2>3 DEF Queues, NobodyTwice
  <2>8. NobodyMissing'
    BY <1>1, <2>4, <2>5 DEF Queues, NobodyMissing
  <2> QED BY <2>6, <2>7, <2>8 DEF Queues
<1>5. CASE WaitCancelled(r) \/ WaitDone(r)
  <2>1. /\ waiters' = [waiters EXCEPT ![k] = PopWaiter(r)]
        /\ fut' = [fut EXCEPT ![r] = "none"]
    BY <1>5 DEF WaitCancelled, WaitDone
  <2>2. \A h \in Keys : waiters'[h] = IF h = k THEN PopWaiter(r) ELSE waiters[h]
    BY <2>1 DEF TypeOK
  <2>3. \A t \in Tasks \ {r} : pc'[t] = pc[t]
    BY <1>5 DEF WaitCancelled, WaitDone, EndCall, GetHit, StartCreating, TypeOK
  <2>4. \A t \in Tasks : fut'[t] = (IF t = r THEN "none" ELSE fut[t]) /\ key[t] \in Keys
    BY <2>1 DEF TypeOK
  <2>5. \A h \in Keys, t \in Tasks : In(waiters'[h], t) <=> In(waiters[h], t) /\ t # r
    BY <1>2, <1>3, <2>2
  <2>6. OnlyWaiting'
    BY <1>1, <2>3, <2>5 DEF Queues, OnlyWaiting
  <2>7. NobodyTwice'
    BY <1>2, <2>2 DEF Queues, NobodyTwice
  <2>8. NobodyMissing'
    BY <1>1, <2>4, <2>5 DEF Queues, NobodyMissing
  <2> QED BY <2>6, <2>7, <2>8 DEF Queues
<1> QED BY <1>4, <1>5 DEF Wake

\* close() empties the queues and cancels everybody in them: no pending
\* caller is elsewhere.
LEMMA QueuesClose == ASSUME TypeOK, Queues, CloseConnector PROVE Queues'
<1>1. \A k \in Keys : waiters'[k] = <<>>
  BY DEF CloseConnector
<1>2. Once(<<>>) /\ \A t : ~In(<<>>, t)
  BY DEF Once, In
<1>3. ASSUME NEW t \in Tasks, fut[t] = "pending" PROVE fut'[t] # "pending"
  <2>1. key[t] \in Keys /\ t \in ToSet(waiters[key[t]])
    BY <1>3 DEF Queues, NobodyMissing, In, ToSet, TypeOK
  <2> QED BY <2>1 DEF CloseConnector
<1>4. \A t \in Tasks : fut[t] # "pending" => fut'[t] # "pending"
  BY DEF CloseConnector
<1> QED BY <1>1, <1>2, <1>3, <1>4 DEF Queues, OnlyWaiting, NobodyTwice, NobodyMissing

LEMMA QueuesInit == Init => Queues
<1> SUFFICES ASSUME Init PROVE Queues
  OBVIOUS
<1>1. \A k \in Keys : waiters[k] = <<>>
  BY DEF Init
<1>2. Once(<<>>) /\ \A t : ~In(<<>>, t)
  BY DEF Once, In
<1>3. \A t \in Tasks : fut[t] # "pending"
  BY DEF Init
<1> QED BY <1>1, <1>2, <1>3 DEF Queues, OnlyWaiting, NobodyTwice, NobodyMissing

LEMMA QueuesNext == TypeOK /\ Queues /\ [Next]_vars => Queues'
<1> SUFFICES ASSUME TypeOK, Queues, [Next]_vars PROVE Queues'
  OBVIOUS
<1>1. ASSUME NEW r \in Tasks, NEW k \in Keys, ConnectReuse(r, k) \/ ConnectCreate(r, k) PROVE Queues'
  <2>1. UNCHANGED waitVars /\ pc[r] = "idle"
    BY <1>1 DEF ConnectReuse, ConnectCreate
  <2>2. \A t \in Tasks \ {r} : pc'[t] = pc[t] /\ key'[t] = key[t]
    BY <1>1 DEF ConnectReuse, ConnectCreate, GetHit, StartCreating, TypeOK
  <2> QED BY <2>1, <2>2, QueuesStay
<1>2. ASSUME NEW r \in Tasks, CancelWait(r) PROVE Queues'
  <2>1. UNCHANGED <<waiters, pc, key>> /\ fut' = [fut EXCEPT ![r] = "cancelled"]
    BY <1>2 DEF CancelWait, taskVars
  <2>2. \A t \in Tasks : fut'[t] = "pending" => fut[t] = "pending"
    BY <2>1 DEF TypeOK
  <2> QED BY <2>1, <2>2 DEF Queues, OnlyWaiting, NobodyTwice, NobodyMissing
<1>3. ASSUME NEW r \in Tasks, Created(r) \/ CreateTraceEnd(r) \/ ReuseTraceEnd(r) PROVE Queues'
  <2>1. UNCHANGED waitVars /\ key' = key /\ pc[r] # "waiting"
    BY <1>3 DEF Created, CreateTraceEnd, ReuseTraceEnd
  <2>2. \A t \in Tasks \ {r} : pc'[t] = pc[t]
    BY <1>3 DEF Created, CreateTraceEnd, ReuseTraceEnd, Establish, EndCall, TypeOK
  <2> QED BY <2>1, <2>2, QueuesStay
<1>4. ASSUME NEW r \in Tasks, \/ CreateFail(r) \/ ReuseTraceFail(r)
                              \/ \E shouldClose \in BOOLEAN : Release(r, shouldClose)
      PROVE  Queues'
  <2>1. PICK x : ReleaseAcquired(key[r], x) /\ EndCall(r) /\ pc[r] # "waiting" /\ key' = key
    BY <1>4 DEF CreateFail, ReuseTraceFail, Release
  <2>2. key[r] \in Keys
    BY DEF TypeOK
  <2> QED BY <2>1, <2>2, QueuesRelease
<1>5. CASE \/ \E p \in Protos : Disconnect(p) \/ Expire(p)
           \/ Cleanup \/ CleanupClosed \/ UNCHANGED vars
  <2>1. UNCHANGED <<waitVars, pc, key>>
    BY <1>5 DEF Disconnect, Expire, Cleanup, CleanupClosed, vars, taskVars
  <2> QED BY <2>1, QueuesStay
<1> QED
  BY <1>1, <1>2, <1>3, <1>4, <1>5, QueuesJoin, QueuesWake, QueuesClose DEF Next, Connect, Create, Reuse

\* A queue holds only callers that still wait for its host, each once, and
\* every caller that may be woken is in the queue of its host.
THEOREM QueueCorrect == Spec => []QueueOK
<1> QED
  BY TypeInit, TypeNext, QueuesInit, QueuesNext, QueueOKByMembers, PTL DEF Spec

(* --------------------------- nobody is stranded ------------------------ *)

\* The pool is full for host k only because somebody uses it.
FullMeansUsed ==
  \A k \in Keys : ~closed /\ ~(Available(k) > 0) => \E s \in Tasks : Slot(s) # {}

LEMMA FullIsUsed == TypeOK /\ AcquiredExact => FullMeansUsed
<1> SUFFICES ASSUME TypeOK, AcquiredExact, NEW k \in Keys, ~closed, ~(Available(k) > 0)
             PROVE  \E s \in Tasks : Slot(s) # {}
  BY DEF FullMeansUsed
<1> DEFINE used == Cardinality(acquired)
           hostUsed == Cardinality(acquiredPerHost[k])
<1>1. used \in Nat /\ hostUsed \in Nat /\ Limit \in Nat /\ LimitPerHost \in Nat
  BY CountedFinite, ConnectorAssumption
<1>2. Available(k) =
        LET total == IF Limit = 0 THEN 1 ELSE Limit - used
            host  == LimitPerHost - hostUsed
        IN  IF Limit # 0 /\ total <= 0 THEN total
            ELSE IF LimitPerHost # 0 /\ total > host THEN host
            ELSE total
  BY DEF Available, AvailableConnections
<1>3. (Limit # 0 /\ used >= Limit) \/ (LimitPerHost # 0 /\ hostUsed >= LimitPerHost)
  <2> HIDE DEF used, hostUsed
  <2>1. CASE Limit = 0
    BY <1>1, <1>2, <2>1
  <2>2. CASE Limit # 0
    BY <1>1, <1>2, <2>2
  <2> QED BY <2>1, <2>2
<1>4. acquired # {} \/ (LimitPerHost # 0 /\ acquiredPerHost[k] # {})
  BY <1>1, <1>3, FS_EmptySet
<1>5. acquired # {} => Occupied # {}
  BY DEF AcquiredExact
<1>6. LimitPerHost # 0 /\ acquiredPerHost[k] # {} => InUse(k) # {}
  BY DEF AcquiredExact
<1> QED BY <1>4, <1>5, <1>6 DEF Occupied, InUse

LEMMA FullIsUsedNext == TypeOK' /\ AcquiredExact' => FullMeansUsed'
  BY FullIsUsed, PTL

LEMMA AvailableType == ASSUME TypeOK, NEW k \in Keys PROVE Available(k) \in Int
<1>1. Cardinality(acquired) \in Nat /\ Cardinality(acquiredPerHost[k]) \in Nat
  BY CountedFinite
<1> QED BY <1>1, ConnectorAssumption DEF Available, AvailableConnections

\* Without cancellation only close() cancels a waiting call.
OnlyCloseCancels == Cancellable = {} /\ ~closed => \A r \in Tasks : fut[r] # "cancelled"

\* A caller that has been woken, or has a slot to give back.
Ahead(s) == fut[s] = "result" \/ Slot(s) # {}
NobodyStranded == Cancellable = {} => NoLostWakeup

\* After _release_acquired somebody has been woken, or a host whose queue
\* holds a caller that may be woken is full.
LEMMA ReleaseWakes ==
  ASSUME TypeOK, Queues, NobodyStranded, TypeOK', AcquiredExact', Queues',
         NEW r \in Tasks, NEW k \in Keys, NEW x, ReleaseAcquired(k, x), ~closed, closed' = closed,
         key' = key
  PROVE  NobodyStranded'
<1> SUFFICES ASSUME NEW t \in Tasks, fut'[t] = "pending"
             PROVE  \E s \in Tasks : Ahead(s)'
  BY DEF NobodyStranded, NoLostWakeup, Ahead
<1>1. ReleaseWaiter(acquired', acquiredPerHost')
  BY DEF ReleaseAcquired
<1>2. CASE WakeNobody(acquired', acquiredPerHost')
  <2>1. fut[t] = "pending" /\ LiveHosts(acquired', acquiredPerHost') = {} /\ key[t] \in Keys
    BY <1>2 DEF WakeNobody, TypeOK
  <2>2. Pending(key[t]) # {}
    BY <2>1 DEF Queues, NobodyMissing, In, Pending
  <2>3. ~CanOpen(acquired', acquiredPerHost', key[t])
    BY <2>1, <2>2 DEF LiveHosts, OpenHosts
  <2>4. ~(Available(key[t])' > 0)
    <3>1. Cardinality(acquired') \in Nat /\ Cardinality(acquiredPerHost'[key[t]]) \in Nat
      <4>1. ASSUME NEW S \in SUBSET (Tasks \cup Protos) PROVE Cardinality(S) \in Nat
        BY FS_Union, FS_Subset, FS_CardinalityType, ConnectorAssumption
      <4> QED BY <2>1, <4>1 DEF TypeOK
    <3>2. AvailableConnections(acquired', acquiredPerHost', key[t]) \in Int
      BY <3>1, ConnectorAssumption DEF AvailableConnections
    <3>3. Available(key[t])' = AvailableConnections(acquired', acquiredPerHost', key[t])
      BY DEF Available
    <3> QED BY <2>3, <3>2, <3>3 DEF CanOpen
  <2> QED BY <2>1, <2>4, FullIsUsedNext DEF FullMeansUsed, Ahead
<1>3. ASSUME NEW h \in LiveHosts(acquired', acquiredPerHost'), NEW i \in Pending(h),
             NEW drained, WakeFirst(h, i, drained)
      PROVE  \E s \in Tasks : Ahead(s)'
  <2>1. h \in Keys /\ i \in DOMAIN waiters[h]
    BY <1>3 DEF LiveHosts, OpenHosts, Pending
  <2>2. waiters[h][i] \in Tasks
    BY <2>1, ElementOfSeq, LenProperties DEF TypeOK
  <2>3. fut' = [fut EXCEPT ![waiters[h][i]] = "result"]
    BY <1>3 DEF WakeFirst
  <2>4. fut'[waiters[h][i]] = "result"
    BY <2>2, <2>3 DEF TypeOK
  <2> QED BY <2>2, <2>4 DEF Ahead
<1> QED BY <1>1, <1>2, <1>3 DEF ReleaseWaiter

\* A step that makes nobody pending and keeps everybody who is ahead.
LEMMA StrandedStays ==
  ASSUME NobodyStranded, closed' = closed,
         \A t \in Tasks : fut'[t] = "pending" => fut[t] = "pending",
         \A s \in Tasks : Ahead(s) => Ahead(s)'
  PROVE  NobodyStranded'
BY DEF NobodyStranded, NoLostWakeup, Ahead

LEMMA StrandedNext ==
  ASSUME TypeOK, Queues, NobodyStranded, AcquiredExact, OnlyCloseCancels, [Next]_vars,
         TypeOK', AcquiredExact', Queues', Cancellable = {}
  PROVE  NobodyStranded'
<1>0. ASSUME closed' PROVE NobodyStranded'
  BY <1>0 DEF NobodyStranded, NoLostWakeup
<1> SUFFICES ASSUME ~closed' PROVE NobodyStranded'
  BY <1>0
\* Somebody is ahead of everybody after the step.
<1>a. ASSUME NEW s \in Tasks, Ahead(s)' PROVE NobodyStranded'
  BY <1>a DEF NobodyStranded, NoLostWakeup, Ahead
<1>b. ASSUME NEW k \in Keys, ~(Available(k)' > 0) PROVE NobodyStranded'
  <2>1. FullMeansUsed'
    BY FullIsUsedNext
  <2>2. PICK s \in Tasks : Slot(s)' # {}
    BY <1>b, <2>1 DEF FullMeansUsed
  <2> QED BY <1>a, <2>2 DEF Ahead
<1>1. ASSUME NEW r \in Tasks, NEW k \in Keys, GetHit(r, k) \/ StartCreating(r, k) PROVE NobodyStranded'
  <2>0. pc'[r] \in {"reusing", "holding", "creating"}
    BY <1>1, ZenonT(60) DEF GetHit, StartCreating, TypeOK
  <2>1. Slot(r)' # {}
    BY <2>0 DEF Slot, PoolUser, Opener
  <2> QED BY <1>a, <2>1 DEF Ahead
<1>2. ASSUME NEW r \in Tasks, NEW k \in Keys, ConnectWait(r, k) PROVE NobodyStranded'
  <2>1. Available(k)' = Available(k) /\ Available(k) <= 0
    BY <1>2 DEF ConnectWait, Available, limitVars
  <2> QED BY <1>b, <2>1, AvailableType
<1>3. ASSUME NEW r \in Tasks, WaitAgain(r) PROVE NobodyStranded'
  <2>1. PICK k \in Keys : ~SlotStillFree(k)
    BY <1>3 DEF WaitAgain, TypeOK
  <2>2. UNCHANGED <<acquired, acquiredPerHost>>
    BY <1>3 DEF WaitAgain, limitVars
  <2>3. ~(Available(k)' > 0)
    BY <2>1, <2>2 DEF SlotStillFree, Available
  <2> QED BY <1>b, <2>3
<1>4. ASSUME NEW r \in Tasks, CancelWait(r) \/ WaitCancelled(r) PROVE NobodyStranded'
  <2>1. closed' = closed /\ (WaitCancelled(r) => fut[r] = "cancelled") /\ ~CancelWait(r)
    BY <1>4 DEF CancelWait, WaitCancelled
  <2> QED BY <1>4, <2>1 DEF OnlyCloseCancels
<1>5. ASSUME NEW r \in Tasks, Create(r) \/ ReuseTraceEnd(r), ~CreateFail(r) PROVE NobodyStranded'
  <2>1. UNCHANGED waitVars /\ closed' = closed
    BY <1>5 DEF Create, Created, CreateTraceEnd, ReuseTraceEnd
  <2>2. \E s \in {"created", "holding"} : pc' = [pc EXCEPT ![r] = s]
    BY <1>5, <2>1 DEF Create, Created, CreateTraceEnd, ReuseTraceEnd, Establish
  <2>3. Slot(r)' # {}
    BY <2>2, ZenonT(60) DEF Slot, PoolUser, Opener, TypeOK
  <2> QED BY <1>a, <2>3 DEF Ahead
<1>6. ASSUME NEW r \in Tasks, \/ CreateFail(r) \/ ReuseTraceFail(r)
                              \/ \E shouldClose \in BOOLEAN : Release(r, shouldClose)
      PROVE  NobodyStranded'
  <2>1. PICK x : ReleaseAcquired(key[r], x) /\ closed' = closed /\ key' = key
    BY <1>6 DEF CreateFail, ReuseTraceFail, Release
  <2>2. key[r] \in Keys
    BY DEF TypeOK
  <2> QED BY <2>1, <2>2, ReleaseWakes
<1>7. CASE \/ \E p \in Protos : Disconnect(p) \/ Expire(p)
           \/ Cleanup \/ CleanupClosed \/ UNCHANGED vars
  <2>1. UNCHANGED <<fut, pc, held, closed>>
    BY <1>7 DEF Disconnect, Expire, Cleanup, CleanupClosed, vars, taskVars, waitVars
  <2> QED BY <2>1, StrandedStays DEF Ahead, Slot, PoolUser, Opener
<1>8. CASE CloseConnector
  BY <1>8 DEF CloseConnector
<1>9. ASSUME NEW r \in Tasks, NEW k \in Keys, ConnectReuse(r, k) \/ ConnectCreate(r, k)
      PROVE  NobodyStranded'
  BY <1>1, <1>9 DEF ConnectReuse, ConnectCreate
<1>10. ASSUME NEW r \in Tasks, WaitDone(r) PROVE NobodyStranded'
  <2>1. key[r] \in Keys
    BY DEF TypeOK
  <2> QED BY <1>1, <1>10, <2>1 DEF WaitDone
<1> QED
  BY <1>2, <1>3, <1>4, <1>5, <1>6, <1>7, <1>8, <1>9, <1>10
     DEF Next, Connect, Wake, Create, Reuse

LEMMA OnlyCloseCancelsNext == TypeOK /\ OnlyCloseCancels /\ [Next]_vars => OnlyCloseCancels'
<1> SUFFICES ASSUME TypeOK, OnlyCloseCancels, [Next]_vars, Cancellable = {}, ~closed',
                    NEW t \in Tasks
             PROVE  fut'[t] # "cancelled"
  BY DEF OnlyCloseCancels
<1>0. ~CloseConnector
  BY DEF CloseConnector
<1>1. ASSUME closed' = closed PROVE fut[t] # "cancelled"
  BY <1>1 DEF OnlyCloseCancels
<1>2. ASSUME NEW r \in Tasks, NEW a \in {"none", "pending"}, closed' = closed, fut' = [fut EXCEPT ![r] = a]
      PROVE  fut'[t] # "cancelled"
  BY <1>1, <1>2 DEF TypeOK
<1>3. ASSUME closed' = closed, fut' = fut PROVE fut'[t] # "cancelled"
  BY <1>1, <1>3
<1>4. ASSUME NEW k \in Keys, NEW x, ReleaseAcquired(k, x), closed' = closed PROVE fut'[t] # "cancelled"
  <2>1. CASE closed
    BY <1>4, <2>1
  <2>2. CASE ~closed
    <3>1. ReleaseWaiter(acquired', acquiredPerHost')
      BY <1>4, <2>2 DEF ReleaseAcquired
    <3>2. fut' = fut \/ \E s : fut' = [fut EXCEPT ![s] = "result"]
      BY <3>1 DEF ReleaseWaiter, WakeNobody, WakeFirst
    <3> QED BY <1>1, <1>4, <3>2 DEF TypeOK
  <2> QED BY <2>1, <2>2
<1>5. ASSUME NEW r \in Tasks, Connect(r) PROVE fut'[t] # "cancelled"
  BY <1>2, <1>3, <1>5 DEF Connect, ConnectReuse, ConnectCreate, ConnectWait, Unaffected, waitVars
<1>6. ASSUME NEW r \in Tasks, Wake(r) PROVE fut'[t] # "cancelled"
  BY <1>2, <1>6 DEF Wake, WaitCancelled, WaitAgain, WaitDone, Unaffected
<1>7. ASSUME NEW r \in Tasks, Created(r) \/ CreateTraceEnd(r) \/ ReuseTraceEnd(r) PROVE fut'[t] # "cancelled"
  BY <1>3, <1>7 DEF Created, CreateTraceEnd, ReuseTraceEnd, waitVars
<1>8. ASSUME NEW r \in Tasks, \/ CreateFail(r) \/ ReuseTraceFail(r)
                              \/ \E shouldClose \in BOOLEAN : Release(r, shouldClose)
      PROVE  fut'[t] # "cancelled"
  BY <1>4, <1>8 DEF CreateFail, ReuseTraceFail, Release, TypeOK
<1>9. ASSUME NEW r \in Tasks, CancelWait(r) PROVE FALSE
  BY <1>9 DEF CancelWait
<1>10. CASE \/ \E p \in Protos : Disconnect(p) \/ Expire(p)
            \/ Cleanup \/ CleanupClosed \/ UNCHANGED vars
  BY <1>3, <1>10 DEF Disconnect, Expire, Cleanup, CleanupClosed, vars, waitVars
<1> QED BY <1>0, <1>5, <1>6, <1>7, <1>8, <1>9, <1>10 DEF Next, Create, Reuse

LEMMA StrandedInit == Init => NobodyStranded /\ OnlyCloseCancels
  BY DEF Init, NobodyStranded, NoLostWakeup, OnlyCloseCancels

\* As long as no waiting call is cancelled, a caller that waits is never the
\* last one: somebody ahead of it has been woken or has a slot to give back.
\* (With cancellation this is false: see ConnectorCancel.cfg.)
THEOREM NoLostWakeupCorrect == Spec => [](Cancellable = {} => NoLostWakeup)
<1> DEFINE Inv == TypeOK /\ ExclusiveOwnership /\ Accounting /\ Queues /\ OnlyCloseCancels /\ NobodyStranded
<1>1. Init => Inv
  BY TypeInit, OwnershipInit, AccountingInit, QueuesInit, StrandedInit
<1>2. Inv /\ [Next]_vars => Inv'
  <2> SUFFICES ASSUME Inv, [Next]_vars PROVE Inv'
    OBVIOUS
  <2>1. TypeOK' /\ ExclusiveOwnership' /\ Accounting' /\ Queues' /\ OnlyCloseCancels'
    BY TypeNext, OwnershipNext, AccountingNext, QueuesNext, OnlyCloseCancelsNext
  <2>2. AcquiredExact /\ AcquiredExact'
    BY <2>1 DEF Accounting
  <2>3. CASE Cancellable = {}
    BY <2>1, <2>2, <2>3, StrandedNext
  <2>4. CASE Cancellable # {}
    BY <2>1, <2>4 DEF NobodyStranded
  <2> QED BY <2>1, <2>3, <2>4
<1>3. Inv => (Cancellable = {} => NoLostWakeup)
  BY DEF NobodyStranded
<1> QED
  BY <1>1, <1>2, <1>3, PTL DEF Spec

(***************************************************************************)
(* The pool implements ConnectionLease, step by step; and, unless a trace  *)
(* signal can raise between two of its steps, it leaks no transport.       *)
(*                                                                         *)
(* The abstract owner of a transport is read off held and conns.  For each *)
(* abstract action a lemma Lease... says which change of the pool's state  *)
(* is that action; a lemma ...Refines then finds, for each action of       *)
(* Connector, the abstract one it carries out.                             *)
(***************************************************************************)

\* A closed pool is empty.
ClosedEmpty == closed => Idle = {}

\* Until close(), nobody closes a transport that a call has in its hands: the
\* peer may take it away, the pool may not.
HeldAlive == ~closed => \A r \in Tasks : held[r] # NoProto => tr[held[r]] # "none"

Owned == TypeOK /\ ExclusiveOwnership

(* ------------------------ who owns a transport ------------------------- *)

\* What CHOOSE and the order of the cases in Owner come to.
OwnersRight ==
  \A p \in Protos :
    /\ \A r \in Tasks : Owner(p) = r <=> held[r] = p
    /\ Owner(p) = "pool" <=> p \in Idle
    /\ Owner(p) = "nobody" <=> p \notin Held \cup Idle

LEMMA OwnerOf == Owned => OwnersRight
<1> SUFFICES ASSUME Owned, NEW p \in Protos
             PROVE  /\ \A r \in Tasks : Owner(p) = r <=> held[r] = p
                    /\ Owner(p) = "pool" <=> p \in Idle
                    /\ Owner(p) = "nobody" <=> p \notin Held \cup Idle
  BY DEF OwnersRight
<1>1. /\ p # NoProto /\ "pool" # "nobody"
      /\ \A r \in Tasks : r # "pool" /\ r # "nobody"
  BY ConnectorAssumption
<1>2. CASE p \in Held
  <2>1. PICK r \in Tasks : held[r] = p
    BY <1>2 DEF Held
  <2>2. \A s \in Tasks : held[s] = p => s = r
    BY <1>1, <2>1 DEF Owned, ExclusiveOwnership
  <2>3. (CHOOSE s \in Tasks : held[s] = p) = r
    BY <2>1, <2>2
  <2>4. Owner(p) = r
    BY <1>2, <2>3 DEF Owner
  <2>5. p \notin Idle
    BY <2>1 DEF Idle, Owned, ExclusiveOwnership
  <2> QED BY <1>1, <1>2, <2>1, <2>2, <2>4, <2>5
<1>3. CASE p \notin Held
  <2>1. \A r \in Tasks : held[r] # p
    BY <1>1, <1>3 DEF Held
  <2>2. Owner(p) = IF p \in Idle THEN "pool" ELSE "nobody"
    BY <1>3 DEF Owner
  <2> QED BY <1>1, <1>3, <2>1, <2>2
<1> QED BY <1>2, <1>3

LEMMA OwnerOfNext == Owned' => OwnersRight'
  BY OwnerOf, PTL

\* What the abstract specification sees of a step.
Step == Owned /\ Owned'

LEMMA OwnerStays ==
  ASSUME Step, NEW p \in Protos, \A r \in Tasks : held'[r] = p <=> held[r] = p, p \in Idle' <=> p \in Idle
  PROVE  Owner(p)' = Owner(p)
<1>1. CASE \E r \in Tasks : held[r] = p
  BY <1>1, OwnerOf, OwnerOfNext DEF Step, OwnersRight
<1>2. CASE ~ \E r \in Tasks : held[r] = p
  <2>1. p \notin Held /\ p \notin Held'
    BY <1>2 DEF Held
  <2> QED BY <2>1, OwnerOf, OwnerOfNext DEF Step, OwnersRight
<1> QED BY <1>1, <1>2

LEMMA LeaseStutters ==
  ASSUME Step, UNCHANGED <<held, conns, home, tr, closed>>
  PROVE  UNCHANGED Lease!vars
<1>1. \A p \in Protos : Owner(p)' = Owner(p)
  BY OwnerStays DEF Idle
<1> QED BY <1>1 DEF Lease!vars

LEMMA LeaseDiscards ==
  ASSUME Step, NEW S \in SUBSET Idle, \A p \in Protos : p \in Idle' <=> p \in Idle \ S,
         \A p \in Protos : tr'[p] = IF p \in S THEN "none" ELSE tr[p],
         UNCHANGED <<held, home, closed>>
  PROVE  Lease!Discard(S)
<1>1. S \subseteq Protos
  BY DEF Step, Owned, TypeOK, Idle
<1>2. \A p \in S : Owner(p) = "pool"
  BY <1>1, OwnerOf DEF Step, OwnersRight
<1>3. \A p \in S : Owner(p)' = "nobody"
  <2> SUFFICES ASSUME NEW p \in S PROVE Owner(p)' = "nobody"
    OBVIOUS
  <2>1. p \in Protos /\ p \notin Idle' /\ \A r \in Tasks : held[r] # p
    BY <1>1, OwnerOf, <1>2, ConnectorAssumption DEF Step, OwnersRight
  <2>2. p \notin Held'
    BY <2>1 DEF Held
  <2> QED BY <2>1, <2>2, OwnerOfNext DEF Step, OwnersRight
<1>4. \A p \in Protos \ S : Owner(p)' = Owner(p)
  BY OwnerStays
<1>5. [p \in Protos |-> Owner(p)'] =
      [p \in Protos |-> IF p \in S THEN "nobody" ELSE [q \in Protos |-> Owner(q)][p]]
  BY <1>3, <1>4
<1>6. {p \in Protos : tr'[p] = "open"} = {p \in Protos : tr[p] = "open"} \ S
  OBVIOUS
<1> QED BY <1>1, <1>2, <1>5, <1>6 DEF Lease!Discard

\* Task r has p now and nobody had it before, except for the pool perhaps.
LEMMA OwnerGets ==
  ASSUME Step, NEW r \in Tasks, NEW p \in Protos, held' = [held EXCEPT ![r] = p], held[r] = NoProto
  PROVE  /\ Owner(p)' = r
         /\ \A q \in Protos \ {p} : (q \in Idle' <=> q \in Idle) => Owner(q)' = Owner(q)
<1>1. \A t \in Tasks : held'[t] = IF t = r THEN p ELSE held[t]
  BY DEF Step, Owned, TypeOK
<1>2. Owner(p)' = r
  BY <1>1, OwnerOfNext DEF Step, OwnersRight
<1>3. ASSUME NEW q \in Protos \ {p}, q \in Idle' <=> q \in Idle
      PROVE  Owner(q)' = Owner(q)
  <2>1. q # NoProto
    BY ConnectorAssumption
  <2> QED BY <1>1, <1>3, <2>1, OwnerStays
<1> QED BY <1>2, <1>3

\* Task r has p no more.
LEMMA OwnerLoses ==
  ASSUME Step, NEW r \in Tasks, NEW p \in Protos, held[r] = p, held' = [held EXCEPT ![r] = NoProto]
  PROVE  /\ Owner(p) = r
         /\ Owner(p)' = IF p \in Idle' THEN "pool" ELSE "nobody"
         /\ \A q \in Protos \ {p} : (q \in Idle' <=> q \in Idle) => Owner(q)' = Owner(q)
<1>1. \A t \in Tasks : held'[t] = IF t = r THEN NoProto ELSE held[t]
  BY DEF Step, Owned, TypeOK
<1>2. p # NoProto /\ \A t \in Tasks \ {r} : held[t] # p
  BY ConnectorAssumption DEF Step, Owned, ExclusiveOwnership
<1>3. Owner(p) = r
  BY OwnerOf DEF Step, OwnersRight
<1>4. p \notin Held'
  BY <1>1, <1>2 DEF Held
<1>5. \A x \in Protos : (x \in Idle' => Owner(x)' = "pool") /\ (x \notin Held' \cup Idle' => Owner(x)' = "nobody")
  BY OwnerOfNext DEF Step, OwnersRight
<1>6. ASSUME NEW q \in Protos \ {p}, q \in Idle' <=> q \in Idle
      PROVE  Owner(q)' = Owner(q)
  <2>1. q # NoProto
    BY ConnectorAssumption
  <2>2. \A t \in Tasks : held'[t] = q <=> held[t] = q
    BY <1>1, <2>1
  <2> QED BY <1>6, <2>2, OwnerStays
<1> QED BY <1>3, <1>4, <1>5, <1>6

LEMMA LeaseOpens ==
  ASSUME Step, NEW r \in Tasks, NEW p \in Protos, FreshProto(p), held[r] = NoProto,
         held' = [held EXCEPT ![r] = p], home' = [home EXCEPT ![p] = key[r]],
         tr' = [tr EXCEPT ![p] = "open"], UNCHANGED <<conns, closed>>
  PROVE  Lease!Open(r, key[r], p)
<1>0. Idle' = Idle
  BY DEF Idle
<1>1. Owner(p)' = r /\ \A q \in Protos \ {p} : Owner(q)' = Owner(q)
  BY <1>0, OwnerGets
<1>2. Owner(p) = "nobody"
  BY OwnerOf DEF FreshProto, Step, OwnersRight
<1>3. [q \in Protos |-> Owner(q)'] = [[q \in Protos |-> Owner(q)] EXCEPT ![p] = r]
  BY <1>1
<1>4. {q \in Protos : tr'[q] = "open"} = {q \in Protos : tr[q] = "open"} \cup {p}
  BY DEF Step, Owned, TypeOK
<1>5. tr[p] # "open"
  BY DEF FreshProto
<1> QED BY <1>2, <1>3, <1>4, <1>5 DEF Lease!Open

LEMMA LeaseOpensLate ==
  ASSUME Step, NEW k \in Keys, NEW p \in Protos, FreshProto(p), closed,
         home' = [home EXCEPT ![p] = k],
         tr' = [tr EXCEPT ![p] = "none"], UNCHANGED <<held, conns, closed>>
  PROVE  Lease!OpenLate(k, p)
<1>1. \A q \in Protos : Owner(q)' = Owner(q)
  BY OwnerStays DEF Idle
<1>2. Owner(p) = "nobody"
  BY OwnerOf DEF FreshProto, Step, OwnersRight
<1>3. tr[p] # "open"
  BY DEF FreshProto
<1>4. {q \in Protos : tr'[q] = "open"} = {q \in Protos : tr[q] = "open"}
  BY <1>3 DEF Step, Owned, TypeOK
<1> QED BY <1>1, <1>2, <1>3, <1>4 DEF Lease!OpenLate

LEMMA LeaseTakes ==
  ASSUME Step, NEW r \in Tasks, NEW k \in Keys, NEW p \in conns[k], NEW S \in SUBSET conns[k],
         tr[p] = "open", p \notin S, held[r] = NoProto, held' = [held EXCEPT ![r] = p],
         conns' = [conns EXCEPT ![k] = @ \ (S \cup {p})],
         \A q \in Protos : tr'[q] = IF q \in S THEN "none" ELSE tr[q],
         UNCHANGED <<home, closed>>
  PROVE  Lease!Take(r, p, S)
<1>1. /\ p \in Protos /\ S \subseteq Protos /\ p \in Idle /\ S \subseteq Idle
      /\ home[p] = k /\ \A s \in S : home[s] = k
  BY DEF Step, Owned, TypeOK, ExclusiveOwnership, Idle
<1>2. \A h \in Keys : conns'[h] = IF h = k THEN conns[h] \ (S \cup {p}) ELSE conns[h]
  BY ZenonT(60) DEF Step, Owned, TypeOK
<1>3. \A q \in Protos : q \in Idle' <=> q \in Idle \ (S \cup {p})
  <2>1. \A h \in Keys : h # k => conns[h] \cap (S \cup {p}) = {}
    BY <1>1 DEF Step, Owned, ExclusiveOwnership
  <2> QED BY <1>2, <2>1 DEF Idle
<1>4. Owner(p)' = r /\ \A q \in Protos \ {p} : q \notin S => Owner(q)' = Owner(q)
  BY <1>1, <1>3, OwnerGets
<1>5. \A q \in S \cup {p} : Owner(q) = "pool"
  BY <1>1, OwnerOf DEF Step, OwnersRight
<1>6. \A q \in S : Owner(q)' = "nobody"
  <2> SUFFICES ASSUME NEW q \in S PROVE Owner(q)' = "nobody"
    OBVIOUS
  <2>1. q \in Protos /\ q \notin Idle' /\ q # p /\ \A t \in Tasks : held[t] # q
    BY <1>1, <1>3, <1>5, OwnerOf, ConnectorAssumption DEF Step, OwnersRight
  <2>2. \A t \in Tasks : held'[t] # q
    BY <2>1 DEF Step, Owned, TypeOK
  <2>3. q \notin Held'
    BY <2>2 DEF Held
  <2> QED BY <2>1, <2>3, OwnerOfNext DEF Step, OwnersRight
<1>7. [q \in Protos |-> Owner(q)'] =
      [q \in Protos |-> IF q = p THEN r ELSE IF q \in S THEN "nobody" ELSE [s \in Protos |-> Owner(s)][q]]
  BY <1>4, <1>6
<1>8. {q \in Protos : tr'[q] = "open"} = {q \in Protos : tr[q] = "open"} \ S
  OBVIOUS
<1> QED BY <1>1, <1>5, <1>7, <1>8 DEF Lease!Take

LEMMA LeaseFinishes ==
  ASSUME Step, NEW r \in Tasks, NEW p \in Protos, held[r] = p, held' = [held EXCEPT ![r] = NoProto],
         NEW S \in SUBSET {p}, \A q \in Protos : tr'[q] = IF q \in S THEN "none" ELSE tr[q],
         UNCHANGED <<conns, home, closed>>
  PROVE  Lease!Finish(r, p)
<1>0. Idle' = Idle
  BY DEF Idle
<1>1. p \notin Idle'
  BY DEF Idle, Step, Owned, ExclusiveOwnership
<1>2. Owner(p) = r /\ Owner(p)' = "nobody" /\ \A q \in Protos \ {p} : Owner(q)' = Owner(q)
  BY <1>0, <1>1, OwnerLoses
<1>3. [q \in Protos |-> Owner(q)'] = [[q \in Protos |-> Owner(q)] EXCEPT ![p] = "nobody"]
  BY <1>2
<1>4. {q \in Protos : tr'[q] = "open"} = {q \in Protos : tr[q] = "open"} \ S
  OBVIOUS
<1>5. S = {} \/ S = {p}
  OBVIOUS
<1>6. {q \in Protos : tr'[q] = "open"} \in
        {{q \in Protos : tr[q] = "open"}, {q \in Protos : tr[q] = "open"} \ {p}}
  BY <1>4, <1>5
<1> QED BY <1>2, <1>3, <1>6 DEF Lease!Finish

LEMMA LeaseReturns ==
  ASSUME Step, NEW r \in Tasks, NEW p \in Protos, held[r] = p, held' = [held EXCEPT ![r] = NoProto],
         ~closed, tr[p] = "open", conns' = [conns EXCEPT ![key[r]] = @ \cup {p}],
         UNCHANGED <<tr, home, closed>>
  PROVE  Lease!Return(r, p)
<1>1. \A h \in Keys : conns'[h] = IF h = key[r] THEN conns[h] \cup {p} ELSE conns[h]
  BY ZenonT(60) DEF Step, Owned, TypeOK
<1>2. p \in Idle' /\ \A q \in Protos \ {p} : q \in Idle' <=> q \in Idle
  BY <1>1 DEF Idle, Step, Owned, TypeOK
<1>3. Owner(p) = r /\ Owner(p)' = "pool" /\ \A q \in Protos \ {p} : Owner(q)' = Owner(q)
  BY <1>2, OwnerLoses
<1>4. [q \in Protos |-> Owner(q)'] = [[q \in Protos |-> Owner(q)] EXCEPT ![p] = "pool"]
  BY <1>3
<1> QED BY <1>3, <1>4 DEF Lease!Return

LEMMA LeaseLoses ==
  ASSUME Step, NEW p \in Protos, tr[p] = "open", tr' = [tr EXCEPT ![p] = "lost"],
         UNCHANGED <<held, conns, home, closed>>
  PROVE  Lease!Lose(p)
<1>1. \A q \in Protos : Owner(q)' = Owner(q)
  BY OwnerStays DEF Idle
<1>2. {q \in Protos : tr'[q] = "open"} = {q \in Protos : tr[q] = "open"} \ {p}
  BY DEF Step, Owned, TypeOK
<1> QED BY <1>1, <1>2 DEF Lease!Lose

LEMMA LeaseCloses ==
  ASSUME Step, CloseConnector
  PROVE  Lease!Close
<1>1. /\ ~closed /\ closed' = TRUE /\ conns' = [k \in Keys |-> {}] /\ UNCHANGED <<held, home>>
      /\ \A q \in Protos : tr'[q] = IF q \in Idle \cup acquired THEN "none" ELSE tr[q]
  BY DEF CloseConnector, taskVars
<1>2. \A q \in Protos : q \notin Idle'
  BY <1>1 DEF Idle
<1>3. \A q \in Protos : Owner(q)' = IF Owner(q) = "pool" THEN "nobody" ELSE Owner(q)
  <2> SUFFICES ASSUME NEW q \in Protos
               PROVE  Owner(q)' = IF Owner(q) = "pool" THEN "nobody" ELSE Owner(q)
    OBVIOUS
  <2>1. CASE q \in Idle
    <3>1. Owner(q) = "pool" /\ \A r \in Tasks : held[r] # q
      BY <2>1, OwnerOf, ConnectorAssumption DEF Step, OwnersRight
    <3>2. q \notin Held'
      BY <1>1, <3>1 DEF Held
    <3> QED BY <1>2, <3>1, <3>2, OwnerOfNext DEF Step, OwnersRight
  <2>2. CASE q \notin Idle
    <3>1. Owner(q)' = Owner(q)
      BY <1>1, <1>2, <2>2, OwnerStays
    <3> QED BY <2>2, <3>1, OwnerOf DEF Step, OwnersRight
  <2> QED BY <2>1, <2>2
<1>4. [q \in Protos |-> Owner(q)'] =
      [q \in Protos |-> IF [s \in Protos |-> Owner(s)][q] = "pool" THEN "nobody"
                        ELSE [s \in Protos |-> Owner(s)][q]]
  BY <1>3
<1>5. /\ {q \in Protos : tr'[q] = "open"} \subseteq {q \in Protos : tr[q] = "open"}
      /\ \A q \in {s \in Protos : tr'[s] = "open"} : Owner(q) # "pool"
  BY <1>1, OwnerOf DEF Step, OwnersRight
<1> QED BY <1>1, <1>4, <1>5 DEF Lease!Close

(* ------------------- each action and what it carries out ---------------- *)

LeaseStep == [Lease!Next]_(Lease!vars)

LEMMA GetHitRefines ==
  ASSUME Step, NEW r \in Tasks, NEW k \in Keys, GetHit(r, k), held[r] = NoProto,
         UNCHANGED <<home, closed>>
  PROVE  LeaseStep
<1>1. PICK p \in conns[k], S \in SUBSET conns[k] :
        /\ Reusable(p) /\ \A s \in S : ~Reusable(s)
        /\ conns' = PopIdle(k, S \cup {p}) /\ CloseProtos(S, k)
        /\ held' = [held EXCEPT ![r] = p]
  BY DEF GetHit
<1>2. tr[p] = "open" /\ p \notin S
  BY <1>1 DEF Reusable
<1>3. conns' = [conns EXCEPT ![k] = @ \ (S \cup {p})]
  BY <1>1 DEF PopIdle
<1>4. \A q \in Protos : tr'[q] = IF q \in S THEN "none" ELSE tr[q]
  BY <1>1 DEF CloseProtos
<1>5. Lease!Take(r, p, S)
  BY <1>1, <1>2, <1>3, <1>4, LeaseTakes
<1>6. p \in Protos /\ S \in SUBSET Protos
  BY DEF Step, Owned, TypeOK
<1> QED BY <1>5, <1>6 DEF LeaseStep, Lease!Next

LEMMA GetMissRefines ==
  ASSUME Step, NEW k \in Keys, GetMiss(k), UNCHANGED <<held, home, closed>>
  PROVE  LeaseStep
<1>1. PICK S \in SUBSET Protos : S = conns[k]
  BY DEF Step, Owned, TypeOK
<1>2. conns' = [conns EXCEPT ![k] = {}] /\ \A q \in Protos : tr'[q] = IF q \in S THEN "none" ELSE tr[q]
  BY <1>1 DEF GetMiss, CloseProtos
<1>3. \A h \in Keys : conns'[h] = IF h = k THEN {} ELSE conns[h]
  BY <1>2 DEF Step, Owned, TypeOK
<1>4. \A h \in Keys : h # k => conns[h] \cap conns[k] = {}
  BY DEF Step, Owned, ExclusiveOwnership
<1>5. \A q \in Protos : q \in Idle' <=> q \in Idle \ S
  BY <1>1, <1>3, <1>4 DEF Idle
<1>6. S \in SUBSET Idle
  BY <1>1 DEF Idle
<1>7. Lease!Discard(S)
  BY <1>2, <1>5, <1>6, LeaseDiscards
<1> QED BY <1>7 DEF LeaseStep, Lease!Next

LEMMA ConnectRefines ==
  ASSUME Step, NEW r \in Tasks, Connect(r)
  PROVE  LeaseStep
<1>1. PICK k \in Keys : ConnectReuse(r, k) \/ ConnectCreate(r, k) \/ ConnectWait(r, k)
  BY DEF Connect
<1>2. UNCHANGED <<home, closed>>
  BY <1>1 DEF ConnectReuse, ConnectCreate, ConnectWait, Unaffected
<1>3. CASE ConnectReuse(r, k)
  <2>1. held[r] = NoProto /\ GetHit(r, k)
    BY <1>3 DEF ConnectReuse, Step, Owned, TypeOK
  <2> QED BY <1>2, <2>1, GetHitRefines
<1>4. CASE ConnectCreate(r, k) \/ ConnectWait(r, k)
  <2>1. GetMiss(k) /\ held' = held
    BY <1>4 DEF ConnectCreate, ConnectWait, StartCreating
  <2> QED BY <1>2, <2>1, GetMissRefines
<1> QED BY <1>1, <1>3, <1>4

\* A call that has no protocol ends, and the abstract specification sees nothing.
LEMMA EndCallStutters ==
  ASSUME Step, NEW r \in Tasks, held[r] = NoProto, EndCall(r), UNCHANGED <<conns, home, tr, closed>>
  PROVE  LeaseStep
<1>1. held' = held
  BY DEF EndCall, Step, Owned, TypeOK
<1> QED BY <1>1, LeaseStutters DEF LeaseStep

LEMMA EndCallFinishes ==
  ASSUME Step, NEW r \in Tasks, NEW p \in Protos, held[r] = p, EndCall(r), NEW S \in SUBSET {p},
         \A q \in Protos : tr'[q] = IF q \in S THEN "none" ELSE tr[q],
         UNCHANGED <<conns, home, closed>>
  PROVE  LeaseStep
<1>1. held' = [held EXCEPT ![r] = NoProto]
  BY DEF EndCall
<1>2. Lease!Finish(r, p)
  BY <1>1, LeaseFinishes
<1> QED BY <1>2 DEF LeaseStep, Lease!Next

LEMMA EndCallLeaves ==
  ASSUME Step, NEW r \in Tasks, NEW p \in Protos, held[r] = p, EndCall(r),
         UNCHANGED <<conns, home, tr, closed>>
  PROVE  LeaseStep
<1>1. PICK S \in SUBSET {p} : S = {}
  OBVIOUS
<1>2. \A q \in Protos : tr'[q] = IF q \in S THEN "none" ELSE tr[q]
  BY <1>1
<1> QED BY <1>2, EndCallFinishes

LEMMA WakeRefines ==
  ASSUME Step, NEW r \in Tasks, CancelWait(r) \/ Wake(r)
  PROVE  LeaseStep
<1>1. CASE CancelWait(r) \/ WaitAgain(r)
  <2>1. UNCHANGED <<held, conns, home, tr, closed>>
    BY <1>1 DEF CancelWait, WaitAgain, poolVars, taskVars, protoVars
  <2> QED BY <2>1, LeaseStutters DEF LeaseStep
<1>2. CASE WaitCancelled(r)
  <2>1. held[r] = NoProto /\ EndCall(r) /\ UNCHANGED <<conns, home, tr, closed>>
    BY <1>2 DEF WaitCancelled, poolVars, protoVars, Step, Owned, TypeOK
  <2> QED BY <2>1, EndCallStutters
<1>3. CASE WaitDone(r)
  <2>1. held[r] = NoProto /\ key[r] \in Keys /\ UNCHANGED <<home, closed>>
    BY <1>3 DEF WaitDone, Unaffected, Step, Owned, TypeOK
  <2>2. CASE GetHit(r, key[r])
    BY <2>1, <2>2, GetHitRefines
  <2>3. CASE GetMiss(key[r]) /\ StartCreating(r, key[r])
    BY <2>1, <2>3, GetMissRefines DEF StartCreating
  <2> QED BY <1>3, <2>2, <2>3 DEF WaitDone
<1> QED BY <1>1, <1>2, <1>3 DEF Wake

LEMMA CreateRefines ==
  ASSUME Step, NEW r \in Tasks, Create(r)
  PROVE  LeaseStep
<1>1. CASE Created(r)
  <2>1. PICK p \in Protos :
          /\ FreshProto(p) /\ home' = [home EXCEPT ![p] = key[r]]
          /\ \/ tr' = [tr EXCEPT ![p] = "open"] /\ held' = [held EXCEPT ![r] = p]
             \/ closed /\ tr' = [tr EXCEPT ![p] = "none"] /\ EndCall(r)
    BY <1>1 DEF Created, Establish
  <2>2. held[r] = NoProto /\ key[r] \in Keys /\ UNCHANGED <<conns, closed>>
    BY <1>1 DEF Created, poolVars, Step, Owned, TypeOK
  <2>3. CASE tr' = [tr EXCEPT ![p] = "open"] /\ held' = [held EXCEPT ![r] = p]
    <3>1. Lease!Open(r, key[r], p)
      BY <2>1, <2>2, <2>3, LeaseOpens
    <3> QED BY <2>2, <3>1 DEF LeaseStep, Lease!Next
  <2>4. CASE closed /\ tr' = [tr EXCEPT ![p] = "none"] /\ EndCall(r)
    <3>1. held' = held
      BY <2>2, <2>4 DEF EndCall, Step, Owned, TypeOK
    <3>2. Lease!OpenLate(key[r], p)
      BY <2>1, <2>2, <2>4, <3>1, LeaseOpensLate
    <3> QED BY <2>2, <3>2 DEF LeaseStep, Lease!Next
  <2> QED BY <2>1, <2>3, <2>4
<1>2. CASE CreateTraceEnd(r)
  <2>1. held[r] \in Protos /\ UNCHANGED <<conns, home, closed>>
    BY <1>2 DEF CreateTraceEnd, poolVars, Step, Owned, TypeOK
  <2>2. PICK p \in Protos : held[r] = p
    BY <2>1
  <2>3. CASE closed
    <3>1. tr' = [tr EXCEPT ![p] = "none"] /\ EndCall(r)
      BY <1>2, <2>2, <2>3 DEF CreateTraceEnd
    <3>2. \A q \in Protos : tr'[q] = IF q \in {p} THEN "none" ELSE tr[q]
      BY <3>1 DEF Step, Owned, TypeOK
    <3> QED BY <2>1, <2>2, <3>1, <3>2, EndCallFinishes, ZenonT(60)
  <2>4. CASE ~closed
    <3>1. Establish(r, held[r]) /\ UNCHANGED tr
      BY <1>2, <2>4 DEF CreateTraceEnd
    <3>2. held' = held
      BY <3>1 DEF Establish, Step, Owned, TypeOK
    <3> QED BY <2>1, <3>1, <3>2, LeaseStutters DEF LeaseStep
  <2> QED BY <2>3, <2>4
<1>3. CASE CreateFail(r)
  <2>1. EndCall(r) /\ UNCHANGED <<conns, home, tr, closed>>
    BY <1>3 DEF CreateFail, poolVars, protoVars
  <2>2. CASE held[r] = NoProto
    BY <2>1, <2>2, EndCallStutters
  <2>3. CASE held[r] # NoProto
    <3>1. PICK p \in Protos : held[r] = p
      BY <2>3 DEF Step, Owned, TypeOK
    <3> QED BY <2>1, <3>1, EndCallLeaves
  <2> QED BY <2>2, <2>3
<1> QED BY <1>1, <1>2, <1>3 DEF Create

LEMMA ReuseRefines ==
  ASSUME Step, NEW r \in Tasks, Reuse(r)
  PROVE  LeaseStep
<1>1. CASE ReuseTraceEnd(r)
  <2>1. UNCHANGED <<held, conns, home, tr, closed>>
    BY <1>1 DEF ReuseTraceEnd, poolVars, protoVars
  <2> QED BY <2>1, LeaseStutters DEF LeaseStep
<1>2. CASE ReuseTraceFail(r)
  <2>1. EndCall(r) /\ UNCHANGED <<conns, home, tr, closed>>
    BY <1>2 DEF ReuseTraceFail, poolVars, protoVars
  <2>2. PICK p \in Protos : held[r] = p
    BY <1>2 DEF ReuseTraceFail, Step, Owned, TypeOK
  <2> QED BY <2>1, <2>2, EndCallLeaves
<1> QED BY <1>1, <1>2 DEF Reuse

LEMMA ReleaseRefines ==
  ASSUME Step, HeldAlive, NEW r \in Tasks, NEW shouldClose \in BOOLEAN, Release(r, shouldClose)
  PROVE  LeaseStep
<1>1. EndCall(r) /\ UNCHANGED <<home, closed>> /\ pc[r] = "holding"
  BY DEF Release
<1>2. PICK p \in Protos : held[r] = p
  BY <1>1 DEF Step, Owned, TypeOK
<1>3. CASE closed
  <2>1. UNCHANGED <<conns, tr>>
    BY <1>3 DEF Release, poolVars
  <2> QED BY <1>1, <1>2, <2>1, EndCallLeaves
<1>4. CASE ~closed /\ (ForceClose \/ shouldClose)
  <2>1. UNCHANGED conns /\ \A q \in Protos : tr'[q] = IF q \in {p} THEN "none" ELSE tr[q]
    BY <1>2, <1>4 DEF Release, CloseProtos
  <2> QED BY <1>1, <1>2, <2>1, EndCallFinishes
<1>5. CASE ~closed /\ ~ForceClose /\ ~shouldClose
  <2>1. conns' = [conns EXCEPT ![key[r]] = @ \cup {p}] /\ UNCHANGED tr /\ tr[p] # "lost"
    BY <1>2, <1>5 DEF Release
  <2>2. tr[p] = "open"
    BY <1>2, <1>5, <2>1, ConnectorAssumption DEF HeldAlive, Step, Owned, TypeOK
  <2>3. Lease!Return(r, p)
    BY <1>1, <1>2, <1>5, <2>1, <2>2, LeaseReturns DEF EndCall
  <2> QED BY <2>3 DEF LeaseStep, Lease!Next
<1> QED BY <1>3, <1>4, <1>5 DEF Release

LEMMA TimersRefine ==
  ASSUME Step, (\E p \in Protos : Disconnect(p) \/ Expire(p)) \/ Cleanup \/ CleanupClosed \/ CloseConnector
  PROVE  LeaseStep
<1>1. ASSUME NEW p \in Protos, Disconnect(p)
      PROVE  LeaseStep
  <2>1. Lease!Lose(p)
    BY <1>1, LeaseLoses DEF Disconnect, poolVars, taskVars
  <2> QED BY <2>1 DEF LeaseStep, Lease!Next
<1>2. CASE (\E p \in Protos : Expire(p)) \/ CleanupClosed
  <2>1. UNCHANGED <<held, conns, home, tr, closed>>
    BY <1>2 DEF Expire, CleanupClosed, poolVars, taskVars, protoVars
  <2> QED BY <2>1, LeaseStutters DEF LeaseStep
<1>3. CASE Cleanup
  <2> DEFINE dead == {p \in Idle : ~Reusable(p)}
  <2>1. /\ conns' = [k \in Keys |-> conns[k] \ dead]
        /\ \A q \in Protos : tr'[q] = IF q \in dead THEN "none" ELSE tr[q]
        /\ UNCHANGED <<held, home, closed>>
    BY <1>3 DEF Cleanup, taskVars
  <2>2. dead \in SUBSET Idle /\ dead \in SUBSET Protos
    BY DEF Idle, Step, Owned, TypeOK
  <2> HIDE DEF dead
  <2>3. \A q \in Protos : q \in Idle' <=> q \in Idle \ dead
    BY <2>1 DEF Idle
  <2>4. PICK S \in SUBSET Protos : S = dead
    BY <2>2
  <2>5. Lease!Discard(S)
    BY <2>1, <2>2, <2>3, <2>4, LeaseDiscards
  <2> QED BY <2>5 DEF LeaseStep, Lease!Next
<1>4. CASE CloseConnector
  BY <1>4, LeaseCloses DEF LeaseStep, Lease!Next
<1> QED BY <1>1, <1>2, <1>3, <1>4

LEMMA ClosedEmptyNext == Owned /\ ClosedEmpty /\ [Next]_vars => ClosedEmpty'
<1> SUFFICES ASSUME Owned, ClosedEmpty, [Next]_vars PROVE ClosedEmpty'
  OBVIOUS
<1>1. \A k \in Keys : closed => conns[k] = {}
  BY DEF ClosedEmpty, Idle
<1> SUFFICES \A k \in Keys : closed' => conns'[k] = {}
  BY DEF ClosedEmpty, Idle
<1>2. ASSUME NEW r \in Tasks, Connect(r)
      PROVE  \A k \in Keys : closed' => conns'[k] = {}
  <2>1. PICK k \in Keys : GetHit(r, k) \/ GetMiss(k)
    BY <1>2 DEF Connect, ConnectReuse, ConnectCreate, ConnectWait
  <2>2. closed' = closed
    BY <1>2 DEF Connect, ConnectReuse, ConnectCreate, ConnectWait, Unaffected
  <2>3. CASE GetHit(r, k)
    BY <1>1, <2>2, <2>3 DEF GetHit, PopIdle, Owned, TypeOK
  <2>4. CASE GetMiss(k)
    BY <1>1, <2>2, <2>4 DEF GetMiss, Owned, TypeOK
  <2> QED BY <2>1, <2>3, <2>4
<1>3. ASSUME NEW r \in Tasks, WaitDone(r)
      PROVE  \A k \in Keys : closed' => conns'[k] = {}
  <2>1. key[r] \in Keys /\ closed' = closed
    BY <1>3 DEF WaitDone, Unaffected, Owned, TypeOK
  <2>2. CASE GetHit(r, key[r])
    BY <1>1, <2>1, <2>2 DEF GetHit, PopIdle, Owned, TypeOK
  <2>3. CASE GetMiss(key[r])
    BY <1>1, <2>1, <2>3 DEF GetMiss, Owned, TypeOK
  <2> QED BY <1>3, <2>2, <2>3 DEF WaitDone
<1>4. ASSUME NEW r \in Tasks, CancelWait(r) \/ WaitCancelled(r) \/ WaitAgain(r) \/ Create(r) \/ Reuse(r)
      PROVE  \A k \in Keys : closed' => conns'[k] = {}
  BY <1>1, <1>4 DEF CancelWait, WaitCancelled, WaitAgain, Create, Created, CreateTraceEnd, CreateFail,
     Reuse, ReuseTraceEnd, ReuseTraceFail, poolVars
<1>5. ASSUME NEW r \in Tasks, NEW shouldClose \in BOOLEAN, Release(r, shouldClose)
      PROVE  \A k \in Keys : closed' => conns'[k] = {}
  BY <1>1, <1>5 DEF Release, poolVars
<1>6. CASE (\E p \in Protos : Disconnect(p) \/ Expire(p)) \/ CleanupClosed \/ UNCHANGED vars
  BY <1>1, <1>6 DEF Disconnect, Expire, CleanupClosed, vars, poolVars
<1>7. CASE Cleanup \/ CloseConnector
  BY <1>1, <1>7 DEF Cleanup, CloseConnector
<1> QED BY <1>2, <1>3, <1>4, <1>5, <1>6, <1>7 DEF Next, Wake

\* A step that closes at most transports nobody has.
LEMMA AliveKept ==
  ASSUME HeldAlive, closed => closed',
         \A r \in Tasks : held'[r] \in {held[r], NoProto},
         \A r \in Tasks : held'[r] # NoProto /\ tr[held[r]] # "none" => tr'[held[r]] # "none"
  PROVE  HeldAlive'
  BY DEF HeldAlive

LEMMA GetAlive ==
  ASSUME Owned, HeldAlive, NEW r \in Tasks, NEW k \in Keys, closed' = closed,
         GetHit(r, k) \/ (GetMiss(k) /\ held' = held)
  PROVE  HeldAlive'
<1>1. \A t \in Tasks : held[t] \notin conns[k] /\ (held[t] # NoProto => held[t] \in Protos)
  BY DEF Owned, TypeOK, ExclusiveOwnership
<1>2. CASE GetHit(r, k)
  <2>1. PICK p \in conns[k], S \in SUBSET conns[k] :
          Reusable(p) /\ (\A s \in S : ~Reusable(s)) /\ CloseProtos(S, k) /\ held' = [held EXCEPT ![r] = p]
    BY <1>2 DEF GetHit
  <2>2. tr[p] = "open" /\ p \notin S /\ p \in Protos
    BY <2>1 DEF Reusable, Owned, TypeOK
  <2>3. \A q \in Protos : tr'[q] = IF q \in S THEN "none" ELSE tr[q]
    BY <2>1 DEF CloseProtos
  <2>4. \A t \in Tasks : held'[t] = IF t = r THEN p ELSE held[t]
    BY <2>1 DEF Owned, TypeOK
  <2> QED BY <1>1, <2>2, <2>3, <2>4 DEF HeldAlive
<1>3. CASE GetMiss(k) /\ held' = held
  <2>1. \A q \in Protos : tr'[q] = IF q \in conns[k] THEN "none" ELSE tr[q]
    BY <1>3 DEF GetMiss, CloseProtos
  <2> QED BY <1>1, <1>3, <2>1, AliveKept
<1> QED BY <1>2, <1>3

LEMMA HeldAliveNext == Owned /\ HeldAlive /\ [Next]_vars => HeldAlive'
<1> SUFFICES ASSUME Owned, HeldAlive, [Next]_vars PROVE HeldAlive'
  OBVIOUS
<1>1. \A t \in Tasks : held[t] # NoProto => held[t] \in Protos
  BY DEF Owned, TypeOK
<1>2. ASSUME NEW r \in Tasks, Connect(r)
      PROVE  HeldAlive'
  <2>1. PICK k \in Keys : ConnectReuse(r, k) \/ ConnectCreate(r, k) \/ ConnectWait(r, k)
    BY <1>2 DEF Connect
  <2>2. closed' = closed /\ (GetHit(r, k) \/ (GetMiss(k) /\ held' = held))
    BY <2>1 DEF ConnectReuse, ConnectCreate, ConnectWait, Unaffected, StartCreating
  <2> QED BY <2>2, GetAlive
<1>3. ASSUME NEW r \in Tasks, WaitDone(r)
      PROVE  HeldAlive'
  <2>1. key[r] \in Keys /\ closed' = closed
    BY <1>3 DEF WaitDone, Unaffected, Owned, TypeOK
  <2>2. GetHit(r, key[r]) \/ (GetMiss(key[r]) /\ held' = held)
    BY <1>3 DEF WaitDone, StartCreating
  <2> QED BY <2>1, <2>2, GetAlive
<1>4. ASSUME NEW r \in Tasks, EndCall(r), UNCHANGED <<closed, tr>>
      PROVE  HeldAlive'
  <2>1. \A t \in Tasks : held'[t] \in {held[t], NoProto}
    BY <1>4 DEF EndCall, Owned, TypeOK
  <2> QED BY <1>4, <2>1, AliveKept
<1>5. CASE UNCHANGED <<closed, held, tr>>
  BY <1>5, AliveKept
<1>6. ASSUME NEW r \in Tasks, Created(r)
      PROVE  HeldAlive'
  <2>1. PICK p \in Protos :
          /\ FreshProto(p) /\ closed' = closed
          /\ \/ tr' = [tr EXCEPT ![p] = "open"] /\ held' = [held EXCEPT ![r] = p]
             \/ closed
    BY <1>6 DEF Created, Establish
  <2>2. \A t \in Tasks : held[t] # p
    BY <2>1, ConnectorAssumption DEF FreshProto, Held
  <2>3. CASE closed
    BY <2>1, <2>3 DEF HeldAlive
  <2>4. CASE tr' = [tr EXCEPT ![p] = "open"] /\ held' = [held EXCEPT ![r] = p]
    <3>1. \A t \in Tasks : held'[t] = IF t = r THEN p ELSE held[t]
      BY <2>4 DEF Owned, TypeOK
    <3>2. \A q \in Protos : tr'[q] = IF q = p THEN "open" ELSE tr[q]
      BY <2>4 DEF Owned, TypeOK
    <3> QED BY <1>1, <2>1, <3>1, <3>2 DEF HeldAlive
  <2> QED BY <2>1, <2>3, <2>4
<1>7. ASSUME NEW r \in Tasks, CreateTraceEnd(r)
      PROVE  HeldAlive'
  <2>1. CASE closed
    BY <1>7, <2>1 DEF CreateTraceEnd, HeldAlive
  <2>2. CASE ~closed
    <3>1. UNCHANGED <<tr, closed>> /\ held' = [held EXCEPT ![r] = held[r]]
      BY <1>7, <2>2 DEF CreateTraceEnd, Establish
    <3> QED BY <3>1, AliveKept DEF Owned, TypeOK
  <2> QED BY <2>1, <2>2
<1>8. ASSUME NEW r \in Tasks, NEW shouldClose \in BOOLEAN, Release(r, shouldClose)
      PROVE  HeldAlive'
  <2>1. \A t \in Tasks : held'[t] = IF t = r THEN NoProto ELSE held[t]
    BY <1>8 DEF Release, EndCall, Owned, TypeOK
  <2>2. closed' = closed /\ (tr' = tr \/ CloseProtos({held[r]}, key[r]))
    BY <1>8 DEF Release
  <2>3. \A t \in Tasks \ {r} : held[t] # NoProto => held[t] # held[r]
    BY DEF Owned, ExclusiveOwnership
  <2>4. \A t \in Tasks \ {r} : held[t] # NoProto => tr'[held[t]] = tr[held[t]]
    BY <1>1, <2>2, <2>3 DEF CloseProtos
  <2> QED BY <2>1, <2>2, <2>4, AliveKept
<1>9. ASSUME NEW p \in Protos, Disconnect(p)
      PROVE  HeldAlive'
  BY <1>1, <1>9, AliveKept DEF Disconnect, taskVars, Owned, TypeOK
<1>10. CASE Cleanup
  <2>1. /\ UNCHANGED <<closed, held>>
        /\ \A q \in Protos : tr'[q] = IF q \in {p \in Idle : ~Reusable(p)} THEN "none" ELSE tr[q]
    BY <1>10 DEF Cleanup, taskVars
  <2>2. \A t \in Tasks : held[t] \notin Idle
    BY DEF Idle, Owned, ExclusiveOwnership
  <2> QED BY <1>1, <2>1, <2>2, AliveKept
<1>11. CASE CloseConnector
  BY <1>11 DEF CloseConnector, HeldAlive
<1>12. ASSUME NEW r \in Tasks,
              \/ CancelWait(r) \/ WaitCancelled(r) \/ WaitAgain(r) \/ CreateFail(r)
              \/ ReuseTraceEnd(r) \/ ReuseTraceFail(r)
       PROVE  HeldAlive'
  BY <1>4, <1>5, <1>12 DEF CancelWait, WaitCancelled, WaitAgain, CreateFail, ReuseTraceEnd,
     ReuseTraceFail, taskVars, protoVars
<1>13. CASE (\E p \in Protos : Expire(p)) \/ CleanupClosed \/ UNCHANGED vars
  BY <1>5, <1>13 DEF Expire, CleanupClosed, vars, taskVars, protoVars
<1> QED BY <1>2, <1>3, <1>6, <1>7, <1>8, <1>9, <1>10, <1>11, <1>12, <1>13 DEF Next, Wake, Create, Reuse

LEMMA NextRefines == Step /\ HeldAlive /\ [Next]_vars => LeaseStep
<1> SUFFICES ASSUME Step, HeldAlive, [Next]_vars PROVE LeaseStep
  OBVIOUS
<1>1. CASE UNCHANGED vars
  BY <1>1, LeaseStutters DEF LeaseStep, vars, poolVars, taskVars, protoVars
<1> QED BY <1>1, ConnectRefines, WakeRefines, CreateRefines, ReuseRefines, ReleaseRefines, TimersRefine DEF Next

LEMMA InitRefines == Init => Lease!Init
<1> SUFFICES ASSUME Init PROVE Lease!Init
  OBVIOUS
<1>1. \A p \in Protos : Owner(p) = "nobody"
  BY DEF Init, Owner, Held, Idle
<1>2. home \in [Protos -> Keys] /\ closed = FALSE /\ {p \in Protos : tr[p] = "open"} = {}
  BY DEF Init
<1> QED BY <1>1, <1>2 DEF Lease!Init

LEMMA LeaseInvInit == Init => Owned /\ ClosedEmpty /\ HeldAlive
<1>1. Init => ClosedEmpty /\ HeldAlive
  BY DEF Init, ClosedEmpty, HeldAlive
<1> QED BY <1>1, TypeInit, OwnershipInit DEF Owned

LEMMA OwnedNext == Owned /\ [Next]_vars => Owned'
  BY TypeNext, OwnershipNext DEF Owned

\* The pool keeps its promise: a transport goes from the pool to one caller of
\* its own host and back, only while it is open, and never after close().
THEOREM LeaseCorrect == Spec => LeaseSpec
<1>1. Owned /\ HeldAlive /\ [Next]_vars => LeaseStep
  BY OwnedNext, NextRefines DEF Step
<1> QED BY <1>1, InitRefines, LeaseInvInit, OwnedNext, HeldAliveNext, PTL DEF Spec, LeaseSpec, Lease!Spec, LeaseStep

\* After close() the pool stays empty, whatever comes back late.
THEOREM ClosedEmptyCorrect == Spec => []ClosedEmpty
<1> QED BY LeaseInvInit, OwnedNext, ClosedEmptyNext, PTL DEF Spec

(* ------------------------- no transport is leaked ----------------------- *)

\* Without trace configs no call is suspended in a signal.
Untraced == ~Traced => \A r \in Tasks : pc[r] \notin {"created", "reusing"}

LEMMA UntracedNext == TypeOK /\ Untraced /\ [Next]_vars => Untraced'
<1> SUFFICES ASSUME TypeOK, Untraced, [Next]_vars, ~Traced, NEW t \in Tasks
             PROVE  pc'[t] \notin {"created", "reusing"}
  BY DEF Untraced
<1>1. pc[t] \notin {"created", "reusing"} /\ pc \in [Tasks -> Places]
  BY DEF Untraced, TypeOK, Places
<1>2. ASSUME NEW r \in Tasks, EndCall(r)
      PROVE  pc'[t] \notin {"created", "reusing"}
  BY <1>1, <1>2 DEF EndCall
<1>3. ASSUME NEW r \in Tasks, NEW s \in {"holding", "creating", "waiting"}, pc' = [pc EXCEPT ![r] = s]
      PROVE  pc'[t] \notin {"created", "reusing"}
  BY <1>1, <1>3
<1>4. ASSUME NEW r \in Tasks, Connect(r)
      PROVE  pc'[t] \notin {"created", "reusing"}
  BY <1>3, <1>4 DEF Connect, ConnectReuse, ConnectCreate, ConnectWait, GetHit, StartCreating
<1>5. ASSUME NEW r \in Tasks, WaitDone(r)
      PROVE  pc'[t] \notin {"created", "reusing"}
  BY <1>3, <1>5 DEF WaitDone, GetHit, StartCreating
<1>6. ASSUME NEW r \in Tasks, Created(r) \/ CreateTraceEnd(r)
      PROVE  pc'[t] \notin {"created", "reusing"}
  BY <1>2, <1>3, <1>6 DEF Created, CreateTraceEnd, Establish
<1>7. ASSUME NEW r \in Tasks, NEW shouldClose \in BOOLEAN, Release(r, shouldClose)
      PROVE  pc'[t] \notin {"created", "reusing"}
  BY <1>2, <1>7 DEF Release
<1>8. ASSUME NEW r \in Tasks, WaitCancelled(r) \/ CreateFail(r) \/ Reuse(r)
      PROVE  pc'[t] \notin {"created", "reusing"}
  BY <1>2, <1>3, <1>8 DEF WaitCancelled, CreateFail, Reuse, ReuseTraceEnd, ReuseTraceFail
<1>9. CASE UNCHANGED pc
  BY <1>1, <1>9
<1>10. ASSUME NEW r \in Tasks, CancelWait(r) \/ WaitAgain(r)
       PROVE  pc'[t] \notin {"created", "reusing"}
  BY <1>9, <1>10 DEF CancelWait, WaitAgain, taskVars
<1>11. CASE (\E p \in Protos : Disconnect(p) \/ Expire(p)) \/ Cleanup \/ CleanupClosed \/ CloseConnector
            \/ UNCHANGED vars
  BY <1>9, <1>11 DEF Disconnect, Expire, Cleanup, CleanupClosed, CloseConnector, vars, taskVars
<1> QED BY <1>4, <1>5, <1>6, <1>7, <1>8, <1>10, <1>11 DEF Next, Wake, Create

\* What EveryTransportOwned comes to without traces.
Kept == \A p \in Protos : tr[p] = "open" => ~closed /\ (p \in Idle \/ \E r \in Tasks : held[r] = p)

LEMMA KeptIsOwned == ~Traced /\ Untraced => (Kept <=> EveryTransportOwned)
  BY DEF Untraced, Kept, EveryTransportOwned

LEMMA KeptGets ==
  ASSUME Owned, Kept, NEW r \in Tasks, NEW k \in Keys, closed' = closed, held[r] = NoProto,
         GetHit(r, k) \/ (GetMiss(k) /\ held' = held)
  PROVE  Kept'
<1>1. CASE GetHit(r, k)
  <2>1. PICK p \in conns[k], S \in SUBSET conns[k] :
          conns' = PopIdle(k, S \cup {p}) /\ CloseProtos(S, k) /\ held' = [held EXCEPT ![r] = p]
    BY <1>1 DEF GetHit
  <2>2. \A h \in Keys : conns[h] \ (S \cup {p}) \subseteq conns'[h]
    BY <2>1 DEF PopIdle, Owned, TypeOK
  <2>3. \A q \in Protos : tr'[q] = IF q \in S THEN "none" ELSE tr[q]
    BY <2>1 DEF CloseProtos
  <2>4. \A t \in Tasks : held'[t] = IF t = r THEN p ELSE held[t]
    BY <2>1 DEF Owned, TypeOK
  <2>5. \A q \in Idle \ (S \cup {p}) : q \in Idle'
    BY <2>2 DEF Idle
  <2>6. \A q \in Protos, t \in Tasks : held[t] = q => held'[t] = q
    BY <2>4, ConnectorAssumption
  <2> QED BY <2>3, <2>4, <2>5, <2>6 DEF Kept
<1>2. CASE GetMiss(k) /\ held' = held
  <2>1. \A h \in Keys : conns'[h] = IF h = k THEN {} ELSE conns[h]
    BY <1>2 DEF GetMiss, Owned, TypeOK
  <2>2. \A q \in Protos : tr'[q] = IF q \in conns[k] THEN "none" ELSE tr[q]
    BY <1>2 DEF GetMiss, CloseProtos
  <2>3. \A q \in Idle \ conns[k] : q \in Idle'
    BY <2>1 DEF Idle
  <2> QED BY <1>2, <2>2, <2>3 DEF Kept
<1> QED BY <1>1, <1>2

LEMMA KeptStays ==
  ASSUME Kept, UNCHANGED <<closed, conns, held>>,
         \A p \in Protos : tr'[p] = "open" => tr[p] = "open"
  PROVE  Kept'
  BY DEF Kept, Idle

LEMMA KeptNext ==
  Owned /\ Accounting /\ Untraced /\ Kept /\ ~Traced /\ [Next]_vars => Kept'
<1> SUFFICES ASSUME Owned, Accounting, Untraced, Kept, ~Traced, [Next]_vars PROVE Kept'
  OBVIOUS
<1>1. ASSUME NEW r \in Tasks, Connect(r)
      PROVE  Kept'
  <2>1. PICK k \in Keys : ConnectReuse(r, k) \/ ConnectCreate(r, k) \/ ConnectWait(r, k)
    BY <1>1 DEF Connect
  <2>2. closed' = closed /\ held[r] = NoProto /\ (GetHit(r, k) \/ (GetMiss(k) /\ held' = held))
    BY <2>1 DEF ConnectReuse, ConnectCreate, ConnectWait, Unaffected, StartCreating, Owned, TypeOK
  <2> QED BY <2>2, KeptGets
<1>2. ASSUME NEW r \in Tasks, WaitDone(r)
      PROVE  Kept'
  <2>1. key[r] \in Keys /\ closed' = closed /\ held[r] = NoProto
    BY <1>2 DEF WaitDone, Unaffected, Owned, TypeOK
  <2>2. GetHit(r, key[r]) \/ (GetMiss(key[r]) /\ held' = held)
    BY <1>2 DEF WaitDone, StartCreating
  <2> QED BY <2>1, <2>2, KeptGets
<1>3. ASSUME NEW r \in Tasks, WaitCancelled(r) \/ CreateFail(r)
      PROVE  Kept'
  <2>1. held[r] = NoProto /\ EndCall(r) /\ UNCHANGED <<closed, conns, tr>>
    BY <1>3 DEF WaitCancelled, CreateFail, Untraced, poolVars, protoVars, Owned, TypeOK
  <2>2. held' = held
    BY <2>1 DEF EndCall, Owned, TypeOK
  <2> QED BY <2>1, <2>2, KeptStays
<1>4. ASSUME NEW r \in Tasks, Created(r)
      PROVE  Kept'
  <2>1. PICK p \in Protos :
          /\ FreshProto(p) /\ UNCHANGED <<closed, conns>>
          /\ \/ ~closed /\ tr' = [tr EXCEPT ![p] = "open"] /\ held' = [held EXCEPT ![r] = p]
             \/ closed /\ tr' = [tr EXCEPT ![p] = "none"]
    BY <1>4 DEF Created, Establish, poolVars
  <2>2. held[r] = NoProto
    BY <1>4 DEF Created, Owned, TypeOK
  <2>3. CASE ~closed /\ tr' = [tr EXCEPT ![p] = "open"] /\ held' = [held EXCEPT ![r] = p]
    <3>1. \A t \in Tasks : held'[t] = IF t = r THEN p ELSE held[t]
      BY <2>3 DEF Owned, TypeOK
    <3>2. \A q \in Protos : tr'[q] = IF q = p THEN "open" ELSE tr[q]
      BY <2>3 DEF Owned, TypeOK
    <3>3. \A q \in Protos, t \in Tasks : held[t] = q => held'[t] = q
      BY <2>2, <3>1, ConnectorAssumption
    <3> QED BY <2>1, <2>3, <3>1, <3>2, <3>3 DEF Kept, Idle
  <2>4. CASE closed /\ tr' = [tr EXCEPT ![p] = "none"]
    <3>1. \A q \in Protos : tr'[q] # "open"
      BY <2>4 DEF Kept, Owned, TypeOK
    <3> QED BY <3>1 DEF Kept
  <2> QED BY <2>1, <2>3, <2>4
<1>5. ASSUME NEW r \in Tasks, NEW shouldClose \in BOOLEAN, Release(r, shouldClose)
      PROVE  Kept'
  <2>1. PICK p \in Protos : held[r] = p
    BY <1>5 DEF Release, Owned, TypeOK
  <2>2. closed' = closed /\ \A t \in Tasks : held'[t] = IF t = r THEN NoProto ELSE held[t]
    BY <1>5 DEF Release, EndCall, Owned, TypeOK
  <2>3. CASE closed
    BY <1>5, <2>2, <2>3 DEF Release, Kept
  <2>4. CASE ~closed /\ (ForceClose \/ shouldClose)
    <3>1. UNCHANGED conns /\ \A q \in Protos : tr'[q] = IF q = p THEN "none" ELSE tr[q]
      BY <1>5, <2>1, <2>4 DEF Release, CloseProtos
    <3> QED BY <2>1, <2>2, <3>1 DEF Kept, Idle
  <2>5. CASE ~closed /\ ~ForceClose /\ ~shouldClose
    <3>1. UNCHANGED tr /\ conns' = [conns EXCEPT ![key[r]] = @ \cup {p}] /\ key[r] \in Keys
      BY <1>5, <2>1, <2>5 DEF Release, Owned, TypeOK
    <3>2. \A h \in Keys : conns'[h] = IF h = key[r] THEN conns[h] \cup {p} ELSE conns[h]
      BY <3>1 DEF Owned, TypeOK
    <3> QED BY <2>1, <2>2, <3>1, <3>2 DEF Kept, Idle
  <2> QED BY <2>3, <2>4, <2>5
<1>6. CASE Cleanup
  <2> DEFINE dead == {p \in Idle : ~Reusable(p)}
  <2>1. /\ conns' = [k \in Keys |-> conns[k] \ dead]
        /\ \A q \in Protos : tr'[q] = IF q \in dead THEN "none" ELSE tr[q]
        /\ UNCHANGED <<closed, held>>
    BY <1>6 DEF Cleanup, taskVars
  <2> HIDE DEF dead
  <2>2. \A q \in Idle \ dead : q \in Idle'
    BY <2>1 DEF Idle
  <2> QED BY <2>1, <2>2 DEF Kept
<1>7. CASE CloseConnector
  <2>1. \A q \in Protos : tr'[q] = IF q \in Idle \cup acquired THEN "none" ELSE tr[q]
    BY <1>7 DEF CloseConnector
  <2>2. \A r \in Tasks : held[r] # NoProto => held[r] \in acquired
    <3> SUFFICES ASSUME NEW r \in Tasks, held[r] # NoProto PROVE held[r] \in acquired
      OBVIOUS
    <3>1. pc[r] = "holding" /\ ~closed
      BY <1>7 DEF Untraced, Owned, TypeOK, CloseConnector
    <3>2. Slot(r) = {held[r]}
      BY <3>1 DEF Slot, Opener, PoolUser
    <3> QED BY <3>1, <3>2 DEF Accounting, AcquiredExact, Occupied
  <2>3. \A q \in Protos : tr'[q] # "open"
    BY <2>1, <2>2, ConnectorAssumption DEF Kept
  <2> QED BY <2>3 DEF Kept
<1>8. CASE \E p \in Protos : Disconnect(p)
  BY <1>8, KeptStays DEF Disconnect, poolVars, taskVars, Owned, TypeOK
<1>9. ASSUME NEW r \in Tasks, CancelWait(r) \/ WaitAgain(r)
      PROVE  Kept'
  BY <1>9, KeptStays DEF CancelWait, WaitAgain, poolVars, taskVars, protoVars
<1>10. CASE (\E p \in Protos : Expire(p)) \/ CleanupClosed \/ UNCHANGED vars
  BY <1>10, KeptStays DEF Expire, CleanupClosed, vars, poolVars, taskVars, protoVars
<1>11. ASSUME NEW r \in Tasks, CreateTraceEnd(r) \/ Reuse(r)
       PROVE  Kept'
  BY <1>11 DEF Untraced, CreateTraceEnd, Reuse, ReuseTraceEnd, ReuseTraceFail
<1> QED BY <1>1, <1>2, <1>3, <1>4, <1>5, <1>6, <1>7, <1>8, <1>9, <1>10, <1>11 DEF Next, Wake, Create

\* Without trace configs an open transport is in the pool or in a call's hands,
\* and close() leaves none.  (A trace signal that raises after the connection is made does leave one open:
\* CreateFail from place "created".)
THEOREM TransportsOwnedCorrect == Spec => [](~Traced => EveryTransportOwned)
<1>1. Init => Untraced /\ (~Traced => Kept)
  BY DEF Init, Untraced, Kept
<1>2. Untraced /\ (~Traced => Kept) => (~Traced => EveryTransportOwned)
  BY KeptIsOwned
<1>3. Owned /\ Untraced /\ [Next]_vars => Untraced'
  BY UntracedNext DEF Owned
<1>4. Owned /\ Accounting /\ Untraced /\ (~Traced => Kept) /\ [Next]_vars => (~Traced => Kept)'
  BY KeptNext
<1>5. Owned /\ Accounting /\ [Next]_vars => Accounting'
  BY AccountingNext DEF Owned
<1>6. Init => Owned /\ Accounting
  BY TypeInit, OwnershipInit, AccountingInit DEF Owned
<1> QED BY <1>1, <1>2, <1>3, <1>4, <1>5, <1>6, OwnedNext, PTL DEF Spec

=============================================================================
