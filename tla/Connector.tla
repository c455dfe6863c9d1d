----------------------------- MODULE Connector -----------------------------
(***************************************************************************)
(* The client connection pool: aiohttp/connector.py, class BaseConnector   *)
(* with the Connection wrapper it hands out.                               *)
(*                                                                         *)
(* Everything runs on one asyncio event loop, so a step is the code a task *)
(* or a callback runs between two suspension points.  A task of Tasks is   *)
(* the caller of connect(); it also stands for the one placeholder that    *)
(* call puts into _acquired and for the one future it puts into _waiters.  *)
(* A member of Protos is a ResponseHandler together with its transport.    *)
(*                                                                         *)
(* Abstractions: the deque of idle connections of a host is the set of its *)
(* members (no property depends on which reusable member popleft() finds   *)
(* first), and the age of an idle connection is one bit, "older than       *)
(* keepalive_timeout".  keepalive_timeout is positive.                     *)
(***************************************************************************)
EXTENDS Integers, Sequences, FiniteSets, SequencesExt

CONSTANTS
  Tasks,        \* callers of connect()
  Keys,         \* ConnectionKey values: (host, port, is_ssl, ...)
  Protos,       \* protocol objects, one transport each
  NoProto,      \* "no protocol"
  Limit,        \* limit; 0 is "no limit"
  LimitPerHost, \* limit_per_host; 0 is "no limit"
  ForceClose,   \* force_close
  Traced,       \* the session has trace configs whose signals suspend
  Cancellable,  \* tasks whose wait may be cancelled or time out
  SslKeys,      \* TLS hosts whose transports _cleanup_closed must abort
  Reconnect     \* whether a task may call connect() again

ASSUME ConnectorAssumption ==
  /\ IsFiniteSet(Tasks) /\ IsFiniteSet(Protos)
  /\ Tasks \cap (Protos \cup {"pool", "nobody"}) = {} /\ NoProto \notin Protos
  /\ Limit \in Nat /\ LimitPerHost \in Nat
  /\ ForceClose \in BOOLEAN /\ Traced \in BOOLEAN /\ Reconnect \in BOOLEAN
  /\ Cancellable \subseteq Tasks /\ SslKeys \subseteq Keys

VARIABLES
  closed,          \* _closed
  conns,           \* _conns: idle connections of each host
  acquired,        \* _acquired: protocols and placeholders in use
  acquiredPerHost, \* _acquired_per_host, kept when LimitPerHost # 0
  waiters,         \* _waiters: queue of tasks waiting for each host
  cleanupHandle,   \* _cleanup_handle is not None
  cleanupTimer,    \* the event loop will call _cleanup
  cleanupClosed,   \* _cleanup_closed_transports
  fut,             \* state of the future each task waits on
  pc,              \* where each task is suspended
  key,             \* the host each task connects to
  held,            \* the protocol in a task's hands
  tr,              \* transport: "none", "open", or "lost" by the peer
  expired,         \* idle for longer than keepalive_timeout
  home             \* the host a transport is connected to

poolVars == <<conns, cleanupHandle, cleanupTimer, cleanupClosed>>
limitVars == <<acquired, acquiredPerHost>>
waitVars == <<waiters, fut>>
taskVars == <<pc, key, held>>
protoVars == <<tr, expired, home>>
vars == <<closed, poolVars, limitVars, waitVars, taskVars, protoVars>>

Idle == UNION {conns[k] : k \in Keys}
Held == {held[r] : r \in Tasks} \ {NoProto}

Init ==
  /\ closed = FALSE
  /\ conns = [k \in Keys |-> {}]
  /\ acquired = {}
  /\ acquiredPerHost = [k \in Keys |-> {}]
  /\ waiters = [k \in Keys |-> <<>>]
  /\ cleanupHandle = FALSE /\ cleanupTimer = FALSE
  /\ cleanupClosed = {}
  /\ fut = [r \in Tasks |-> "none"]
  /\ pc = [r \in Tasks |-> "idle"]
  /\ held = [r \in Tasks |-> NoProto]
  /\ tr = [p \in Protos |-> "none"]
  /\ expired = {}
  /\ \E k \in Keys :   \* any host: neither is read before it is set
       key = [r \in Tasks |-> k] /\ home = [p \in Protos |-> k]
----------------------------------------------------------------------------
(* Bookkeeping shared by the operations.                                   *)

\* How many more connections to k the limits allow, given the sets in use.
AvailableConnections(acq, perHost, k) ==
  LET total == IF Limit = 0 THEN 1 ELSE Limit - Cardinality(acq)
      host  == LimitPerHost - Cardinality(perHost[k])
  IN  IF Limit # 0 /\ total <= 0 THEN total
      ELSE IF LimitPerHost # 0 /\ total > host THEN host
      ELSE total

Available(k) == AvailableConnections(acquired, acquiredPerHost, k)

\* The test of _wait_for_available_connection after a wake-up.
SlotStillFree_Unchecked(k) == TRUE  \* mutant: trusts the wake-up
SlotStillFree(k) == Available(k) > 0

\* A connection _get may hand out and _cleanup keeps.
Reusable_IgnoresAge(p) == tr[p] = "open"  \* mutant: no deadline
Reusable(p) == tr[p] = "open" /\ p \notin expired

\* proto.close() on every member of S, connections to k.
CloseProtos_Dropped(S, k) ==        \* mutant: forgotten instead of closed
  UNCHANGED <<tr, expired, cleanupClosed>>
CloseProtos(S, k) ==
  /\ tr' = [p \in Protos |-> IF p \in S THEN "none" ELSE tr[p]]
  /\ expired' = expired \ S
  /\ cleanupClosed' = IF k \in SslKeys THEN cleanupClosed \cup S ELSE cleanupClosed

\* x, a placeholder or a protocol, is in use for host k.
Acquire(x, k) ==
  /\ acquired' = acquired \cup {x}
  /\ acquiredPerHost' =
       IF LimitPerHost # 0 THEN [acquiredPerHost EXCEPT ![k] = @ \cup {x}]
       ELSE acquiredPerHost

\* The test of _release_waiter whether a host can take one more connection.
CanOpen_OffByOne(acq, perHost, k) ==  \* mutant
  AvailableConnections(acq, perHost, k) > 1
CanOpen(acq, perHost, k) == AvailableConnections(acq, perHost, k) >= 1

\* Positions of the waiters of k that are not done, hosts that can take one
\* more connection, and those of them where somebody waits.
Pending(k) == {i \in DOMAIN waiters[k] : fut[waiters[k][i]] = "pending"}
OpenHosts(acq, perHost) == {k \in Keys : CanOpen(acq, perHost, k)}
LiveHosts(acq, perHost) == {k \in OpenHosts(acq, perHost) : Pending(k) # {}}

\* _release_waiter tries the hosts in a random order.  On an open host it
\* throws dead futures away until it finds a pending one, the i-th, to set.
WakeNobody(acq, perHost) ==
  /\ LiveHosts(acq, perHost) = {}
  /\ waiters' = [k \in Keys |-> IF k \in OpenHosts(acq, perHost) THEN <<>> ELSE waiters[k]]
  /\ UNCHANGED fut

WakeFirst(k, i, drained) ==
  /\ \A j \in Pending(k) : i <= j
  /\ waiters' = [h \in Keys |->
       IF h = k THEN SubSeq(waiters[k], i + 1, Len(waiters[k]))
       ELSE IF h \in drained THEN <<>> ELSE waiters[h]]
  /\ fut' = [fut EXCEPT ![waiters[k][i]] = "result"]

ReleaseWaiter(acq, perHost) ==
  \/ WakeNobody(acq, perHost)
  \/ \E k \in LiveHosts(acq, perHost) : \E i \in Pending(k) :
     \E drained \in SUBSET (OpenHosts(acq, perHost) \ LiveHosts(acq, perHost)) :
       WakeFirst(k, i, drained)

\* _release_acquired(k, x)
ReleaseAcquired_NoWakeup(k, x) ==   \* mutant: nobody is told of the free slot
  IF closed THEN UNCHANGED <<limitVars, waitVars>>
  ELSE /\ acquired' = acquired \ {x}
       /\ acquiredPerHost' = [h \in Keys |-> IF h = k /\ LimitPerHost # 0
                                THEN acquiredPerHost[h] \ {x} ELSE acquiredPerHost[h]]
       /\ UNCHANGED waitVars

ReleaseAcquired(k, x) ==
  IF closed THEN UNCHANGED <<limitVars, waitVars>>
  ELSE /\ acquired' = acquired \ {x}
       /\ acquiredPerHost' =
            IF LimitPerHost # 0 THEN [acquiredPerHost EXCEPT ![k] = @ \ {x}]
            ELSE acquiredPerHost
       /\ ReleaseWaiter(acquired', acquiredPerHost')

EndCall_KeepsProtocol(r) ==         \* mutant: _protocol is not set to None
  /\ pc' = [pc EXCEPT ![r] = IF Reconnect THEN "idle" ELSE "done"]
  /\ UNCHANGED held

\* A call that has ended leaves its task ready for another one, or done.
EndCall(r) ==
  /\ pc' = [pc EXCEPT ![r] = IF Reconnect THEN "idle" ELSE "done"]
  /\ held' = [held EXCEPT ![r] = NoProto]
----------------------------------------------------------------------------
(* connect()                                                               *)

\* A call makes a new placeholder: its name may not still be in use.
FreshPlaceholder(r) ==
  /\ r \notin acquired
  /\ \A k \in Keys : r \notin acquiredPerHost[k]

\* Protocol objects are new; a name is reused only when nothing refers to it.
FreshProto(p) ==
  /\ tr[p] # "open"
  /\ p \notin acquired \cup Idle \cup Held \cup cleanupClosed
  /\ \A k \in Keys : p \notin acquiredPerHost[k]

\* conns.popleft() of the connections in S.
PopIdle_Peek(k, S) == conns         \* mutant: reads the queue, removes nothing
PopIdle(k, S) == [conns EXCEPT ![k] = @ \ S]

\* _get finds a reusable connection behind the unusable ones of skipped.
GetHit(r, k) ==
  \E p \in conns[k], skipped \in SUBSET conns[k] :
    /\ Reusable(p)
    /\ \A s \in skipped : ~Reusable(s)
    /\ conns' = PopIdle(k, skipped \cup {p})
    /\ CloseProtos(skipped, k)
    /\ Acquire(p, k)
    /\ held' = [held EXCEPT ![r] = p]
    /\ pc' = [pc EXCEPT ![r] = IF Traced THEN "reusing" ELSE "holding"]

\* _get finds none: every idle connection of k has been closed on the way.
GetMiss(k) ==
  /\ \A p \in conns[k] : ~Reusable(p)
  /\ conns' = [conns EXCEPT ![k] = {}]
  /\ CloseProtos(conns[k], k)

StartCreating(r, k) ==
  /\ Acquire(r, k)
  /\ pc' = [pc EXCEPT ![r] = "creating"]
  /\ UNCHANGED held

\* What connect() leaves alone up to its first suspension.
Unaffected == UNCHANGED <<closed, cleanupHandle, cleanupTimer, home>>

ConnectReuse(r, k) ==
  /\ pc[r] = "idle"
  /\ key' = [key EXCEPT ![r] = k]
  /\ GetHit(r, k)
  /\ Unaffected /\ UNCHANGED waitVars

ConnectCreate(r, k) ==
  /\ pc[r] = "idle" /\ FreshPlaceholder(r)
  /\ key' = [key EXCEPT ![r] = k]
  /\ GetMiss(k)
  /\ Available(k) > 0
  /\ StartCreating(r, k)
  /\ Unaffected /\ UNCHANGED waitVars

ConnectWait(r, k) ==
  /\ pc[r] = "idle" /\ FreshPlaceholder(r)
  /\ key' = [key EXCEPT ![r] = k]
  /\ GetMiss(k)
  /\ Available(k) <= 0
  /\ waiters' = [waiters EXCEPT ![k] = Append(@, r)]
  /\ fut' = [fut EXCEPT ![r] = "pending"]
  /\ pc' = [pc EXCEPT ![r] = "waiting"]
  /\ Unaffected /\ UNCHANGED <<limitVars, held>>

\* The caller is cancelled, or its connect timeout fires.  A future that is
\* already set stays set, but the task will raise all the same.
CancelWait(r) ==
  /\ r \in Cancellable
  /\ pc[r] = "waiting" /\ fut[r] # "cancelled"
  /\ fut' = [fut EXCEPT ![r] = "cancelled"]
  /\ UNCHANGED <<closed, poolVars, limitVars, waiters, taskVars, protoVars>>

\* finally: keyed_waiters.pop(fut, None)
PopWaiter_Forgotten(r) == waiters[key[r]]  \* mutant
PopWaiter(r) ==
  LET q == waiters[key[r]]
  IN  IF \E i \in DOMAIN q : q[i] = r
      THEN RemoveAt(q, CHOOSE i \in DOMAIN q : q[i] = r) ELSE q

WaitCancelled(r) ==
  /\ pc[r] = "waiting" /\ fut[r] = "cancelled"
  /\ waiters' = [waiters EXCEPT ![key[r]] = PopWaiter(r)]
  /\ fut' = [fut EXCEPT ![r] = "none"]
  /\ EndCall(r)
  /\ UNCHANGED <<closed, poolVars, limitVars, key, protoVars>>

\* The slot was taken between the wake-up and now: wait at the front.
WaitAgain(r) ==
  /\ pc[r] = "waiting" /\ fut[r] = "result"
  /\ ~SlotStillFree(key[r])
  /\ waiters' = [waiters EXCEPT ![key[r]] = <<r>> \o PopWaiter(r)]
  /\ fut' = [fut EXCEPT ![r] = "pending"]
  /\ UNCHANGED <<closed, poolVars, limitVars, taskVars, protoVars>>

WaitDone(r) ==
  /\ pc[r] = "waiting" /\ fut[r] = "result"
  /\ SlotStillFree(key[r])
  /\ waiters' = [waiters EXCEPT ![key[r]] = PopWaiter(r)]
  /\ fut' = [fut EXCEPT ![r] = "none"]
  /\ \/ GetHit(r, key[r])
     \/ GetMiss(key[r]) /\ StartCreating(r, key[r])
  /\ Unaffected /\ UNCHANGED key

\* The placeholder gives way to the connected protocol p.
Establish(r, p) ==
  /\ acquired' = (acquired \ {r}) \cup {p}
  /\ acquiredPerHost' =
       IF LimitPerHost # 0
       THEN [acquiredPerHost EXCEPT ![key[r]] = (@ \ {r}) \cup {p}]
       ELSE acquiredPerHost
  /\ held' = [held EXCEPT ![r] = p]
  /\ pc' = [pc EXCEPT ![r] = "holding"]

\* _create_connection returns; with traces the end signal is awaited first.
Created(r) ==
  /\ pc[r] = "creating"
  /\ \E p \in Protos :
       /\ FreshProto(p)
       /\ home' = [home EXCEPT ![p] = key[r]]
       /\ expired' = expired \ {p}
       /\ \/ /\ Traced
             /\ tr' = [tr EXCEPT ![p] = "open"]
             /\ held' = [held EXCEPT ![r] = p]
             /\ pc' = [pc EXCEPT ![r] = "created"]
             /\ UNCHANGED limitVars
          \/ /\ ~Traced /\ ~closed
             /\ tr' = [tr EXCEPT ![p] = "open"]
             /\ Establish(r, p)
          \/ /\ ~Traced /\ closed
             /\ tr' = [tr EXCEPT ![p] = "none"]
             /\ EndCall(r)
             /\ UNCHANGED limitVars
  /\ UNCHANGED <<closed, poolVars, waitVars, key>>

CreateTraceEnd(r) ==
  /\ pc[r] = "created"
  /\ IF closed
     THEN /\ tr' = [tr EXCEPT ![held[r]] = "none"]
          /\ EndCall(r)
          /\ UNCHANGED limitVars
     ELSE Establish(r, held[r]) /\ UNCHANGED tr
  /\ UNCHANGED <<closed, poolVars, waitVars, key, expired, home>>

\* _create_connection or a trace signal raises, or the task is cancelled.
CreateFail(r) ==
  /\ pc[r] \in {"creating", "created"}
  /\ ReleaseAcquired(key[r], r)
  /\ EndCall(r)
  /\ UNCHANGED <<closed, poolVars, key, protoVars>>

ReuseTraceEnd(r) ==
  /\ pc[r] = "reusing"
  /\ pc' = [pc EXCEPT ![r] = "holding"]
  /\ UNCHANGED <<closed, poolVars, limitVars, waitVars, key, held, protoVars>>

\* A reuse signal raises, or the task is cancelled in it.
ReuseTraceFail_Leak(r) ==           \* mutant: no except clause
  /\ pc[r] = "reusing"
  /\ EndCall(r)
  /\ UNCHANGED <<closed, poolVars, limitVars, waitVars, key, protoVars>>

ReuseTraceFail(r) ==
  /\ pc[r] = "reusing"
  /\ ReleaseAcquired(key[r], held[r])
  /\ EndCall(r)
  /\ UNCHANGED <<closed, poolVars, key, protoVars>>
----------------------------------------------------------------------------
(* The life of a connection after connect().                               *)

\* Connection.release(), with shouldClose the protocol's should_close, which
\* connection_lost() sets; Connection.close() and Connection.__del__, with
\* shouldClose = TRUE.
Release(r, shouldClose) ==
  LET p == held[r]
      k == key[r]
  IN  /\ pc[r] = "holding"
      /\ tr[p] = "lost" => shouldClose
      /\ ReleaseAcquired(k, p)
      /\ EndCall(r)
      /\ \/ closed /\ UNCHANGED <<poolVars, tr, expired>>
         \/ /\ ~closed /\ (ForceClose \/ shouldClose)
            /\ CloseProtos({p}, k)
            /\ UNCHANGED <<conns, cleanupHandle, cleanupTimer>>
         \/ /\ ~closed /\ ~ForceClose /\ ~shouldClose
            /\ conns' = [conns EXCEPT ![k] = @ \cup {p}]
            /\ cleanupHandle' = TRUE
            /\ cleanupTimer' = (cleanupTimer \/ ~cleanupHandle)
            /\ UNCHANGED <<cleanupClosed, tr, expired>>
      /\ UNCHANGED <<closed, key, home>>

\* The peer closes the connection or the network fails.
Disconnect(p) ==
  /\ tr[p] = "open"
  /\ tr' = [tr EXCEPT ![p] = "lost"]
  /\ UNCHANGED <<closed, poolVars, limitVars, waitVars, taskVars, expired, home>>

\* Time passes: an idle connection grows older than keepalive_timeout.
Expire(p) ==
  /\ p \in Idle \ expired
  /\ expired' = expired \cup {p}
  /\ UNCHANGED <<closed, poolVars, limitVars, waitVars, taskVars, tr, home>>

\* The keep-alive timer fires: _cleanup().
Cleanup ==
  LET dead  == {p \in Idle : ~Reusable(p)}
      again == Idle # dead
  IN  /\ cleanupTimer
      /\ conns' = [k \in Keys |-> conns[k] \ dead]
      /\ tr' = [p \in Protos |-> IF p \in dead THEN "none" ELSE tr[p]]
      /\ expired' = expired \ dead
      /\ cleanupClosed' = cleanupClosed \cup
           {p \in dead : \E k \in SslKeys : p \in conns[k]}
      /\ cleanupHandle' = again
      /\ cleanupTimer' = again
      /\ UNCHANGED <<closed, limitVars, waitVars, taskVars, home>>

\* The two-second timer fires: _cleanup_closed().
CleanupClosed ==
  /\ ~closed /\ cleanupClosed # {}
  /\ cleanupClosed' = {}
  /\ UNCHANGED <<closed, conns, cleanupHandle, cleanupTimer, limitVars,
                 waitVars, taskVars, protoVars>>

\* close(): _close_immediately().  acquiredPerHost is not cleared.
CloseConnector ==
  LET gone == Idle \cup acquired
      queued == UNION {ToSet(waiters[k]) : k \in Keys}
  IN  /\ ~closed
      /\ closed' = TRUE
      /\ tr' = [p \in Protos |-> IF p \in gone THEN "none" ELSE tr[p]]
      /\ expired' = expired \ gone
      /\ conns' = [k \in Keys |-> {}]
      /\ acquired' = {}
      /\ waiters' = [k \in Keys |-> <<>>]
      /\ fut' = [r \in Tasks |-> IF r \in queued /\ fut[r] = "pending"
                                 THEN "cancelled" ELSE fut[r]]
      /\ cleanupHandle' = FALSE /\ cleanupTimer' = FALSE
      /\ cleanupClosed' = {}
      /\ UNCHANGED <<acquiredPerHost, taskVars, home>>
----------------------------------------------------------------------------
Connect(r) == \E k \in Keys : ConnectReuse(r, k) \/ ConnectCreate(r, k) \/ ConnectWait(r, k)
Wake(r) == WaitCancelled(r) \/ WaitAgain(r) \/ WaitDone(r)
Create(r) == Created(r) \/ CreateTraceEnd(r) \/ CreateFail(r)
Reuse(r) == ReuseTraceEnd(r) \/ ReuseTraceFail(r)

Next ==
  \/ \E r \in Tasks : Connect(r)
  \/ \E r \in Tasks : CancelWait(r)
  \/ \E r \in Tasks : Wake(r)
  \/ \E r \in Tasks : Create(r)
  \/ \E r \in Tasks : Reuse(r)
  \/ \E r \in Tasks, shouldClose \in BOOLEAN : Release(r, shouldClose)
  \/ \E p \in Protos : Disconnect(p)
  \/ \E p \in Protos : Expire(p)
  \/ Cleanup
  \/ CleanupClosed
  \/ CloseConnector

Spec == Init /\ [][Next]_vars

\* The event loop runs every ready callback and every timer that is due;
\* connecting is bounded by sock_connect; a caller gives its connection back.
Fairness ==
  /\ \A r \in Tasks : WF_vars(Wake(r)) /\ WF_vars(Create(r)) /\ WF_vars(Reuse(r))
  /\ \A r \in Tasks : WF_vars(\E shouldClose \in BOOLEAN : Release(r, shouldClose))
  /\ WF_vars(Cleanup) /\ WF_vars(CleanupClosed)

FairSpec == Spec /\ Fairness
----------------------------------------------------------------------------
(* Properties                                                              *)

PoolUser(r) == pc[r] \in {"reusing", "holding"}
Opener(r)   == pc[r] \in {"creating", "created"}

\* Type correctness; a task has a future exactly while it waits, and a
\* protocol exactly between getting one and giving it back.
TypeOK ==
  /\ closed \in BOOLEAN
  /\ conns \in [Keys -> SUBSET Protos]
  /\ acquired \in SUBSET (Tasks \cup Protos)
  /\ acquiredPerHost \in [Keys -> SUBSET (Tasks \cup Protos)]
  /\ waiters \in [Keys -> Seq(Tasks)]
  /\ cleanupHandle \in BOOLEAN /\ cleanupTimer \in BOOLEAN
  /\ cleanupClosed \in SUBSET Protos
  /\ fut \in [Tasks -> {"none", "pending", "result", "cancelled"}]
  /\ pc \in [Tasks -> {"idle", "waiting", "reusing", "creating", "created",
                       "holding", "done"}]
  /\ key \in [Tasks -> Keys]
  /\ held \in [Tasks -> Protos \cup {NoProto}]
  /\ tr \in [Protos -> {"none", "open", "lost"}]
  /\ expired \in SUBSET Protos
  /\ home \in [Protos -> Keys]
  /\ \A r \in Tasks : fut[r] = "none" <=> pc[r] # "waiting"
  /\ \A r \in Tasks : held[r] # NoProto <=> pc[r] \in {"created", "reusing", "holding"}

\* A queue holds only tasks that still wait for its host, each once, and every
\* task that may be woken is in it: a cancelled or served call leaves nothing
\* behind for _release_waiter to trip over, and no waiter is forgotten.
QueueOK ==
  /\ TypeOK
  /\ \A k \in Keys : \A i \in DOMAIN waiters[k] :
       pc[waiters[k][i]] = "waiting" /\ key[waiters[k][i]] = k
  /\ \A k \in Keys : \A i, j \in DOMAIN waiters[k] :
       waiters[k][i] = waiters[k][j] => i = j
  /\ \A r \in Tasks : fut[r] = "pending" =>
       \E i \in DOMAIN waiters[key[r]] : waiters[key[r]][i] = r

\* A transport is never shared: two callers never hold one protocol, nobody
\* holds a protocol that the pool may hand to the next caller, and a caller
\* or a pool queue has only connections to its own host.
ExclusiveOwnership ==
  /\ \A r, s \in Tasks : held[r] = held[s] /\ held[r] # NoProto => r = s
  /\ \A r \in Tasks, k \in Keys : held[r] \notin conns[k]
  /\ \A r \in Tasks : held[r] # NoProto => home[held[r]] = key[r]
  /\ \A k \in Keys : \A p \in conns[k] : home[p] = k

\* What call r has in use, judged by where it is; what is in use
\* altogether, and for host k.
Slot(r)  == IF Opener(r) THEN {r} ELSE IF PoolUser(r) THEN {held[r]} ELSE {}
Occupied == UNION {Slot(r) : r \in Tasks}
InUse(k) == UNION {Slot(r) : r \in {t \in Tasks : key[t] = k}}

\* The limits are computed from sets that every exit of every call has kept
\* exact: no slot is leaked by a failed, cancelled or traced call, and none
\* is given back twice.
AcquiredExact ==
  ~closed => /\ acquired = Occupied
             /\ LimitPerHost # 0 => acquiredPerHost = [k \in Keys |-> InUse(k)]

\* limit_per_host bounds what is open to a host, idle connections included,
\* whatever races between a wake-up and its check, and after close() too.
PerHostLimit ==
  LimitPerHost # 0 => \A k \in Keys : Cardinality(InUse(k) \cup conns[k]) <= LimitPerHost

\* A new connection is started only within the total limit.  (Reuse is not
\* bounded by it: reuse takes a connection without a look at the limit.)
OpensUnderLimit ==
  [][\A r \in Tasks : pc[r] # "creating" /\ pc'[r] = "creating" /\ Limit # 0
       => Cardinality(acquired') <= Limit]_vars

\* No transport is leaked: an open one is in the pool or in a task's hands,
\* and close() leaves only those of calls still inside _create_connection.
EveryTransportOwned ==
  \A p \in Protos : tr[p] = "open" =>
    \/ p \in Idle /\ ~closed
    \/ \E r \in Tasks : held[r] = p /\ (closed => pc[r] = "created")

\* No waiter is stranded: somebody who has been woken, or whose connection
\* will come back and wake the next one, is always ahead of it.
NoLostWakeup ==
  \A r \in Tasks : fut[r] = "pending" /\ ~closed
    => \E s \in Tasks : fut[s] = "result" \/ Slot(s) # {}

\* A caller in the queue of an open connector leaves it, as long as
\* connections are given back.
WaiterServed == \A r \in Tasks : pc[r] = "waiting" ~> pc[r] # "waiting" \/ closed

\* An idle connection older than keepalive_timeout is closed.
ExpiredClosed == \A p \in Protos : p \in expired ~> p \notin expired

\* The pool keeps its promise: it implements ConnectionLease.
Owner(p) ==
  IF p \in Held THEN CHOOSE r \in Tasks : held[r] = p
  ELSE IF p \in Idle THEN "pool" ELSE "nobody"

Lease == INSTANCE ConnectionLease WITH
  owner <- [p \in Protos |-> Owner(p)],
  host <- home,
  open <- {p \in Protos : tr[p] = "open"}

LeaseSpec == Lease!Spec

=============================================================================
