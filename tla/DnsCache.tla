------------------------------ MODULE DnsCache ------------------------------
(***************************************************************************)
(* Host lookups of the connector: TCPConnector._resolve_host with its      *)
(* throttle, _resolve_host_with_throttle and _DNSCacheTable, all in        *)
(* aiohttp/connector.py.                                                   *)
(*                                                                         *)
(* A task of Tasks is a caller of _resolve_host with the cache enabled and *)
(* a host name (an IP address is answered without state); it also stands   *)
(* for the future that call adds to the throttle.  A member of Lookups is  *)
(* a resolver task.  Steps are separated at the awaits.                    *)
(*                                                                         *)
(* Abstractions: the addresses of a host are not represented (next_addrs   *)
(* returns all of them, rotated), a timestamp is one bit, older than ttl or *)
(* not, and the awaits inside a lookup (its signals, the resolver) are one. *)
(* ttl_dns_cache is a number and dns_cache_max_size is positive.           *)
(***************************************************************************)
EXTENDS Integers, Sequences, FiniteSets, SequencesExt

CONSTANTS
  Tasks,    \* callers of _resolve_host
  Hosts,    \* (host, port) keys
  Lookups,  \* resolver tasks
  NoLookup, \* "no lookup"
  NoHost,   \* "no host"
  MaxSize,  \* dns_cache_max_size
  Clearing  \* whether clear_dns_cache() may be called

DnsAssumption ==
  /\ NoLookup \notin Lookups /\ NoHost \notin Hosts
  /\ MaxSize \in Nat \ {0} /\ Clearing \in BOOLEAN

VARIABLES
  closed,    \* _closed
  eager,     \* tasks start eagerly: Python 3.12 or later
  cached,    \* _addrs_rr: hosts in the order of their last use
  stamp,     \* _timestamps: "none", "fresh" or "old" for each host
  throttle,  \* _throttle_dns_futures: the lookup that owns a host's entry
  lookup,    \* where each resolver task is
  target,    \* the host each lookup is for
  futures,   \* the futures set of each lookup
  pc,        \* where each caller is suspended
  host,      \* the host each caller asks for
  joined,    \* the lookup each caller waits for
  fut,       \* the future, or shielded task, each caller awaits
  cancelled  \* callers that task.cancel() was called on

cacheVars == <<cached, stamp>>
lookupVars == <<throttle, lookup, target, futures>>
callVars == <<pc, host, joined, fut, cancelled>>
vars == <<closed, eager, cacheVars, lookupVars, callVars>>

Init ==
  /\ closed = FALSE /\ eager \in BOOLEAN
  /\ cached = <<>> /\ stamp = [h \in Hosts |-> "none"]
  /\ throttle = [h \in Hosts |-> NoLookup]
  /\ lookup = [l \in Lookups |-> "free"]
  /\ futures = [l \in Lookups |-> {}]
  /\ pc = [r \in Tasks |-> "idle"]
  /\ joined = [r \in Tasks |-> NoLookup]
  /\ fut = [r \in Tasks |-> "none"]
  /\ cancelled = {}
  /\ target = [l \in Lookups |-> NoHost] /\ host = [r \in Tasks |-> NoHost]
----------------------------------------------------------------------------
(* _DNSCacheTable                                                          *)

InCache(h) == \E i \in DOMAIN cached : cached[i] = h
Hit(h) == InCache(h) /\ stamp[h] = "fresh"

Position(h) == CHOOSE i \in DOMAIN cached : cached[i] = h
Without(h) == IF InCache(h) THEN RemoveAt(cached, Position(h)) ELSE cached

\* An entry becomes the most recently used one.
MovedToEnd(h) == Append(Without(h), h)

NextAddrs(h) ==
  /\ cached' = MovedToEnd(h)
  /\ UNCHANGED stamp

AddEntry_KeepsStamp(h) ==  \* mutant: the evicted entry's timestamp stays
  /\ cached' = IF Len(MovedToEnd(h)) > MaxSize THEN Tail(MovedToEnd(h)) ELSE MovedToEnd(h)
  /\ stamp' = [stamp EXCEPT ![h] = "fresh"]

AddEntry(h) ==
  LET all  == MovedToEnd(h)
      full == Len(all) > MaxSize
  IN  /\ cached' = IF full THEN Tail(all) ELSE all
      /\ stamp' = [g \in Hosts |-> IF g = h THEN "fresh"
                                   ELSE IF full /\ g = Head(all) THEN "none" ELSE stamp[g]]

\* clear_dns_cache(host, port), and clear_dns_cache() without arguments.
ClearDnsCache ==
  /\ Clearing
  /\ \/ \E h \in Hosts : cached' = Without(h) /\ stamp' = [stamp EXCEPT ![h] = "none"]
     \/ cached' = <<>> /\ stamp' = [h \in Hosts |-> "none"]
  /\ UNCHANGED <<closed, eager, lookupVars, callVars>>

\* Time passes: an entry grows older than ttl.
Age(h) ==
  /\ stamp[h] = "fresh"
  /\ stamp' = [stamp EXCEPT ![h] = "old"]
  /\ UNCHANGED <<closed, eager, cached, lookupVars, callVars>>
----------------------------------------------------------------------------
(* _resolve_host                                                           *)

Return_KeepsFuture(r) ==  \* mutant
  /\ pc' = [pc EXCEPT ![r] = "idle"]
  /\ joined' = [joined EXCEPT ![r] = NoLookup]
  /\ cancelled' = cancelled \ {r}
  /\ host' = [host EXCEPT ![r] = NoHost]
  /\ UNCHANGED fut

\* The call returns the addresses or raises.
Return(r) ==
  /\ pc' = [pc EXCEPT ![r] = "idle"]
  /\ joined' = [joined EXCEPT ![r] = NoLookup]
  /\ fut' = [fut EXCEPT ![r] = "none"]
  /\ cancelled' = cancelled \ {r}
  /\ host' = [host EXCEPT ![r] = NoHost]

\* The addresses are read before any await; the cache-hit signals, awaited
\* next, change nothing.
ResolveHit(r, h) ==
  /\ pc[r] = "idle" /\ Hit(h)
  /\ NextAddrs(h)
  /\ UNCHANGED <<closed, eager, lookupVars, callVars>>

\* A lookup for h is under way: wait for its result, in a session with traces
\* after the cache-hit signals.
ResolveJoin(r, h) ==
  LET l == throttle[h]
  IN  /\ pc[r] = "idle" /\ ~Hit(h) /\ l # NoLookup
      /\ futures' = [futures EXCEPT ![l] = @ \cup {r}]
      /\ joined' = [joined EXCEPT ![r] = l]
      /\ fut' = [fut EXCEPT ![r] = "pending"]
      /\ \E next \in {"joining", "waiting"} : pc' = [pc EXCEPT ![r] = next]
      /\ host' = [host EXCEPT ![r] = h]
      /\ UNCHANGED <<closed, eager, cacheVars, throttle, lookup, target, cancelled>>

\* Resolver tasks are new: a name is reused only when nothing refers to it.
FreshLookup(l) == lookup[l] = "free" /\ \A r \in Tasks : joined[r] # l

\* No lookup is under way: start one and await it behind a shield.
ResolveLead(r, h) ==
  /\ pc[r] = "idle" /\ ~Hit(h) /\ throttle[h] = NoLookup
  /\ \E l \in Lookups :
       /\ FreshLookup(l)
       /\ throttle' = [throttle EXCEPT ![h] = l]
       /\ lookup' = [lookup EXCEPT ![l] = IF eager THEN "running" ELSE "spawned"]
       /\ target' = [target EXCEPT ![l] = h]
       /\ futures' = [futures EXCEPT ![l] = {}]
       /\ joined' = [joined EXCEPT ![r] = l]
  /\ fut' = [fut EXCEPT ![r] = "pending"]
  /\ pc' = [pc EXCEPT ![r] = "leading"]
  /\ host' = [host EXCEPT ![r] = h]
  /\ UNCHANGED <<closed, eager, cacheVars, cancelled>>

\* The cache-hit signals return; or one raises, or the caller is cancelled in
\* it (the future it leaves in the set is garbage).
JoinTraceEnd(r) ==
  /\ pc[r] = "joining"
  /\ \/ /\ r \notin cancelled
        /\ pc' = [pc EXCEPT ![r] = "waiting"]
        /\ UNCHANGED <<futures, host, joined, fut, cancelled>>
     \/ /\ futures' = [futures EXCEPT ![joined[r]] = @ \ {r}]
        /\ Return(r)
  /\ UNCHANGED <<closed, eager, cacheVars, throttle, lookup, target>>

\* The caller's future is done with a result: it takes the addresses out of
\* the cache, or raises KeyError when they are no longer there.
Answered(r) == pc[r] = "waiting" /\ fut[r] = "result" /\ r \notin cancelled

JoinEnd(r) ==
  /\ pc[r] = "waiting" /\ fut[r] # "pending"
  /\ futures' = [futures EXCEPT ![joined[r]] = @ \ {r}]
  /\ Return(r)
  /\ IF Answered(r) /\ InCache(host[r]) THEN NextAddrs(host[r]) ELSE UNCHANGED cacheVars
  /\ UNCHANGED <<closed, eager, throttle, lookup, target>>

\* The shielded lookup is done, or the caller alone is cancelled.
LeadEnd(r) ==
  /\ pc[r] = "leading" /\ fut[r] # "pending"
  /\ Return(r)
  /\ UNCHANGED <<closed, eager, cacheVars, lookupVars>>

\* task.cancel(): cancels what the caller awaits, a future of its own or the
\* outer future of the shield, but not the lookup behind it.
CancelCaller_NoShield(r) ==  \* mutant: the lookup is awaited without a shield
  /\ pc[r] # "idle" /\ r \notin cancelled
  /\ cancelled' = cancelled \cup {r}
  /\ fut' = IF pc[r] \in {"waiting", "leading"} /\ fut[r] = "pending"
            THEN [fut EXCEPT ![r] = "cancelled"] ELSE fut
  /\ lookup' = IF pc[r] = "leading" /\ lookup[joined[r]] = "running"
               THEN [lookup EXCEPT ![joined[r]] = "cancelling"] ELSE lookup
  /\ UNCHANGED <<closed, eager, cacheVars, throttle, target, futures, pc, host, joined>>

CancelCaller(r) ==
  /\ pc[r] # "idle" /\ r \notin cancelled
  /\ cancelled' = cancelled \cup {r}
  /\ fut' = IF pc[r] \in {"waiting", "leading"} /\ fut[r] = "pending"
            THEN [fut EXCEPT ![r] = "cancelled"] ELSE fut
  /\ UNCHANGED <<closed, eager, cacheVars, lookupVars, pc, host, joined>>
----------------------------------------------------------------------------
(* _resolve_host_with_throttle                                             *)

\* The callers whose future, or shield, lookup l completes.
Listeners(l) ==
  {r \in Tasks : joined[r] = l /\ (r \in futures[l] \/ pc[r] = "leading")}

Complete_LeaderOnly(l, state) ==  \* mutant: the futures are not set
  fut' = [r \in Tasks |-> IF joined[r] = l /\ pc[r] = "leading" /\ fut[r] = "pending"
                          THEN state ELSE fut[r]]
Complete(l, state) ==
  fut' = [r \in Tasks |-> IF r \in Listeners(l) /\ fut[r] = "pending" THEN state ELSE fut[r]]

\* finally: _throttle_dns_futures.pop(key).  What is left in the futures set is
\* of no use any more.
Finish_KeepsEntry(l, failed) ==  \* mutant: popped on success only
  /\ lookup' = [lookup EXCEPT ![l] = "free"]
  /\ target' = [target EXCEPT ![l] = NoHost]
  /\ futures' = [futures EXCEPT ![l] = {}]
  /\ throttle' = IF failed THEN throttle ELSE [throttle EXCEPT ![target[l]] = NoLookup]
Finish(l, failed) ==
  /\ lookup' = [lookup EXCEPT ![l] = "free"]
  /\ target' = [target EXCEPT ![l] = NoHost]
  /\ futures' = [futures EXCEPT ![l] = {}]
  /\ throttle' = [throttle EXCEPT ![target[l]] = NoLookup]

LookupBegin(l) ==
  /\ lookup[l] = "spawned"
  /\ lookup' = [lookup EXCEPT ![l] = "running"]
  /\ UNCHANGED <<closed, eager, cacheVars, throttle, target, futures, callVars>>

LookupDone(l) ==
  /\ lookup[l] = "running"
  /\ AddEntry(target[l])
  /\ Complete(l, "result")
  /\ Finish(l, FALSE)
  /\ UNCHANGED <<closed, eager, pc, host, joined, cancelled>>

\* The resolver or a signal raises, or close() has cancelled the lookup.
LookupFail(l) ==
  /\ \/ lookup[l] = "running" /\ Complete(l, "error")
     \/ lookup[l] = "cancelling" /\ Complete(l, "cancelled")
  /\ Finish(l, TRUE)
  /\ UNCHANGED <<closed, eager, cacheVars, pc, host, joined, cancelled>>

\* A task cancelled before it first ran never enters its try block.
LookupDropped(l) ==
  /\ lookup[l] = "dropping"
  /\ lookup' = [lookup EXCEPT ![l] = "dropped"]
  /\ fut' = [r \in Tasks |-> IF joined[r] = l /\ pc[r] = "leading" /\ fut[r] = "pending"
                             THEN "cancelled" ELSE fut[r]]
  /\ UNCHANGED <<closed, eager, cacheVars, throttle, target, futures,
                 pc, host, joined, cancelled>>

\* TCPConnector._close_immediately()
CloseConnector ==
  LET throttled == {r \in Tasks : \E h \in Hosts :
                      throttle[h] # NoLookup /\ joined[r] = throttle[h] /\ r \in futures[throttle[h]]}
  IN  /\ ~closed
      /\ closed' = TRUE
      /\ fut' = [r \in Tasks |-> IF r \in throttled /\ fut[r] = "pending"
                                 THEN "cancelled" ELSE fut[r]]
      /\ lookup' = [l \in Lookups |->
           IF lookup[l] = "spawned" THEN "dropping"
           ELSE IF lookup[l] = "running" THEN "cancelling"
           ELSE lookup[l]]
      /\ UNCHANGED <<eager, cacheVars, throttle, target, futures,
                     pc, host, joined, cancelled>>
----------------------------------------------------------------------------
Resolve(r) == \E h \in Hosts : ResolveHit(r, h) \/ ResolveJoin(r, h) \/ ResolveLead(r, h)
Resume(r) == JoinTraceEnd(r) \/ JoinEnd(r) \/ LeadEnd(r)
RunLookup(l) ==
  LookupBegin(l) \/ LookupDone(l) \/ LookupFail(l) \/ LookupDropped(l)

Next ==
  \/ \E r \in Tasks : Resolve(r) \/ Resume(r) \/ CancelCaller(r)
  \/ \E l \in Lookups : RunLookup(l)
  \/ \E h \in Hosts : Age(h)
  \/ ClearDnsCache
  \/ CloseConnector

Spec == Init /\ [][Next]_vars

\* The event loop runs what is ready; a resolver answers or fails in the end.
FairSpec ==
  /\ Spec
  /\ \A r \in Tasks : WF_vars(Resume(r))
  /\ \A l \in Lookups : WF_vars(RunLookup(l))
----------------------------------------------------------------------------
(* Properties                                                              *)

\* Type correctness; a caller awaits something exactly while it is suspended
\* on a lookup.
TypeOK ==
  /\ closed \in BOOLEAN /\ eager \in BOOLEAN
  /\ cached \in Seq(Hosts) /\ stamp \in [Hosts -> {"none", "fresh", "old"}]
  /\ throttle \in [Hosts -> Lookups \cup {NoLookup}]
  /\ lookup \in [Lookups -> {"free", "spawned", "running", "cancelling",
                             "dropping", "dropped"}]
  /\ target \in [Lookups -> Hosts \cup {NoHost}]
  /\ futures \in [Lookups -> SUBSET Tasks]
  /\ pc \in [Tasks -> {"idle", "joining", "waiting", "leading"}]
  /\ host \in [Tasks -> Hosts \cup {NoHost}]
  /\ joined \in [Tasks -> Lookups \cup {NoLookup}]
  /\ fut \in [Tasks -> {"none", "pending", "result", "error", "cancelled"}]
  /\ cancelled \in SUBSET Tasks
  /\ \A r \in Tasks : fut[r] # "none" <=> pc[r] # "idle"

\* One lookup per host, and the throttle entry lives exactly as long as it: a
\* failed, cancelled or raced lookup neither leaves an entry that later calls
\* would wait on nor removes one that is in use.
ThrottleExact ==
  \A l \in Lookups, h \in Hosts :
    throttle[h] = l <=> lookup[l] # "free" /\ target[l] = h

\* Callers share a lookup but not their fates: one is interrupted only by its
\* own cancellation or by close(), never because the caller that started the
\* lookup, or another one that waits, was cancelled.
Isolation ==
  \A r \in Tasks : fut[r] = "cancelled" => closed \/ r \in cancelled

\* The cache never outgrows max_size, and has a timestamp for exactly the
\* hosts it holds: expired() reads it for every hit.
CacheExact ==
  /\ Len(cached) <= MaxSize
  /\ \A h \in Hosts : stamp[h] # "none" <=> InCache(h)
  /\ \A i, j \in DOMAIN cached : cached[i] = cached[j] => i = j

\* Who waits is waited for: a caller that shares a lookup is among those this
\* lookup will wake, and the lookup is under way for its host, whoever was
\* cancelled meanwhile; only where tasks do not start eagerly, close() may cancel
\* a lookup before it ran, which then wakes nobody but the caller that started it.
UnderWay(l, h) ==
  /\ l \in Lookups /\ target[l] = h
  /\ lookup[l] \in {"spawned", "running", "cancelling"} \/ (lookup[l] = "dropping" /\ closed /\ ~eager)
WaiterIsAnswered ==
  \A r \in Tasks : pc[r] # "idle" /\ fut[r] = "pending" =>
    \/ UnderWay(joined[r], host[r]) /\ (pc[r] = "leading" \/ r \in futures[joined[r]])
    \/ pc[r] # "leading" /\ closed /\ ~eager

\* Every call ends; after close() only where tasks start eagerly, for a lookup
\* cancelled before it ran leaves its throttle entry behind.
Returns ==
  \A r \in Tasks : pc[r] # "idle" ~> pc[r] = "idle" \/ (closed /\ ~eager)

\* "We wait for the first one to resolve and then use the result for all of
\* them" (comment of _resolve_host).  The code breaks it: the answer is read
\* again from the cache, which may have lost it.
ResultForAll ==
  [][\A r \in Tasks : Answered(r) /\ pc'[r] = "idle" => InCache(host[r])]_vars
=============================================================================
