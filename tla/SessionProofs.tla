---------------------------- MODULE SessionProofs ----------------------------
(***************************************************************************)
(* What concurrent requests of one client session share: the lookups of    *)
(* hosts (DnsCache), and a digest middleware (DigestAuth, the instance     *)
(* Digest in the second half).                                             *)
(*                                                                         *)
(* Host lookups, for any number of callers, hosts and lookups and every    *)
(* size of the cache: the callers that share a lookup do not share its     *)
(* cancellation, each of them is among those the lookup will wake, the     *)
(* throttle has an entry exactly while a lookup is on, and the cache and   *)
(* its timestamps agree.                                                   *)
(*                                                                         *)
(* IInv is inductive.  It adds to the properties that a lookup has a host  *)
(* exactly while it is on, that only close() cancels one, and before it    *)
(* ran only where tasks do not start eagerly (Begun), and that whoever is  *)
(* suspended knows its host and its lookup (Suspended).                    *)
(***************************************************************************)
EXTENDS DnsCache, QueueLemmas

Stamps == {"none", "fresh", "old"}
CacheOK == cached \in Seq(Hosts) /\ stamp \in [Hosts -> Stamps] /\ CacheExact

Begun ==
  \A l \in Lookups :
    /\ lookup[l] = "free" <=> target[l] = NoHost
    /\ lookup[l] \in {"cancelling", "dropping", "dropped"} => closed
    /\ lookup[l] \in {"spawned", "dropping", "dropped"} => ~eager

Suspended == \A r \in Tasks : pc[r] # "idle" => host[r] \in Hosts /\ joined[r] \in Lookups

IInv ==
  /\ TypeOK /\ Begun /\ Suspended
  /\ ThrottleExact /\ CacheExact /\ Isolation /\ WaiterIsAnswered
-----------------------------------------------------------------------------
(* The cache                                                               *)

LEMMA InCacheIsIn == ASSUME NEW h PROVE InCache(h) <=> In(cached, h)
BY DEF InCache, In

\* An entry is taken out.
LEMMA WithoutProperties ==
  ASSUME cached \in Seq(Hosts), Once(cached), NEW h \in Hosts
  PROVE  /\ Without(h) \in Seq(Hosts) /\ Once(Without(h))
         /\ \A g : In(Without(h), g) <=> In(cached, g) /\ g # h
         /\ Len(Without(h)) <= Len(cached)
         /\ InCache(h) => Len(Without(h)) = Len(cached) - 1
<1>0. Len(cached) \in Nat
  BY LenProperties
<1>1. CASE InCache(h)
  <2>1. Position(h) \in DOMAIN cached /\ cached[Position(h)] = h
    BY <1>1 DEF InCache, Position
  <2>2. Position(h) \in 1 .. Len(cached)
    BY <2>1, LenProperties
  <2>3. Without(h) = RemoveAt(cached, Position(h))
    BY <1>1 DEF Without
  <2>4. Without(h) \in Seq(Hosts) /\ Len(Without(h)) = Len(cached) - 1
    BY <2>2, <2>3, RemoveAtProperties
  <2>5. Once(Without(h)) /\ \A g : In(Without(h), g) <=> In(cached, g) /\ g # h
    BY <2>1, <2>3, OnceRemove
  <2> QED BY <1>0, <2>4, <2>5
<1>2. CASE ~InCache(h)
  BY <1>0, <1>2, InCacheIsIn DEF Without
<1> QED BY <1>1, <1>2

\* It is put at the end.
LEMMA MovedProperties ==
  ASSUME cached \in Seq(Hosts), Once(cached), NEW h \in Hosts
  PROVE  /\ MovedToEnd(h) \in Seq(Hosts) /\ Once(MovedToEnd(h)) /\ MovedToEnd(h) # <<>>
         /\ \A g : In(MovedToEnd(h), g) <=> In(cached, g) \/ g = h
         /\ Len(MovedToEnd(h)) \in Nat /\ Len(MovedToEnd(h)) <= Len(cached) + 1
         /\ InCache(h) => Len(MovedToEnd(h)) = Len(cached)
<1> DEFINE q == Without(h)
<1>1. /\ q \in Seq(Hosts) /\ Once(q) /\ \A g : In(q, g) <=> In(cached, g) /\ g # h
      /\ Len(q) <= Len(cached) /\ (InCache(h) => Len(q) = Len(cached) - 1)
  BY WithoutProperties
<1>2. MovedToEnd(h) = Append(q, h)
  BY DEF MovedToEnd
<1> HIDE DEF q
<1>3. Once(Append(q, h)) /\ \A g : In(Append(q, h), g) <=> In(q, g) \/ g = h
  BY <1>1, OnceAppend
<1>4. Append(q, h) \in Seq(Hosts) /\ Len(Append(q, h)) = Len(q) + 1 /\ Len(q) \in Nat /\ Len(cached) \in Nat
  BY <1>1, AppendProperties, LenProperties
<1>5. Append(q, h) # <<>>
  <2>1. Len(Append(q, h)) # 0
    BY <1>4
  <2>2. Len(<<>>) = 0
    OBVIOUS
  <2> QED BY <2>1, <2>2, Zenon
<1> QED BY <1>1, <1>2, <1>3, <1>4, <1>5

LEMMA CacheExactIs ==
  CacheExact <=> Len(cached) <= MaxSize /\ Once(cached)
                 /\ \A h \in Hosts : stamp[h] # "none" <=> In(cached, h)
BY InCacheIsIn DEF CacheExact, Once

LEMMA CacheExactNext ==
  CacheExact' <=> Len(cached') <= MaxSize /\ Once(cached')
                  /\ \A h \in Hosts : stamp'[h] # "none" <=> In(cached', h)
BY DEF CacheExact, Once, InCache, In

LEMMA NextAddrsKeeps ==
  ASSUME CacheOK, NEW h \in Hosts, InCache(h), NextAddrs(h)
  PROVE  CacheOK'
<1>1. Once(cached) /\ cached \in Seq(Hosts)
  BY CacheExactIs DEF CacheOK
<1>2. cached' = MovedToEnd(h) /\ stamp' = stamp
  BY DEF NextAddrs
<1>3. /\ cached' \in Seq(Hosts) /\ Once(cached') /\ Len(cached') = Len(cached)
      /\ \A g : In(cached', g) <=> In(cached, g) \/ g = h
  BY <1>1, <1>2, MovedProperties
<1>4. In(cached, h)
  BY InCacheIsIn
<1> QED BY <1>2, <1>3, <1>4, CacheExactIs, CacheExactNext DEF CacheOK

LEMMA AddEntryKeeps ==
  ASSUME DnsAssumption, CacheOK, NEW h \in Hosts, AddEntry(h)
  PROVE  CacheOK'
<1> DEFINE all == MovedToEnd(h)
<1>1. /\ cached \in Seq(Hosts) /\ Once(cached) /\ Len(cached) <= MaxSize
      /\ \A g \in Hosts : stamp[g] # "none" <=> In(cached, g)
  BY CacheExactIs DEF CacheOK
<1>2. /\ all \in Seq(Hosts) /\ Once(all) /\ all # <<>>
      /\ \A g : In(all, g) <=> In(cached, g) \/ g = h
      /\ Len(all) \in Nat /\ Len(all) <= Len(cached) + 1
      /\ InCache(h) => Len(all) = Len(cached)
  BY <1>1, MovedProperties
<1>3. /\ cached' = IF Len(all) > MaxSize THEN Tail(all) ELSE all
      /\ stamp' = [g \in Hosts |-> IF g = h THEN "fresh"
                     ELSE IF Len(all) > MaxSize /\ g = Head(all) THEN "none" ELSE stamp[g]]
  BY DEF AddEntry
<1> HIDE DEF all
<1>4. Len(cached) \in Nat /\ MaxSize \in Nat \ {0}
  BY <1>1, LenProperties DEF DnsAssumption
<1>5. stamp' \in [Hosts -> Stamps]
  BY <1>3 DEF CacheOK, Stamps
<1>6. CASE ~(Len(all) > MaxSize)
  <2>1. cached' = all /\ \A g \in Hosts : stamp'[g] = IF g = h THEN "fresh" ELSE stamp[g]
    BY <1>3, <1>6
  <2>2. Len(cached') <= MaxSize
    BY <1>2, <1>4, <1>6, <2>1
  <2> QED BY <1>1, <1>2, <1>5, <2>1, <2>2, CacheExactNext DEF CacheOK
<1>7. CASE Len(all) > MaxSize
  <2>1. /\ cached' = Tail(all)
        /\ \A g \in Hosts : stamp'[g] = IF g = h THEN "fresh" ELSE IF g = Head(all) THEN "none" ELSE stamp[g]
    BY <1>3, <1>7
  <2>2. /\ Tail(all) \in Seq(Hosts) /\ Once(Tail(all))
        /\ \A g : In(Tail(all), g) <=> In(all, g) /\ g # Head(all)
    BY <1>2, OnceTail
  <2>3. Len(Tail(all)) = Len(all) - 1
    BY <1>2, HeadTailProperties
  <2>4. Len(cached') <= MaxSize
    BY <1>1, <1>2, <1>4, <2>1, <2>3
  <2>5. Head(all) # h
    \* h is the last of at least two
    <3>1. Len(all) >= 2 /\ ~In(cached, h)
      BY <1>1, <1>2, <1>4, <1>7, InCacheIsIn
    <3>2. all = Append(Without(h), h) /\ Without(h) = cached
      BY <3>1, InCacheIsIn DEF all, MovedToEnd, Without
    <3>3. Head(all) = all[1] /\ DOMAIN all = 1 .. Len(all)
      BY <1>2, LenProperties, HeadTailProperties
    <3>4. all[Len(all)] = h
      BY <1>1, <1>4, <3>2, AppendProperties
    <3> QED BY <1>2, <3>1, <3>3, <3>4 DEF Once
  <2> QED BY <1>1, <1>2, <1>5, <2>1, <2>2, <2>4, <2>5, CacheExactNext DEF CacheOK
<1> QED BY <1>6, <1>7

LEMMA ClearKeeps ==
  ASSUME DnsAssumption, CacheOK, ClearDnsCache
  PROVE  CacheOK'
<1>0. /\ cached \in Seq(Hosts) /\ Once(cached) /\ Len(cached) <= MaxSize /\ Len(cached) \in Nat
      /\ MaxSize \in Nat /\ \A g \in Hosts : stamp[g] # "none" <=> In(cached, g)
  BY CacheExactIs, LenProperties DEF CacheOK, DnsAssumption
<1>1. ASSUME NEW h \in Hosts, cached' = Without(h), stamp' = [stamp EXCEPT ![h] = "none"]
      PROVE  CacheOK'
  <2>1. /\ cached' \in Seq(Hosts) /\ Once(cached') /\ Len(cached') <= Len(cached)
        /\ \A g : In(cached', g) <=> In(cached, g) /\ g # h
    BY <1>0, <1>1, WithoutProperties
  <2>2. stamp' \in [Hosts -> Stamps] /\ \A g \in Hosts : stamp'[g] = IF g = h THEN "none" ELSE stamp[g]
    BY <1>1 DEF CacheOK, Stamps
  <2>3. Len(cached') <= MaxSize
    BY <1>0, <2>1, LenProperties
  <2> QED BY <1>0, <2>1, <2>2, <2>3, CacheExactNext DEF CacheOK
<1>2. ASSUME cached' = <<>>, stamp' = [h \in Hosts |-> "none"]
      PROVE  CacheOK'
  <2>1. cached' \in Seq(Hosts) /\ Len(cached') = 0 /\ DOMAIN cached' = {}
    BY <1>2
  <2> QED BY <1>0, <1>2, <2>1, CacheExactNext DEF CacheOK, Once, In, Stamps
<1> QED BY <1>1, <1>2 DEF ClearDnsCache

LEMMA AgeKeeps ==
  ASSUME CacheOK, NEW h \in Hosts, Age(h)
  PROVE  CacheOK'
BY CacheExactIs, CacheExactNext DEF CacheOK, Age, Stamps

\* Every step keeps the cache in order.
LEMMA CacheStep ==
  ASSUME DnsAssumption, IInv, [Next]_vars
  PROVE  CacheOK'
<1>1. CacheOK
  BY DEF IInv, TypeOK, CacheOK, Stamps
<1>2. CASE UNCHANGED <<cached, stamp>>
  BY <1>1, <1>2 DEF CacheOK, CacheExact, InCache
<1>3. ASSUME NEW r \in Tasks, NEW h \in Hosts, ResolveHit(r, h) PROVE CacheOK'
  BY <1>1, <1>3, NextAddrsKeeps DEF ResolveHit, Hit
<1>4. ASSUME NEW r \in Tasks, JoinEnd(r) PROVE CacheOK'
  <2>1. host[r] \in Hosts
    BY <1>4 DEF IInv, Suspended, JoinEnd
  <2> QED BY <1>1, <1>2, <1>4, <2>1, NextAddrsKeeps DEF JoinEnd, cacheVars
<1>5. ASSUME NEW l \in Lookups, LookupDone(l) PROVE CacheOK'
  <2>1. target[l] \in Hosts
    BY <1>5 DEF LookupDone, IInv, Begun, TypeOK
  <2> QED BY <1>1, <1>5, <2>1, AddEntryKeeps DEF LookupDone
<1>6. CASE ClearDnsCache
  BY <1>1, <1>6, ClearKeeps
<1>7. ASSUME NEW h \in Hosts, Age(h) PROVE CacheOK'
  BY <1>1, <1>7, AgeKeeps
<1>8. ASSUME NEW r \in Tasks, Resume(r) \/ CancelCaller(r) PROVE CacheOK'
  BY <1>2, <1>4, <1>8 DEF Resume, CancelCaller, JoinTraceEnd, LeadEnd, cacheVars
<1>9. ASSUME NEW r \in Tasks, Resolve(r) PROVE CacheOK'
  BY <1>2, <1>3, <1>9 DEF Resolve, ResolveJoin, ResolveLead, cacheVars
<1>10. ASSUME NEW l \in Lookups, RunLookup(l) PROVE CacheOK'
  BY <1>2, <1>5, <1>10 DEF RunLookup, LookupBegin, LookupFail, LookupDropped, cacheVars
<1>11. CASE CloseConnector \/ UNCHANGED vars
  BY <1>2, <1>11 DEF CloseConnector, vars, cacheVars
<1> QED BY <1>6, <1>7, <1>8, <1>9, <1>10, <1>11 DEF Next
-----------------------------------------------------------------------------
(* Callers and lookups                                                     *)

\* What an action does to the callers and the lookups.
Calls ==
  /\ closed \in BOOLEAN /\ eager \in BOOLEAN
  /\ throttle \in [Hosts -> Lookups \cup {NoLookup}]
  /\ lookup \in [Lookups -> {"free", "spawned", "running", "cancelling", "dropping", "dropped"}]
  /\ target \in [Lookups -> Hosts \cup {NoHost}]
  /\ futures \in [Lookups -> SUBSET Tasks]
  /\ pc \in [Tasks -> {"idle", "joining", "waiting", "leading"}]
  /\ host \in [Tasks -> Hosts \cup {NoHost}]
  /\ joined \in [Tasks -> Lookups \cup {NoLookup}]
  /\ fut \in [Tasks -> {"none", "pending", "result", "error", "cancelled"}]
  /\ cancelled \in SUBSET Tasks
  /\ \A r \in Tasks : fut[r] # "none" <=> pc[r] # "idle"

Shared == Begun /\ Suspended /\ ThrottleExact /\ Isolation /\ WaiterIsAnswered

LEMMA Parts == IInv <=> CacheOK /\ Calls /\ Shared
BY DEF IInv, CacheOK, Calls, Shared, TypeOK, Stamps

LEMMA PartsNext == CacheOK' /\ Calls' /\ Shared' => IInv'
BY DEF IInv, CacheOK, Calls, Shared, TypeOK, Stamps

\* Nothing but the cache changes.
LEMMA CacheOnlyKeeps ==
  ASSUME Calls, Shared, UNCHANGED <<closed, eager, lookupVars, callVars>>
  PROVE  Calls' /\ Shared'
BY DEF Calls, Shared, Begun, Suspended, ThrottleExact, Isolation, WaiterIsAnswered, UnderWay,
       lookupVars, callVars

\* A call joins the lookup that is under way.
LEMMA JoinKeeps ==
  ASSUME DnsAssumption, Calls, Shared, NEW r \in Tasks, NEW h \in Hosts, ResolveJoin(r, h)
  PROVE  Calls' /\ Shared'
<1> DEFINE l == throttle[h]
<1>1. l \in Lookups /\ lookup[l] # "free" /\ target[l] = h
  BY DEF ResolveJoin, Calls, Shared, ThrottleExact
<1>2. /\ futures' = [futures EXCEPT ![l] = @ \cup {r}] /\ joined' = [joined EXCEPT ![r] = l]
      /\ fut' = [fut EXCEPT ![r] = "pending"] /\ host' = [host EXCEPT ![r] = h]
      /\ UNCHANGED <<closed, eager, throttle, lookup, target, cancelled>>
  BY DEF ResolveJoin
<1>3. PICK next \in {"joining", "waiting"} : pc' = [pc EXCEPT ![r] = next]
  BY DEF ResolveJoin
<1> HIDE DEF l
<1>4. Calls'
  BY <1>1, <1>2, <1>3 DEF Calls
<1>5. Begun' /\ ThrottleExact' /\ Isolation'
  BY <1>2 DEF Shared, Begun, ThrottleExact, Isolation, Calls
<1>6. Suspended'
  BY <1>1, <1>2, <1>3 DEF Shared, Suspended, Calls
<1>7. WaiterIsAnswered'
  <2> SUFFICES ASSUME NEW s \in Tasks, pc'[s] # "idle", fut'[s] = "pending"
               PROVE  \/ UnderWay(joined[s], host[s])' /\ (pc'[s] = "leading" \/ s \in futures'[joined'[s]])
                      \/ pc'[s] # "leading" /\ closed' /\ ~eager'
    BY DEF WaiterIsAnswered
  <2>1. CASE s = r
    <3>1. joined'[s] = l /\ host'[s] = h /\ s \in futures'[l] /\ pc'[s] # "leading"
      BY <1>1, <1>2, <1>3, <2>1 DEF Calls
    <3>2. \/ lookup[l] \in {"spawned", "running", "cancelling", "dropping"}
          \/ lookup[l] = "dropped"
      BY <1>1 DEF Calls
    <3>3. lookup[l] \in {"dropping", "dropped"} => closed /\ ~eager
      BY <1>1 DEF Shared, Begun
    <3> QED BY <1>1, <1>2, <3>1, <3>2, <3>3 DEF UnderWay
  <2>2. CASE s # r
    <3>1. /\ pc'[s] = pc[s] /\ fut'[s] = fut[s] /\ joined'[s] = joined[s] /\ host'[s] = host[s]
          /\ futures[joined[s]] \subseteq futures'[joined[s]]
      BY <1>1, <1>2, <1>3, <2>2 DEF Calls
    <3> QED BY <1>2, <3>1 DEF Shared, WaiterIsAnswered, UnderWay
  <2> QED BY <2>1, <2>2
<1> QED BY <1>4, <1>5, <1>6, <1>7 DEF Shared

\* A call starts the lookup.
LEMMA LeadKeeps ==
  ASSUME DnsAssumption, Calls, Shared, NEW r \in Tasks, NEW h \in Hosts, ResolveLead(r, h)
  PROVE  Calls' /\ Shared'
<1>1. PICK l \in Lookups :
       /\ FreshLookup(l)
       /\ throttle' = [throttle EXCEPT ![h] = l]
       /\ lookup' = [lookup EXCEPT ![l] = IF eager THEN "running" ELSE "spawned"]
       /\ target' = [target EXCEPT ![l] = h]
       /\ futures' = [futures EXCEPT ![l] = {}]
       /\ joined' = [joined EXCEPT ![r] = l]
  BY DEF ResolveLead
<1>2. /\ fut' = [fut EXCEPT ![r] = "pending"] /\ pc' = [pc EXCEPT ![r] = "leading"]
      /\ host' = [host EXCEPT ![r] = h] /\ UNCHANGED <<closed, eager, cancelled>>
      /\ pc[r] = "idle" /\ throttle[h] = NoLookup
  BY DEF ResolveLead
<1>3. lookup[l] = "free" /\ l # NoLookup /\ h # NoHost /\ \A s \in Tasks : joined[s] # l
  BY <1>1 DEF FreshLookup, DnsAssumption
<1>4. Calls'
  BY <1>1, <1>2 DEF Calls
<1>5. Begun'
  BY <1>1, <1>2, <1>3 DEF Shared, Begun, Calls
<1>6. ThrottleExact'
  <2> SUFFICES ASSUME NEW m \in Lookups, NEW g \in Hosts
               PROVE  throttle'[g] = m <=> lookup'[m] # "free" /\ target'[m] = g
    BY DEF ThrottleExact
  <2>0. throttle[g] = m <=> lookup[m] # "free" /\ target[m] = g
    BY DEF Shared, ThrottleExact
  <2>1. CASE m = l
    <3>1. lookup'[m] # "free" /\ target'[m] = h /\ throttle'[g] = IF g = h THEN m ELSE throttle[g]
      BY <1>1, <2>1 DEF Calls
    <3>2. throttle[g] # m
      BY <1>3, <2>0, <2>1
    <3> QED BY <3>1, <3>2
  <2>2. CASE m # l
    <3>1. lookup'[m] = lookup[m] /\ target'[m] = target[m] /\ throttle'[g] = IF g = h THEN l ELSE throttle[g]
      BY <1>1, <2>2 DEF Calls
    <3>2. throttle[h] # m
      BY <1>2 DEF DnsAssumption
    <3> QED BY <2>0, <2>2, <3>1, <3>2
  <2> QED BY <2>1, <2>2
<1>7. Isolation' /\ Suspended'
  BY <1>1, <1>2 DEF Shared, Isolation, Suspended, Calls
<1>8. WaiterIsAnswered'
  <2> SUFFICES ASSUME NEW s \in Tasks, pc'[s] # "idle", fut'[s] = "pending"
               PROVE  \/ UnderWay(joined[s], host[s])' /\ (pc'[s] = "leading" \/ s \in futures'[joined'[s]])
                      \/ pc'[s] # "leading" /\ closed' /\ ~eager'
    BY DEF WaiterIsAnswered
  <2>1. CASE s = r
    <3>1. /\ joined'[s] = l /\ host'[s] = h /\ target'[l] = h /\ pc'[s] = "leading"
          /\ lookup'[l] \in {"spawned", "running"}
      BY <1>1, <1>2, <2>1 DEF Calls
    <3> QED BY <3>1 DEF UnderWay
  <2>2. CASE s # r
    <3>1. /\ pc'[s] = pc[s] /\ fut'[s] = fut[s] /\ joined'[s] = joined[s] /\ host'[s] = host[s]
          /\ joined[s] # l
      BY <1>1, <1>2, <1>3, <2>2 DEF Calls
    <3>2. \A m \in Lookups \ {l} : lookup'[m] = lookup[m] /\ target'[m] = target[m] /\ futures'[m] = futures[m]
      BY <1>1 DEF Calls
    <3>3. CASE UnderWay(joined[s], host[s]) /\ (pc[s] = "leading" \/ s \in futures[joined[s]])
      BY <1>2, <3>1, <3>2, <3>3 DEF UnderWay
    <3>4. CASE pc[s] # "leading" /\ closed /\ ~eager
      BY <1>2, <3>1, <3>4
    <3> QED BY <3>1, <3>3, <3>4 DEF Shared, WaiterIsAnswered
  <2> QED BY <2>1, <2>2
<1> QED BY <1>4, <1>5, <1>6, <1>7, <1>8 DEF Shared

\* A call returns; the futures sets may lose its own future and no other.
LEMMA ReturnKeeps ==
  ASSUME Calls, Shared, NEW r \in Tasks, Return(r), futures' \in [Lookups -> SUBSET Tasks],
         \A l \in Lookups : futures[l] \ {r} \subseteq futures'[l],
         UNCHANGED <<closed, eager, throttle, lookup, target>>
  PROVE  Calls' /\ Shared'
<1>1. /\ pc' = [pc EXCEPT ![r] = "idle"] /\ joined' = [joined EXCEPT ![r] = NoLookup]
      /\ fut' = [fut EXCEPT ![r] = "none"] /\ cancelled' = cancelled \ {r}
      /\ host' = [host EXCEPT ![r] = NoHost]
  BY DEF Return
<1>2. Calls'
  BY <1>1 DEF Calls
<1>3. \A s \in Tasks : /\ s # r => pc'[s] = pc[s] /\ joined'[s] = joined[s] /\ fut'[s] = fut[s]
                                   /\ host'[s] = host[s] /\ (s \in cancelled' <=> s \in cancelled)
                       /\ s = r => pc'[s] = "idle" /\ fut'[s] = "none"
  BY <1>1 DEF Calls
<1>4. Begun' /\ ThrottleExact'
  BY DEF Shared, Begun, ThrottleExact
<1>5. Suspended' /\ Isolation'
  BY <1>3 DEF Shared, Suspended, Isolation
<1>6. WaiterIsAnswered'
  <2> SUFFICES ASSUME NEW s \in Tasks, pc'[s] # "idle", fut'[s] = "pending"
               PROVE  \/ UnderWay(joined[s], host[s])' /\ (pc'[s] = "leading" \/ s \in futures'[joined'[s]])
                      \/ pc'[s] # "leading" /\ closed' /\ ~eager'
    BY DEF WaiterIsAnswered
  <2>1. s # r /\ pc'[s] = pc[s] /\ joined'[s] = joined[s] /\ fut'[s] = fut[s] /\ host'[s] = host[s]
    BY <1>3
  <2> QED BY <2>1 DEF Shared, WaiterIsAnswered, UnderWay
<1> QED BY <1>2, <1>4, <1>5, <1>6 DEF Shared

\* A call is resumed, or cancelled while it is suspended.
LEMMA CallerKeeps ==
  ASSUME Calls, Shared, NEW r \in Tasks, Resume(r) \/ CancelCaller(r)
  PROVE  Calls' /\ Shared'
<1> DEFINE Removed == [futures EXCEPT ![joined[r]] = @ \ {r}]
<1>0. Removed \in [Lookups -> SUBSET Tasks] /\ \A l \in Lookups : futures[l] \ {r} \subseteq Removed[l]
  BY DEF Calls
<1>1. CASE futures' = Removed /\ Return(r) /\ UNCHANGED <<closed, eager, throttle, lookup, target>>
  BY <1>0, <1>1, ReturnKeeps
<1> HIDE DEF Removed
<1>2. CASE JoinTraceEnd(r)
  <2>1. CASE pc[r] = "joining" /\ pc' = [pc EXCEPT ![r] = "waiting"]
             /\ UNCHANGED <<futures, host, joined, fut, cancelled, closed, eager, throttle, lookup, target>>
    <3>1. Calls'
      BY <2>1 DEF Calls
    <3>2. \A s \in Tasks : (pc'[s] = "idle" <=> pc[s] = "idle") /\ (pc'[s] = "leading" <=> pc[s] = "leading")
      BY <2>1 DEF Calls
    <3>3. Begun' /\ ThrottleExact' /\ Isolation' /\ Suspended'
      BY <2>1, <3>2 DEF Shared, Begun, ThrottleExact, Isolation, Suspended
    <3>4. WaiterIsAnswered'
      BY <2>1, <3>2 DEF Shared, WaiterIsAnswered, UnderWay
    <3> QED BY <3>1, <3>3, <3>4 DEF Shared
  <2> QED BY <1>1, <1>2, <2>1 DEF JoinTraceEnd, Removed
<1>3. CASE JoinEnd(r)
  BY <1>1, <1>3 DEF JoinEnd, Removed
<1>4. CASE LeadEnd(r)
  BY <1>4, ReturnKeeps DEF LeadEnd, lookupVars, Calls
<1>5. CASE CancelCaller(r)
  <2>1. /\ cancelled' = cancelled \cup {r} /\ pc[r] # "idle"
        /\ fut' \in [Tasks -> {"none", "pending", "result", "error", "cancelled"}]
        /\ \A s \in Tasks : fut'[s] = fut[s] \/ (s = r /\ fut[s] = "pending" /\ fut'[s] = "cancelled")
        /\ UNCHANGED <<closed, eager, lookupVars, pc, host, joined>>
    BY <1>5 DEF CancelCaller, Calls
  <2>2. Calls'
    BY <2>1 DEF Calls, lookupVars
  <2>3. Begun' /\ ThrottleExact' /\ Isolation' /\ Suspended'
    BY <2>1 DEF Shared, Begun, ThrottleExact, Isolation, Suspended, lookupVars
  <2>4. WaiterIsAnswered'
    BY <2>1 DEF Shared, WaiterIsAnswered, UnderWay, lookupVars
  <2> QED BY <2>2, <2>3, <2>4 DEF Shared
<1> QED BY <1>2, <1>3, <1>4, <1>5 DEF Resume

\* A lookup ends: who listens has got `state`, and the name is free.
LEMMA FinishKeeps ==
  ASSUME DnsAssumption, Calls, Shared, NEW l \in Lookups, lookup[l] \in {"running", "cancelling"},
         NEW state \in {"result", "error", "cancelled"}, state = "cancelled" => closed,
         NEW failed \in BOOLEAN, Complete(l, state), Finish(l, failed),
         UNCHANGED <<closed, eager, pc, host, joined, cancelled>>
  PROVE  Calls' /\ Shared'
<1>1. /\ lookup' = [lookup EXCEPT ![l] = "free"] /\ target' = [target EXCEPT ![l] = NoHost]
      /\ futures' = [futures EXCEPT ![l] = {}] /\ throttle' = [throttle EXCEPT ![target[l]] = NoLookup]
  BY DEF Finish
<1>2. fut' = [r \in Tasks |-> IF r \in Listeners(l) /\ fut[r] = "pending" THEN state ELSE fut[r]]
  BY DEF Complete
<1>3. Calls'
  BY <1>1, <1>2 DEF Calls
<1>4. target[l] \in Hosts /\ lookup[l] # "free"
  BY DEF Calls, Shared, Begun
<1>5. \A m \in Lookups \ {l} : lookup'[m] = lookup[m] /\ target'[m] = target[m] /\ futures'[m] = futures[m]
  BY <1>1 DEF Calls
<1>6. lookup'[l] = "free" /\ target'[l] = NoHost
  BY <1>1 DEF Calls
<1>7. Begun'
  BY <1>5, <1>6 DEF Shared, Begun
<1>8. ThrottleExact'
  <2> SUFFICES ASSUME NEW m \in Lookups, NEW g \in Hosts
               PROVE  throttle'[g] = m <=> lookup'[m] # "free" /\ target'[m] = g
    BY DEF ThrottleExact
  <2>1. /\ throttle[g] = m <=> lookup[m] # "free" /\ target[m] = g
        /\ throttle[target[l]] = l /\ (throttle[g] = l <=> target[l] = g)
    BY <1>4 DEF Shared, ThrottleExact
  <2>2. throttle'[g] = IF g = target[l] THEN NoLookup ELSE throttle[g]
    BY <1>1, <1>4 DEF Calls
  <2>3. NoLookup # m
    BY DEF DnsAssumption
  <2>4. CASE m = l
    BY <1>6, <2>1, <2>2, <2>3, <2>4
  <2>5. CASE m # l
    BY <1>5, <2>1, <2>2, <2>3, <2>5
  <2> QED BY <2>4, <2>5
<1>9. Suspended'
  BY DEF Shared, Suspended
<1>10. Isolation'
  BY <1>2 DEF Shared, Isolation
<1>11. WaiterIsAnswered'
  <2> SUFFICES ASSUME NEW s \in Tasks, pc[s] # "idle", fut'[s] = "pending"
               PROVE  \/ UnderWay(joined[s], host[s])' /\ (pc[s] = "leading" \/ s \in futures'[joined[s]])
                      \/ pc[s] # "leading" /\ closed /\ ~eager
    BY DEF WaiterIsAnswered
  <2>1. fut[s] = "pending" /\ s \notin Listeners(l)
    BY <1>2
  <2>2. joined[s] # l \/ (s \notin futures[l] /\ pc[s] # "leading")
    BY <2>1 DEF Listeners
  <2>3. CASE UnderWay(joined[s], host[s]) /\ (pc[s] = "leading" \/ s \in futures[joined[s]])
    BY <1>5, <2>2, <2>3 DEF UnderWay
  <2> QED BY <2>1, <2>3 DEF Shared, WaiterIsAnswered
<1> QED BY <1>3, <1>7, <1>8, <1>9, <1>10, <1>11 DEF Shared

\* A lookup runs for the first time, or was cancelled before it did.
LEMMA StartKeeps ==
  ASSUME Calls, Shared, NEW l \in Lookups, LookupBegin(l) \/ LookupDropped(l)
  PROVE  Calls' /\ Shared'
<1>1. CASE LookupBegin(l)
  <2>1. /\ lookup[l] = "spawned" /\ lookup' = [lookup EXCEPT ![l] = "running"]
        /\ UNCHANGED <<closed, eager, throttle, target, futures, pc, host, joined, fut, cancelled>>
    BY <1>1 DEF LookupBegin, callVars
  <2>2. lookup'[l] = "running" /\ \A m \in Lookups \ {l} : lookup'[m] = lookup[m]
    BY <2>1 DEF Calls
  <2>3. Calls'
    BY <2>1 DEF Calls
  <2>4. Begun' /\ ThrottleExact' /\ Isolation' /\ Suspended'
    BY <2>1, <2>2 DEF Shared, Begun, ThrottleExact, Isolation, Suspended
  <2>5. WaiterIsAnswered'
    BY <2>1, <2>2 DEF Shared, WaiterIsAnswered, UnderWay
  <2> QED BY <2>3, <2>4, <2>5 DEF Shared
<1>2. CASE LookupDropped(l)
  <2>1. /\ lookup[l] = "dropping" /\ lookup' = [lookup EXCEPT ![l] = "dropped"]
        /\ fut' = [r \in Tasks |-> IF joined[r] = l /\ pc[r] = "leading" /\ fut[r] = "pending"
                                   THEN "cancelled" ELSE fut[r]]
        /\ UNCHANGED <<closed, eager, throttle, target, futures, pc, host, joined, cancelled>>
    BY <1>2 DEF LookupDropped
  <2>2. lookup'[l] = "dropped" /\ \A m \in Lookups \ {l} : lookup'[m] = lookup[m]
    BY <2>1 DEF Calls
  <2>3. closed /\ ~eager
    BY <2>1 DEF Shared, Begun
  <2>4. Calls'
    BY <2>1 DEF Calls
  <2>5. Begun' /\ ThrottleExact' /\ Isolation' /\ Suspended'
    BY <2>1, <2>2, <2>3 DEF Shared, Begun, ThrottleExact, Isolation, Suspended
  <2>6. WaiterIsAnswered'
    <3> SUFFICES ASSUME NEW s \in Tasks, pc[s] = "leading", fut'[s] = "pending"
                 PROVE  UnderWay(joined[s], host[s])'
      BY <2>1, <2>3 DEF WaiterIsAnswered
    <3>1. fut[s] = "pending" /\ joined[s] # l
      BY <2>1
    <3> QED BY <2>1, <2>2, <3>1 DEF Shared, WaiterIsAnswered, UnderWay
  <2> QED BY <2>4, <2>5, <2>6 DEF Shared
<1> QED BY <1>1, <1>2

\* close() cancels the futures of the throttle and every lookup.
LEMMA CloseKeeps ==
  ASSUME Calls, Shared, CloseConnector
  PROVE  Calls' /\ Shared'
<1>1. /\ closed' = TRUE
      /\ UNCHANGED <<eager, throttle, target, futures, pc, host, joined, cancelled>>
      /\ lookup' = [l \in Lookups |-> IF lookup[l] = "spawned" THEN "dropping"
                                      ELSE IF lookup[l] = "running" THEN "cancelling" ELSE lookup[l]]
  BY DEF CloseConnector
<1>2. /\ fut' \in [Tasks -> {"none", "pending", "result", "error", "cancelled"}]
      /\ \A s \in Tasks : fut'[s] = fut[s] \/ (fut[s] = "pending" /\ fut'[s] = "cancelled")
  BY DEF CloseConnector, Calls
<1>3. Calls'
  BY <1>1, <1>2 DEF Calls
<1>4. \A l \in Lookups : /\ lookup'[l] = "free" <=> lookup[l] = "free"
                         /\ lookup'[l] # "spawned"
                         /\ lookup'[l] = "dropping" => lookup[l] \in {"spawned", "dropping"}
                         /\ lookup'[l] = "dropped" => lookup[l] = "dropped"
  BY <1>1 DEF Calls
<1>5. Begun' /\ ThrottleExact' /\ Isolation' /\ Suspended'
  BY <1>1, <1>2, <1>4 DEF Shared, Begun, ThrottleExact, Isolation, Suspended
<1>6. WaiterIsAnswered'
  <2> SUFFICES ASSUME NEW s \in Tasks, pc[s] # "idle", fut'[s] = "pending"
               PROVE  \/ UnderWay(joined[s], host[s])' /\ (pc[s] = "leading" \/ s \in futures[joined[s]])
                      \/ pc[s] # "leading" /\ ~eager
    BY <1>1 DEF WaiterIsAnswered
  <2>1. fut[s] = "pending"
    BY <1>2
  <2>2. ASSUME UnderWay(joined[s], host[s])
        PROVE  UnderWay(joined[s], host[s])'
    <3>1. /\ joined[s] \in Lookups /\ target[joined[s]] = host[s]
          /\ lookup[joined[s]] \in {"spawned", "running", "cancelling", "dropping"}
      BY <2>2 DEF UnderWay
    <3>2. lookup'[joined[s]] \in {"dropping", "cancelling"}
      BY <1>1, <3>1
    <3>3. lookup'[joined[s]] = "dropping" => ~eager
      BY <1>4, <3>1 DEF Shared, Begun
    <3> QED BY <1>1, <3>1, <3>2, <3>3 DEF UnderWay
  <2> QED BY <2>1, <2>2 DEF Shared, WaiterIsAnswered
<1> QED BY <1>3, <1>5, <1>6 DEF Shared

LEMMA CallStep ==
  ASSUME DnsAssumption, IInv, [Next]_vars
  PROVE  Calls' /\ Shared'
<1>0. Calls /\ Shared
  BY Parts
<1>1. CASE UNCHANGED <<closed, eager, lookupVars, callVars>>
  BY <1>0, <1>1, CacheOnlyKeeps
<1>2. ASSUME NEW r \in Tasks, Resolve(r) PROVE Calls' /\ Shared'
  BY <1>0, <1>1, <1>2, JoinKeeps, LeadKeeps DEF Resolve, ResolveHit
<1>3. ASSUME NEW r \in Tasks, Resume(r) \/ CancelCaller(r) PROVE Calls' /\ Shared'
  BY <1>0, <1>3, CallerKeeps
<1>4. ASSUME NEW l \in Lookups, RunLookup(l) PROVE Calls' /\ Shared'
  <2>1. CASE LookupDone(l)
    BY <1>0, <2>1, FinishKeeps DEF LookupDone
  <2>2. CASE LookupFail(l)
    <3>1. lookup[l] = "cancelling" => closed
      BY <1>0 DEF Shared, Begun
    <3>2. /\ Finish(l, TRUE) /\ UNCHANGED <<closed, eager, pc, host, joined, cancelled>>
          /\ \/ lookup[l] = "running" /\ Complete(l, "error")
             \/ lookup[l] = "cancelling" /\ Complete(l, "cancelled")
      BY <2>2 DEF LookupFail
    <3> QED BY <1>0, <3>1, <3>2, FinishKeeps
  <2> QED BY <1>0, <1>4, <2>1, <2>2, StartKeeps DEF RunLookup
<1>5. CASE (\E h \in Hosts : Age(h)) \/ ClearDnsCache \/ UNCHANGED vars
  BY <1>1, <1>5 DEF Age, ClearDnsCache, vars
<1>6. CASE CloseConnector
  BY <1>0, <1>6, CloseKeeps
<1> QED BY <1>2, <1>3, <1>4, <1>5, <1>6 DEF Next

LEMMA InitHolds == DnsAssumption /\ Init => IInv
<1> SUFFICES ASSUME DnsAssumption, Init PROVE IInv
  OBVIOUS
<1>1. cached \in Seq(Hosts) /\ Len(cached) = 0 /\ DOMAIN cached = {}
  BY DEF Init
<1>2. CacheOK
  BY <1>1 DEF Init, CacheOK, CacheExact, InCache, Stamps, DnsAssumption
<1>3. Calls
  BY DEF Init, Calls
<1>4. Shared
  BY DEF Init, Shared, Begun, Suspended, ThrottleExact, Isolation, WaiterIsAnswered, DnsAssumption
<1> QED BY <1>2, <1>3, <1>4, Parts
-----------------------------------------------------------------------------
\* Lookups are shared and cancellations are not (Isolation, WaiterIsAnswered); a
\* lookup that fails, is cancelled or races another leaves no throttle entry and
\* takes none that is in use (ThrottleExact); every entry of the cache can be
\* read and there are at most max_size (CacheExact).
THEOREM LookupsCorrect ==
  DnsAssumption =>
    (Spec => [](TypeOK /\ ThrottleExact /\ CacheExact /\ Isolation /\ WaiterIsAnswered))
<1> SUFFICES ASSUME DnsAssumption
             PROVE  Spec => [](TypeOK /\ ThrottleExact /\ CacheExact /\ Isolation /\ WaiterIsAnswered)
  OBVIOUS
<1>1. Init => IInv
  BY InitHolds
<1>2. IInv /\ [Next]_vars => IInv'
  BY CacheStep, CallStep, PartsNext
<1>3. IInv => TypeOK /\ ThrottleExact /\ CacheExact /\ Isolation /\ WaiterIsAnswered
  BY DEF IInv
<1> QED BY <1>1, <1>2, <1>3, PTL DEF Spec

(***************************************************************************)
(* Digest authentication, for any number of concurrent requests, nonces    *)
(* and protection spaces: what is sent answers the challenge it is for,    *)
(* and is counted in the order in which it is sent.                        *)
(***************************************************************************)
CONSTANTS Requests, URLs, Nonces, NoNonce, Domains, NoOrigin, Preemptive
VARIABLES mw, call, log

Digest == INSTANCE DigestAuth

\* What a request that is on knows: its URL, and while it hashes its body, which
\* challenge it will answer.
Hashing ==
  \A r \in Requests :
    /\ call[r].at = "idle" => call[r].retry = 0
    /\ call[r].at # "idle" => call[r].url \in URLs
    /\ call[r].at = "hash" =>
         /\ call[r].challenge.nonce \in Nonces
         /\ call[r].retry = 1 => call[r].challenge.nonce = call[r].asked.nonce

\* The middleware remembers the nonce and the count of what was sent last.
LastIsCounted ==
  /\ log = <<>> => mw.last = NoNonce
  /\ log # <<>> => mw.last = log[Len(log)].nonce /\ mw.count = log[Len(log)].nc

DigestInv == Digest!TypeOK /\ Hashing /\ LastIsCounted /\ Digest!RetryAnswersItsChallenge /\ Digest!CountsInOrder

Answerable == Digest!Challenges \cup {Digest!NoChallenge}

LEMMA ChallengeTypes ==
  Digest!NoChallenge \in Answerable /\ \A c \in Answerable : c.nonce \in Nonces \cup {NoNonce}
<1>1. Digest!NoChallenge \in Answerable /\ Digest!NoChallenge.nonce = NoNonce
  BY DEF Answerable, Digest!NoChallenge
<1>2. \A c \in Digest!Challenges : c.nonce \in Nonces \cup {NoNonce}
  BY DEF Digest!Challenges
<1> QED BY <1>1, <1>2 DEF Answerable
-----------------------------------------------------------------------------
(* One step of one request                                                 *)

\* Nothing is sent: the request moves to a place where it does not hash.
LEMMA QuietKeeps ==
  ASSUME DigestInv, NEW r \in Requests,
         NEW STATE m, m \in Digest!Middlewares, m.last = mw.last, m.count = mw.count,
         NEW STATE k, k \in Digest!Calls, k.url \in URLs, NEW at \in {"passed", "sent", "answered", "raised"},
         mw' = m, call' = [call EXCEPT ![r] = [k EXCEPT !.at = at]], UNCHANGED log
  PROVE  DigestInv'
<1>1. [k EXCEPT !.at = at] \in Digest!Calls /\ [k EXCEPT !.at = at].at = at /\ [k EXCEPT !.at = at].url = k.url
  BY DEF Digest!Calls
<1>2. Digest!TypeOK'
  BY <1>1 DEF DigestInv, Digest!TypeOK
<1>3. Hashing'
  BY <1>1 DEF DigestInv, Digest!TypeOK, Hashing
<1>4. LastIsCounted' /\ Digest!RetryAnswersItsChallenge' /\ Digest!CountsInOrder'
  BY DEF DigestInv, LastIsCounted, Digest!RetryAnswersItsChallenge, Digest!CountsInOrder
<1> QED BY <1>2, <1>3, <1>4 DEF DigestInv

\* A request waits for the bytes of its body.
LEMMA HashKeeps ==
  ASSUME DigestInv, NEW r \in Requests,
         NEW STATE m, m \in Digest!Middlewares, m.last = mw.last, m.count = mw.count,
         NEW STATE k, k \in Digest!Calls, k.url \in URLs, NEW STATE c, c \in Answerable, c.nonce \in Nonces,
         k.retry = 1 => c.nonce = k.asked.nonce,
         mw' = m, call' = [call EXCEPT ![r] = [k EXCEPT !.at = "hash", !.challenge = c]], UNCHANGED log
  PROVE  DigestInv'
<1> DEFINE n == [k EXCEPT !.at = "hash", !.challenge = c]
<1>1. /\ n \in Digest!Calls /\ n.at = "hash" /\ n.challenge = c /\ n.retry = k.retry /\ n.asked = k.asked
      /\ n.url = k.url
  BY DEF Digest!Calls, Answerable
<1> HIDE DEF n
<1>2. Digest!TypeOK'
  BY <1>1 DEF DigestInv, Digest!TypeOK, n
<1>3. Hashing'
  <2>1. call'[r] = n /\ \A s \in Requests \ {r} : call'[s] = call[s]
    BY DEF DigestInv, Digest!TypeOK, n
  <2> QED BY <1>1, <2>1 DEF DigestInv, Hashing
<1>4. LastIsCounted' /\ Digest!RetryAnswersItsChallenge' /\ Digest!CountsInOrder'
  BY DEF DigestInv, LastIsCounted, Digest!RetryAnswersItsChallenge, Digest!CountsInOrder
<1> QED BY <1>2, <1>3, <1>4 DEF DigestInv

\* A signed request is sent, and counted.
LEMMA SignedKeeps ==
  ASSUME Digest!DigestAssumption, DigestInv, NEW r \in Requests,
         NEW STATE m, m \in Digest!Middlewares, m.last = mw.last, m.count = mw.count,
         NEW STATE k, k \in Digest!Calls, k.url \in URLs, NEW STATE c, c \in Answerable, c.nonce \in Nonces,
         k.retry = 1 => c.nonce = k.asked.nonce,
         Digest!SendSigned(m, r, k, c)
  PROVE  DigestInv'
<1> DEFINE nc == IF c.nonce = m.last THEN m.count + 1 ELSE 1
           n == [k EXCEPT !.at = "sent", !.challenge = c]
           e == [by |-> r, retry |-> k.retry, nonce |-> c.nonce, nc |-> nc, asked |-> k.asked]
<1>1. nc \in Nat \ {0} /\ k.retry \in 0 .. 1 /\ k.asked \in Answerable
  BY DEF Digest!Middlewares, Digest!Calls, Answerable
<1>2. /\ Digest!Counted(m, c.nonce) \in Digest!Middlewares
      /\ Digest!Counted(m, c.nonce).last = c.nonce /\ Digest!Counted(m, c.nonce).count = nc
  <2>1. Digest!Counted(m, c.nonce) = [m EXCEPT !.last = c.nonce, !.count = nc]
    BY DEF Digest!Counted
  <2> HIDE DEF nc
  <2> QED BY <1>1, <2>1 DEF Digest!Middlewares
<1>3. n \in Digest!Calls /\ n.at = "sent" /\ n.url = k.url
  BY DEF Digest!Calls, Answerable
<1>4. /\ e \in Digest!Entries /\ e.nonce = c.nonce /\ e.nc = nc /\ e.retry = k.retry /\ e.asked = k.asked
  BY <1>1 DEF Digest!Entries, Answerable
<1>5. mw' = Digest!Counted(m, c.nonce) /\ call' = [call EXCEPT ![r] = n] /\ log' = Append(log, e)
  BY <1>2 DEF Digest!SendSigned
<1>6. mw' \in Digest!Middlewares /\ mw'.last = e.nonce /\ mw'.count = e.nc
  BY <1>2, <1>4, <1>5
<1>7. nc = IF c.nonce = mw.last THEN mw.count + 1 ELSE 1
  OBVIOUS
<1> HIDE DEF n, e, nc
<1>8. log \in Seq(Digest!Entries) /\ Len(log) \in Nat /\ DOMAIN log = 1 .. Len(log)
  BY LenProperties DEF DigestInv, Digest!TypeOK
<1>9. /\ log' \in Seq(Digest!Entries) /\ Len(log') = Len(log) + 1 /\ DOMAIN log' = 1 .. Len(log) + 1
      /\ log'[Len(log) + 1] = e /\ \A i \in 1 .. Len(log) : log'[i] = log[i]
  BY <1>4, <1>5, <1>8, AppendProperties, LenProperties
<1>10. Digest!TypeOK'
  BY <1>3, <1>5, <1>6, <1>9 DEF DigestInv, Digest!TypeOK
<1>11. Hashing'
  BY <1>3, <1>5 DEF DigestInv, Digest!TypeOK, Hashing
<1>12. LastIsCounted'
  <2>1. log' # <<>>
    BY <1>8, <1>9
  <2> QED BY <1>6, <1>9, <2>1 DEF LastIsCounted
<1>13. Digest!RetryAnswersItsChallenge'
  BY <1>4, <1>8, <1>9 DEF DigestInv, Digest!RetryAnswersItsChallenge
<1>14. Digest!CountsInOrder'
  <2> SUFFICES ASSUME NEW i \in 1 .. Len(log) + 1
               PROVE  log'[i].nc = IF i > 1 /\ log'[i - 1].nonce = log'[i].nonce
                                   THEN log'[i - 1].nc + 1 ELSE 1
    BY <1>9 DEF Digest!CountsInOrder
  <2>1. CASE i \in 1 .. Len(log)
    <3>1. log'[i] = log[i] /\ (i > 1 => log'[i - 1] = log[i - 1])
      BY <1>8, <1>9, <2>1
    <3> QED BY <1>8, <2>1, <3>1 DEF DigestInv, Digest!CountsInOrder
  <2>2. CASE i = Len(log) + 1 /\ Len(log) > 0
    <3>1. log # <<>> /\ i > 1 /\ i - 1 = Len(log) /\ log'[i] = e /\ log'[i - 1] = log[Len(log)]
      BY <1>8, <1>9, <2>2
    <3>2. mw.last = log[Len(log)].nonce /\ mw.count = log[Len(log)].nc
      BY <3>1 DEF DigestInv, LastIsCounted
    <3> QED BY <1>4, <1>7, <3>1, <3>2
  <2>3. CASE i = Len(log) + 1 /\ Len(log) = 0
    <3>1. log = <<>> /\ ~(i > 1) /\ log'[i] = e
      BY <1>8, <1>9, <2>3, EmptySeq
    <3>2. mw.last = NoNonce /\ c.nonce # NoNonce
      BY <3>1 DEF DigestInv, LastIsCounted, Digest!DigestAssumption
    <3> QED BY <1>4, <1>7, <3>1, <3>2
  <2> QED BY <1>8, <2>1, <2>2, <2>3
<1> QED BY <1>10, <1>11, <1>12, <1>13, <1>14 DEF DigestInv

\* _encode() for the challenge the middleware has at that time.
LEMMA EncodeKeeps ==
  ASSUME Digest!DigestAssumption, DigestInv, NEW r \in Requests,
         NEW STATE m, m \in Digest!Middlewares, m.last = mw.last, m.count = mw.count,
         NEW STATE k, k \in Digest!Calls, k.url \in URLs, k.retry = 1 => m.challenge = k.asked,
         Digest!Encode(m, r, k)
  PROVE  DigestInv'
<1>1. m.challenge \in Answerable
  BY DEF Digest!Middlewares, Answerable
<1>2. m.challenge.nonce # NoNonce => m.challenge.nonce \in Nonces
  BY <1>1, ChallengeTypes
<1>3. CASE mw' = m /\ call' = [call EXCEPT ![r] = [k EXCEPT !.at = "raised"]] /\ UNCHANGED log
  BY <1>3, QuietKeeps
<1>4. CASE m.challenge.nonce # NoNonce /\ Digest!SendSigned(m, r, k, m.challenge)
  BY <1>1, <1>2, <1>4, SignedKeeps
<1>5. CASE /\ m.challenge.nonce # NoNonce /\ mw' = m /\ UNCHANGED log
           /\ call' = [call EXCEPT ![r] = [k EXCEPT !.at = "hash", !.challenge = m.challenge]]
  BY <1>1, <1>2, <1>5, HashKeeps
<1> QED BY <1>3, <1>4, <1>5 DEF Digest!Encode
-----------------------------------------------------------------------------
(* The actions                                                             *)

LEMMA CallKeeps ==
  ASSUME Digest!DigestAssumption, DigestInv, NEW r \in Requests, Digest!Call(r)
  PROVE  DigestInv'
<1>1. PICK url \in URLs :
       LET m == IF mw.origin = NoOrigin THEN [mw EXCEPT !.origin = Head(url)] ELSE mw
           k == [call[r] EXCEPT !.url = url]
           inside == Digest!InProtectionSpace(m, url)
       IN  IF Head(url) # m.origin /\ ~inside
           THEN mw' = m /\ call' = [call EXCEPT ![r] = [k EXCEPT !.at = "passed"]] /\ UNCHANGED log
           ELSE IF Preemptive /\ m.challenge.present /\ inside
                THEN Digest!Encode(m, r, k) ELSE Digest!SendPlain(m, r, k)
  BY DEF Digest!Call
<1> DEFINE m == IF mw.origin = NoOrigin THEN [mw EXCEPT !.origin = Head(url)] ELSE mw
           k == [call[r] EXCEPT !.url = url]
<1>2. m \in Digest!Middlewares /\ m.last = mw.last /\ m.count = mw.count
  BY DEF DigestInv, Digest!TypeOK, Digest!Middlewares
<1>3. k \in Digest!Calls /\ k.retry = call[r].retry /\ k.url = url
  BY DEF DigestInv, Digest!TypeOK, Digest!Calls
<1>4. call[r].retry = 0
  BY DEF Digest!Call, DigestInv, Hashing
<1>5. \/ mw' = m /\ call' = [call EXCEPT ![r] = [k EXCEPT !.at = "passed"]] /\ UNCHANGED log
      \/ Digest!Encode(m, r, k)
      \/ mw' = m /\ call' = [call EXCEPT ![r] = [k EXCEPT !.at = "sent"]] /\ UNCHANGED log
  BY <1>1 DEF Digest!SendPlain
<1> HIDE DEF m, k
<1>6. k.retry # 1
  BY <1>3, <1>4
<1> QED BY <1>2, <1>3, <1>5, <1>6, EncodeKeeps, QuietKeeps

LEMMA HashedKeeps ==
  ASSUME Digest!DigestAssumption, DigestInv, NEW r \in Requests, Digest!Hashed(r)
  PROVE  DigestInv'
<1>1. /\ mw \in Digest!Middlewares /\ call[r] \in Digest!Calls /\ call[r].challenge \in Answerable
      /\ call[r].challenge.nonce \in Nonces /\ call[r].url \in URLs
      /\ call[r].retry = 1 => call[r].challenge.nonce = call[r].asked.nonce
  BY DEF DigestInv, Digest!TypeOK, Hashing, Digest!Hashed, Digest!Calls, Answerable
<1>2. Digest!SendSigned(mw, r, call[r], call[r].challenge)
  BY DEF Digest!Hashed
<1> QED BY <1>1, <1>2, SignedKeeps

\* The challenge is kept, with its protection space.
LEMMA AuthenticateType ==
  ASSUME Digest!DigestAssumption, NEW STATE m, m \in Digest!Middlewares, NEW c \in Answerable,
         NEW domain \in Domains, NEW url \in URLs
  PROVE  /\ Digest!Authenticate(m, c, domain, Head(url)) \in Digest!Middlewares
         /\ Digest!Authenticate(m, c, domain, Head(url)).last = m.last
         /\ Digest!Authenticate(m, c, domain, Head(url)).count = m.count
         /\ Digest!Authenticate(m, c, domain, Head(url)).challenge = c
<1> DEFINE space == IF domain = {} THEN {<<Head(url)>>}
                    ELSE {IF Head(uri) = "" THEN <<Head(url)>> \o Tail(uri) ELSE uri : uri \in domain}
<1>1. Head(url) \in STRING
  BY HeadTailProperties DEF Digest!DigestAssumption
<1>2. <<Head(url)>> \in Seq(STRING)
  BY <1>1
<1>3. \A uri \in domain : uri \in Seq(STRING) /\ Tail(uri) \in Seq(STRING)
  BY HeadTailProperties DEF Digest!DigestAssumption
<1>4. \A uri \in domain : <<Head(url)>> \o Tail(uri) \in Seq(STRING)
  BY <1>2, <1>3, ConcatProperties
<1>5. space \in SUBSET Seq(STRING)
  BY <1>2, <1>3, <1>4
<1>6. Digest!Authenticate(m, c, domain, Head(url)) = [m EXCEPT !.challenge = c, !.space = space]
  BY DEF Digest!Authenticate
<1> HIDE DEF space
<1> QED BY <1>5, <1>6 DEF Digest!Middlewares, Answerable

LEMMA AskedType ==
  ASSUME NEW k \in Digest!Calls, NEW c \in Answerable
  PROVE  /\ [k EXCEPT !.retry = 1, !.asked = c] \in Digest!Calls
         /\ [k EXCEPT !.retry = 1, !.asked = c].asked = c
         /\ [k EXCEPT !.retry = 1, !.asked = c].url = k.url
<1> DEFINE s == [k EXCEPT !.retry = 1]
<1>1. 1 \in 0 .. 1
  OBVIOUS
<1>2. s \in Digest!Calls /\ s.url = k.url
  BY <1>1 DEF Digest!Calls
<1>3. [k EXCEPT !.retry = 1, !.asked = c] = [s EXCEPT !.asked = c]
  OBVIOUS
<1> HIDE DEF s
<1> QED BY <1>2, <1>3 DEF Digest!Calls, Answerable

LEMMA ChallengedKeeps ==
  ASSUME Digest!DigestAssumption, DigestInv, NEW r \in Requests, Digest!Challenged(r)
  PROVE  DigestInv'
<1>1. PICK c \in Answerable, domain \in Domains :
       LET m == Digest!Authenticate(mw, c, domain, Head(call[r].url))
       IN  IF call[r].retry = 1 \/ ~c.present
           THEN mw' = m /\ call' = [call EXCEPT ![r].at = "answered"] /\ UNCHANGED log
           ELSE Digest!Encode(m, r, [call[r] EXCEPT !.retry = 1, !.asked = c])
  BY DEF Digest!Challenged, Answerable
<1> DEFINE m == Digest!Authenticate(mw, c, domain, Head(call[r].url))
           k == [call[r] EXCEPT !.retry = 1, !.asked = c]
<1>2. mw \in Digest!Middlewares /\ call[r] \in Digest!Calls
  BY DEF DigestInv, Digest!TypeOK
<1>3. call[r].url \in URLs
  BY DEF Digest!Challenged, DigestInv, Digest!TypeOK, Digest!Calls, Hashing
<1>4. m \in Digest!Middlewares /\ m.last = mw.last /\ m.count = mw.count /\ m.challenge = c
  BY <1>2, <1>3, AuthenticateType
<1>5. k \in Digest!Calls /\ k.asked = c /\ k.url = call[r].url
  BY <1>2, AskedType
<1>6. [call EXCEPT ![r].at = "answered"] = [call EXCEPT ![r] = [call[r] EXCEPT !.at = "answered"]]
  BY DEF DigestInv, Digest!TypeOK
<1>7. \/ mw' = m /\ call' = [call EXCEPT ![r].at = "answered"] /\ UNCHANGED log
      \/ Digest!Encode(m, r, k)
  BY <1>1
<1> HIDE DEF m, k
<1> QED BY <1>2, <1>3, <1>4, <1>5, <1>6, <1>7, EncodeKeeps, QuietKeeps

LEMMA AnsweredKeeps ==
  ASSUME DigestInv, NEW r \in Requests, Digest!Answered(r)
  PROVE  DigestInv'
<1>1. mw \in Digest!Middlewares /\ call[r] \in Digest!Calls /\ call[r].url \in URLs
  BY DEF DigestInv, Digest!TypeOK, Hashing, Digest!Answered
<1>2. PICK at \in {"answered", "raised"} : call' = [call EXCEPT ![r] = [call[r] EXCEPT !.at = at]]
  BY DEF Digest!Answered, DigestInv, Digest!TypeOK
<1>3. mw' = mw /\ UNCHANGED log
  BY DEF Digest!Answered
<1> QED BY <1>1, <1>2, <1>3, QuietKeeps

LEMMA DigestInitHolds == Digest!DigestAssumption /\ Digest!Init => DigestInv
<1> SUFFICES ASSUME Digest!DigestAssumption, Digest!Init PROVE DigestInv
  OBVIOUS
<1>1. Digest!NewCall \in Digest!Calls /\ Digest!NewCall.at = "idle" /\ Digest!NewCall.retry = 0
  BY ChallengeTypes DEF Digest!NewCall, Digest!Calls, Answerable
<1>2. Digest!TypeOK
  BY <1>1, ChallengeTypes, EmptySeq DEF Digest!Init, Digest!TypeOK, Digest!Middlewares, Answerable
<1> QED BY <1>1, <1>2 DEF Digest!Init, DigestInv, Hashing, LastIsCounted,
     Digest!RetryAnswersItsChallenge, Digest!CountsInOrder

\* The invariant is inductive.
LEMMA DigestNext ==
  ASSUME Digest!DigestAssumption
  PROVE  DigestInv /\ [Digest!Next]_(Digest!vars) => DigestInv'
<1>1. DigestInv /\ UNCHANGED Digest!vars => DigestInv'
  BY DEF Digest!vars, DigestInv, Digest!TypeOK, Hashing, LastIsCounted,
     Digest!RetryAnswersItsChallenge, Digest!CountsInOrder
<1> QED BY <1>1, CallKeeps, HashedKeeps, ChallengedKeeps, AnsweredKeeps DEF Digest!Next

\* Under any interleaving of the requests that share the middleware, a second
\* attempt answers the challenge of its own response, and what is sent with one
\* nonce without another between is counted 1, 2, 3, ...
THEOREM DigestCorrect ==
  Digest!DigestAssumption =>
    (Digest!Spec => [](Digest!TypeOK /\ Digest!RetryAnswersItsChallenge /\ Digest!CountsInOrder))
<1> SUFFICES ASSUME Digest!DigestAssumption
             PROVE  Digest!Spec => [](Digest!TypeOK /\ Digest!RetryAnswersItsChallenge /\ Digest!CountsInOrder)
  OBVIOUS
<1>1. Digest!Init => DigestInv
  BY DigestInitHolds
<1>2. DigestInv /\ [Digest!Next]_(Digest!vars) => DigestInv'
  BY DigestNext
<1>3. DigestInv => Digest!TypeOK /\ Digest!RetryAnswersItsChallenge /\ Digest!CountsInOrder
  BY DEF DigestInv
<1> QED BY <1>1, <1>2, <1>3, PTL DEF Digest!Spec
=============================================================================
