------------------------------ MODULE MCClient ------------------------------
(* The parts of the client session, one at a time: `component` says which of *)
(* them moves.  ClientRequest keeps its own variables, v1, v2, ... are those  *)
(* of the others in the order they declare them.                             *)
EXTENDS ClientRequest

CONSTANTS
  Tasks, Hosts, Lookups, NoLookup, NoHost, MaxSize, Clearing,          \* DnsCache
  Requests, URLs, Nonces, NoNonce, Domains, Preemptive       \* DigestAuth

SomeURLs == {<<"a", "p">>, <<"b", "q">>}
SomeDomains == {{}, {<<"b">>, <<"", "p">>}}
SomeGiven == {[origin |-> "a", auth |-> "a", cookies |-> "a"]}

VARIABLES component, v1, v2, v3, v4, v5, v6, v7, v8, v9, v10, v11, v12, v13
dnsVars == <<v1, v2, v3, v4, v5, v6, v7, v8, v9, v10, v11, v12, v13>>

\* DnsCache, and DigestAuth as Shared!Digest, with what is proved about them.
Shared == INSTANCE SessionProofs WITH
  closed <- v1, eager <- v2, cached <- v3, stamp <- v4, throttle <- v5, lookup <- v6, target <- v7,
  futures <- v8, pc <- v9, host <- v10, joined <- v11, fut <- v12, cancelled <- v13,
  mw <- v1, call <- v2, log <- v3

CookieData == INSTANCE MCCookies WITH
  jar <- v1, now <- v2, file <- v3, calls <- v4,
  Hosts <- {}, ReqPaths <- {}, Headers <- {}, IPs <- {}, Unsafe <- FALSE, MinScheduled <- 0, MaxTime <- 0, MaxCalls <- 0
C == INSTANCE MCCookies WITH
  jar <- v1, now <- v2, file <- v3, calls <- v4,
  Hosts <- CookieData!SomeHosts, ReqPaths <- CookieData!SomePaths, Headers <- CookieData!SomeHeaders,
  IPs <- CookieData!Addresses, Unsafe <- FALSE, MinScheduled <- 1, MaxTime <- 3, MaxCalls <- 2

ASSUME ClientAssumption == Shared!DnsAssumption /\ Shared!Digest!DigestAssumption

From5 == v5 = 0 /\ v6 = 0 /\ v7 = 0 /\ v8 = 0 /\ v9 = 0 /\ v10 = 0 /\ v11 = 0 /\ v12 = 0 /\ v13 = 0
ClientInit ==
  \/ component = "request" /\ Init /\ v1 = 0 /\ v2 = 0 /\ v3 = 0 /\ v4 = 0 /\ From5
  \/ component = "dns" /\ Init /\ New = Conns /\ Shared!Init
  \/ component = "cookies" /\ Init /\ New = Conns /\ C!Init /\ From5
  \/ component = "digest" /\ Init /\ New = Conns /\ Shared!Digest!Init /\ v4 = 0 /\ From5

ClientNext ==
  \/ component = "request" /\ Next /\ UNCHANGED <<component, dnsVars>>
  \/ component = "dns" /\ Shared!Next /\ UNCHANGED <<component, vars>>
  \/ component = "cookies" /\ C!Next /\ UNCHANGED <<component, vars, v5, v6, v7, v8, v9, v10, v11, v12, v13>>
  \/ component = "digest" /\ Shared!Digest!Next /\ UNCHANGED <<component, vars, v4, v5, v6, v7, v8, v9, v10, v11, v12, v13>>

ClientSpec == ClientInit /\ [][ClientNext]_<<component, vars, dnsVars>>
-----------------------------------------------------------------------------
\* Concurrent requests share a lookup but not their fates, and each is answered.
\* They share a digest middleware, and each answers the challenge it was sent,
\* counting what is sent with a nonce.
Isolation ==
  /\ component = "dns" => Shared!TypeOK /\ Shared!ThrottleExact /\ Shared!CacheExact /\ Shared!Isolation /\ Shared!WaiterIsAnswered
  /\ component = "digest" => Shared!Digest!TypeOK /\ Shared!Digest!RetryAnswersItsChallenge /\ Shared!Digest!CountsInOrder

\* The client sends the cookies it should, also from a jar that was saved.
SentIsRight ==
  component = "cookies" => C!JarConsistent /\ C!SentIsRight /\ C!SaveLoadRestores /\ C!LastCallWins
=============================================================================
