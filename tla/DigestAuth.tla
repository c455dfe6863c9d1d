----------------------------- MODULE DigestAuth -----------------------------
(***************************************************************************)
(* DigestAuthMiddleware of aiohttp/client_middleware_digest_auth.py, one   *)
(* instance shared by the requests of a session that run concurrently.     *)
(*                                                                         *)
(* The middleware awaits in two places: the handler that sends a request,  *)
(* and as_bytes() of a body that is hashed for qop=auth-int.  Between them *)
(* it runs to the end, so an action is one such stretch.                   *)
(*                                                                         *)
(* Abstractions: a URL is its origin and the segments of its path; a       *)
(* challenge is its nonce (NoNonce: a field is missing or not supported,   *)
(* so that _encode() raises) and whether auth-int is offered; the digest   *)
(* is not computed.  A server sends any nonce at any time.                 *)
(***************************************************************************)
EXTENDS Integers, Sequences, FiniteSets, SequencesExt

CONSTANTS
  Requests,   \* requests, each made once
  URLs,       \* what they ask for
  Nonces, NoNonce,
  Domains,    \* sets of URIs in the domain of a challenge; those of the server's own
              \* origin begin with ""
  NoOrigin,
  Preemptive  \* preemptive=

DigestAssumption ==
  /\ NoNonce \notin Nonces /\ Preemptive \in BOOLEAN
  /\ \A u \in URLs : u \in Seq(STRING) \ {<<>>} /\ Head(u) # NoOrigin
  /\ {} \in Domains /\ \A domain \in Domains : \A uri \in domain : uri \in Seq(STRING) \ {<<>>}

VARIABLES
  mw,    \* the middleware: _origin, _challenge, _protection_space, _last_nonce_bytes, _nonce_count
  call,  \* the call for each request: where it is, its URL, the attempt, the challenge it hashes for
  log    \* what was sent with an Authorization header, in order

vars == <<mw, call, log>>

NoChallenge == [nonce |-> NoNonce, int |-> FALSE, present |-> FALSE]
Challenges == [nonce : Nonces \cup {NoNonce}, int : BOOLEAN, present : {TRUE}]
NewCall == [at |-> "idle", url |-> <<>>, retry |-> 0, challenge |-> NoChallenge, asked |-> NoChallenge]

Init ==
  /\ mw = [origin |-> NoOrigin, challenge |-> NoChallenge, space |-> {}, last |-> NoNonce, count |-> 0]
  /\ call = [r \in Requests |-> NewCall]
  /\ log = <<>>

InProtectionSpace(m, url) == \E uri \in m.space : IsPrefix(uri, url)

\* _authenticate() for a digest challenge: it is kept, with its protection space.
Authenticate(m, c, domain, origin) ==
  [m EXCEPT !.challenge = c,
            !.space = IF domain = {} THEN {<<origin>>}
                      ELSE {IF Head(uri) = "" THEN <<origin>> \o Tail(uri) ELSE uri : uri \in domain}]

\* The nonce count of _encode().
Counted_Ahead(m, nonce) ==  \* mutant: the count of a new nonce goes on
  [m EXCEPT !.last = nonce, !.count = IF nonce = m.last THEN m.count ELSE m.count + 1]
Counted(m, nonce) ==
  [m EXCEPT !.last = nonce, !.count = IF nonce = m.last THEN m.count + 1 ELSE 1]

\* The rest of _encode() and the call of the handler, for the challenge c.
SendSigned(m, r, k, c) ==
  LET n == Counted(m, c.nonce)
  IN  /\ mw' = n
      /\ call' = [call EXCEPT ![r] = [k EXCEPT !.at = "sent", !.challenge = c]]
      /\ log' = Append(log, [by |-> r, retry |-> k.retry, nonce |-> c.nonce, nc |-> n.count, asked |-> k.asked])

\* _encode(): it raises for a challenge it cannot answer, and may have to wait
\* for the bytes of the body.
Encode(m, r, k) ==
  \/ /\ m.challenge.nonce = NoNonce
     /\ mw' = m /\ call' = [call EXCEPT ![r] = [k EXCEPT !.at = "raised"]] /\ UNCHANGED log
  \/ m.challenge.nonce # NoNonce /\ SendSigned(m, r, k, m.challenge)
  \/ /\ m.challenge.nonce # NoNonce /\ m.challenge.int
     /\ mw' = m /\ UNCHANGED log
     /\ call' = [call EXCEPT ![r] = [k EXCEPT !.at = "hash", !.challenge = m.challenge]]

SendPlain(m, r, k) ==
  mw' = m /\ call' = [call EXCEPT ![r] = [k EXCEPT !.at = "sent"]] /\ UNCHANGED log
-----------------------------------------------------------------------------
\* The beginning of __call__(), to the first attempt.
Call(r) ==
  /\ call[r].at = "idle"
  /\ \E url \in URLs :
       LET m == IF mw.origin = NoOrigin THEN [mw EXCEPT !.origin = Head(url)] ELSE mw
           k == [call[r] EXCEPT !.url = url]
           inside == InProtectionSpace(m, url)
       IN  IF Head(url) # m.origin /\ ~inside
           THEN mw' = m /\ call' = [call EXCEPT ![r] = [k EXCEPT !.at = "passed"]] /\ UNCHANGED log
           ELSE IF Preemptive /\ m.challenge.present /\ inside
                THEN Encode(m, r, k) ELSE SendPlain(m, r, k)

\* as_bytes() has returned.
Hashed_Latest(r) ==  \* mutant: the challenge is read again after the await
  call[r].at = "hash" /\ SendSigned(mw, r, call[r], mw.challenge)
Hashed(r) == call[r].at = "hash" /\ SendSigned(mw, r, call[r], call[r].challenge)

\* The response asks for authentication: a second attempt, not a third, and none
\* for a challenge without a known parameter.
Challenged(r) ==
  /\ call[r].at = "sent"
  /\ \E c \in Challenges \cup {NoChallenge}, domain \in Domains :
       LET m == Authenticate(mw, c, domain, Head(call[r].url))
       IN  /\ ~c.present => domain = {}
           /\ IF call[r].retry = 1 \/ ~c.present
              THEN mw' = m /\ call' = [call EXCEPT ![r].at = "answered"] /\ UNCHANGED log
              ELSE Encode(m, r, [call[r] EXCEPT !.retry = 1, !.asked = c])

\* Any other response; or the handler or as_bytes() raises, or the request is cancelled.
Answered(r) ==
  /\ \/ call[r].at \in {"sent", "passed"} /\ call' = [call EXCEPT ![r].at = "answered"]
     \/ call[r].at \in {"sent", "passed", "hash"} /\ call' = [call EXCEPT ![r].at = "raised"]
  /\ UNCHANGED <<mw, log>>

Next ==
  \/ \E r \in Requests : Call(r)
  \/ \E r \in Requests : Hashed(r)
  \/ \E r \in Requests : Challenged(r)
  \/ \E r \in Requests : Answered(r)

Spec == Init /\ [][Next]_vars
-----------------------------------------------------------------------------
(* Properties.                                                             *)

Middlewares ==
  [origin : {NoOrigin} \cup {Head(u) : u \in URLs}, challenge : Challenges \cup {NoChallenge},
   space : SUBSET Seq(STRING), last : Nonces \cup {NoNonce}, count : Nat]
Calls ==
  [at : {"idle", "passed", "hash", "sent", "answered", "raised"}, url : URLs \cup {<<>>}, retry : 0 .. 1,
   challenge : Challenges \cup {NoChallenge}, asked : Challenges \cup {NoChallenge}]
Entries ==
  [by : Requests, retry : 0 .. 1, nonce : Nonces, nc : Nat \ {0}, asked : Challenges \cup {NoChallenge}]

TypeOK == mw \in Middlewares /\ call \in [Requests -> Calls] /\ log \in Seq(Entries)

\* A retry answers the challenge of its own response, whatever challenges other
\* requests have brought while its body was hashed.
RetryAnswersItsChallenge ==
  \A i \in DOMAIN log : log[i].retry = 1 => log[i].nonce = log[i].asked.nonce

\* The requests that follow each other with one nonce are counted 1, 2, 3, ... in
\* the order in which they are sent, also when bodies are hashed between.
CountsInOrder ==
  \A i \in DOMAIN log :
    log[i].nc = IF i > 1 /\ log[i - 1].nonce = log[i].nonce THEN log[i - 1].nc + 1 ELSE 1

\* "Includes replay attack protection with client nonce count tracking" (the
\* docstring of the class).  The code keeps the count of the last nonce only: when
\* requests alternate between two nonces, a count is used again.
CountedOnce ==
  \A i, j \in DOMAIN log : i # j /\ log[i].nonce = log[j].nonce => log[i].nc # log[j].nc

\* A request does not fail for a challenge that it was not sent.  The code keeps a
\* challenge that it cannot answer, and with preemptive= every later request of
\* the protection space raises before it is sent.
FailsForItsOwn ==
  [][\A r \in Requests : call[r].at = "idle" => call'[r].at # "raised"]_vars
=============================================================================
