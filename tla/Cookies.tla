------------------------------- MODULE Cookies -------------------------------
(***************************************************************************)
(* Cookies: the session's CookieJar (aiohttp/cookiejar.py), the parser of  *)
(* Set-Cookie headers (aiohttp/_cookie_helpers.py) and the cookies of a    *)
(* response on the server (CookieMixin of aiohttp/helpers.py).             *)
(*                                                                         *)
(* A host is the sequence of its labels from the right (<<"org", "a">> is  *)
(* a.org); "" as the first label is a dot at the end, as the last a dot in *)
(* front.  A path is the sequence of its segments ("/a/" is <<"a", "">>,   *)
(* "/" is <<"">>).  A header is a sequence of parts that the pattern of    *)
(* the parser has cut out.  Quoting, SameSite and Partitioned are left     *)
(* out, and every attribute but the five below.                            *)
(***************************************************************************)
EXTENDS Integers, Sequences, FiniteSets, SequencesExt

CONSTANTS
  Hosts,         \* hosts of responses and requests; <<>> is no URL, for shared cookies
  ReqPaths,      \* their paths
  Headers,       \* Set-Cookie headers
  IPs,           \* the hosts that are IP addresses
  Unsafe,        \* CookieJar(unsafe=...): cookies of IP addresses are accepted
  MinScheduled,  \* _MIN_SCHEDULED_COOKIE_EXPIRATION
  MaxTime,       \* bound: the clock, and the MAX_TIME of the jar
  MaxCalls       \* bound: calls that change the jar

VARIABLES
  jar,    \* cookies, cache (_morsel_cache), hostOnly, expirations, heap
  now,    \* time.time()
  file,   \* what save() wrote last
  calls

vars == <<jar, now, file, calls>>

NONE == -100  \* no max-age, no expires
BAD == -99    \* a max-age that is no number, a date that is none
Root == <<"">>
Nothing == [k \in {} |-> 0]
Put(f, k, v) == [x \in DOMAIN f \cup {k} |-> IF x = k THEN v ELSE f[x]]
Without(f, ks) == [x \in DOMAIN f \ ks |-> f[x]]

EmptyJar == [cookies |-> Nothing, cache |-> Nothing, hostOnly |-> {}, expirations |-> Nothing, heap |-> {}]
Init == jar = EmptyJar /\ now = 0 /\ file = {} /\ calls = 0
-----------------------------------------------------------------------------
(* Set-Cookie headers.  A part is [kind, key, val]: "pair" name=value,     *)
(* "bare" a name alone, "attr" an attribute ("path", "domain", "max-age",  *)
(* "expires"), "flag" (secure), "dollar" an attribute with "$" in front,   *)
(* "bad" a name that is not allowed, "none" an attribute without its value.*)

NoAttrs == [domain |-> <<>>, path |-> <<>>, maxage |-> NONE, expires |-> NONE, secure |-> FALSE]
WithAttr(c, p) ==
  CASE p.key = "domain" -> [c EXCEPT !.attrs.domain = p.val]
    [] p.key = "path" -> [c EXCEPT !.attrs.path = p.val]
    [] p.key = "max-age" -> [c EXCEPT !.attrs.maxage = p.val]
    [] p.key = "expires" -> [c EXCEPT !.attrs.expires = p.val]
    [] OTHER -> [c EXCEPT !.attrs.secure = TRUE]

\* parse_set_cookie_headers(): an attribute belongs to the cookie before it, if
\* that had a legal name; some parts end the parsing.
Parsed(header) ==
  LET step(s, p) ==
        CASE s.ended -> s
          [] p.kind = "pair" -> [s EXCEPT !.found = Append(@, [name |-> p.key, value |-> p.val, attrs |-> NoAttrs]), !.current = TRUE]
          [] p.kind = "bad" -> [s EXCEPT !.current = FALSE]
          [] p.kind = "bare" -> [s EXCEPT !.ended = TRUE]
          [] p.kind = "dollar" /\ s.found = <<>> -> s
          [] p.kind = "none" \/ s.found = <<>> -> [s EXCEPT !.ended = TRUE]
          [] OTHER -> IF s.current THEN [s EXCEPT !.found[Len(s.found)] = WithAttr(@, p)] ELSE s
  IN  FoldLeft(step, [found |-> <<>>, current |-> FALSE, ended |-> FALSE], header).found

\* _parse_date() of a sequence of tokens: the first token that looks like a
\* time, then like a day, a month, a year is taken for it; a year of two digits
\* is of 1970 to 2069.  The result orders dates as timegm() does.
ParseDate(tokens) ==
  LET step(d, t) ==
        CASE t.is = "time" /\ d.time = NONE -> [d EXCEPT !.time = t.n]
          [] t.is = "number" /\ d.day = NONE -> [d EXCEPT !.day = t.n]
          [] t.is = "month" /\ d.month = NONE -> [d EXCEPT !.month = t.n]
          [] t.is = "number" /\ d.day # NONE /\ d.year = NONE -> [d EXCEPT !.year = t.n]
          [] OTHER -> d
      found == FoldLeft(step, [time |-> NONE, day |-> NONE, month |-> NONE, year |-> NONE], tokens)
      year == IF found.year \in 70..99 THEN found.year + 1900 ELSE IF found.year \in 0..69 THEN found.year + 2000 ELSE found.year
      bad == \/ NONE \in {found.time, found.day, found.month, found.year}
             \/ found.day \notin 1..31 \/ year < 1601 \/ found.time = BAD
  IN  IF bad THEN BAD ELSE (((year - 1970) * 12 + found.month - 1) * 31 + found.day - 1) * 100 + found.time
-----------------------------------------------------------------------------
(* The jar.                                                                *)

\* A path without the slashes it ends in.
Stripped(path) == SubSeq(path, 1, Max({0} \cup {i \in DOMAIN path : path[i] # ""}))

\* _is_domain_match()
DomainMatch(domain, host) == host = domain \/ (IsPrefix(domain, host) /\ host \notin IPs)

\* _expire_cookie(): what is scheduled already is not put on the heap again.
Expire(j, when, key) ==
  IF key \in DOMAIN j.expirations /\ j.expirations[key] = when THEN j
  ELSE [j EXCEPT !.heap = @ \cup {<<when, key>>}, !.expirations = Put(@, key, when)]

\* _delete_cookies()
Deleted_KeepsCache(j, keys) ==  \* mutant
  [j EXCEPT !.hostOnly = @ \ {<<k.domain, k.name>> : k \in keys}, !.cookies = Without(@, keys), !.expirations = Without(@, keys)]
Deleted(j, keys) ==
  [j EXCEPT !.hostOnly = @ \ {<<k.domain, k.name>> : k \in keys}, !.cookies = Without(@, keys),
            !.cache = Without(@, keys), !.expirations = Without(@, keys)]

IsScheduled(j, entry) == entry[2] \in DOMAIN j.expirations /\ j.expirations[entry[2]] = entry[1]

\* _do_expiration(): entries of cookies that were set again are dropped when
\* there are many of them, and skipped when their time comes.
Purged(j) ==
  LET crowded == Cardinality(j.heap) > MinScheduled /\ Cardinality(j.heap) > 2 * Cardinality(DOMAIN j.expirations)
      heap == IF crowded THEN {e \in j.heap : IsScheduled(j, e)} ELSE j.heap
      over == {e \in heap : e[1] <= now}
  IN  Deleted([j EXCEPT !.heap = heap \ over], {e[2] : e \in {x \in over : IsScheduled(j, x)}})

Smaller(a, b) == IF a < b THEN a ELSE b
Due(attrs) ==  \* max-age goes before expires, also when it is no number
  IF attrs.maxage = BAD THEN NONE
  ELSE IF attrs.maxage # NONE THEN Smaller(now + attrs.maxage, MaxTime)
  ELSE IF attrs.expires = BAD THEN NONE ELSE attrs.expires

DefaultPath(path) == IF Len(path) < 2 THEN Root ELSE Front(path)

\* The loop body of update_cookies().  own and due are what the cookie itself
\* says (history): set without a Domain, and its deadline.
Accepted(j, c, host, path) ==
  LET given == IF c.attrs.domain # <<>> /\ c.attrs.domain[1] = "" THEN <<>> ELSE c.attrs.domain
      own == given = <<>> /\ host # <<>>
      domain == IF own THEN host ELSE IF given # <<>> /\ Last(given) = "" THEN Front(given) ELSE given
      at == IF c.attrs.path = <<>> THEN DefaultPath(path) ELSE c.attrs.path
      key == [domain |-> domain, path |-> Stripped(at), name |-> c.name]
      due == Due(c.attrs)
      new == [value |-> c.value, path |-> at, secure |-> c.attrs.secure, own |-> own, due |-> due]
      same == /\ key \in DOMAIN j.cookies
              /\ \A f \in {"value", "path", "secure"} : j.cookies[key][f] = new[f]
      flagged == IF own THEN [j EXCEPT !.hostOnly = @ \cup {<<host, c.name>>}] ELSE j
      timed == IF due = NONE THEN flagged ELSE Expire(flagged, due, key)
  IN  IF host # <<>> /\ ~DomainMatch(domain, host) THEN flagged
      ELSE [timed EXCEPT !.cookies = Put(@, key, new), !.cache = IF same THEN @ ELSE Without(@, {key})]

\* update_cookies()
Updated(j, found, host, path) ==
  IF host \in IPs /\ ~Unsafe THEN j
  ELSE Purged(FoldLeft(LAMBDA x, c : Accepted(x, c, host, path), j, found))

\* filter_cookies(), after the expiration: the pairs of a domain and a path
\* that the URL has, from the shortest domain and path on.
Sendable_AnyPath(j, k, u) ==  \* mutant
  IsPrefix(k.domain, u.host) /\ k.domain # <<>> /\ IsPrefix(k.path, u.path) /\ (j.cookies[k].secure => u.secure)
Sendable(j, k, u) ==
  LET c == j.cookies[k]
  IN  /\ IsPrefix(k.domain, u.host) /\ k.domain # <<>> /\ IsPrefix(k.path, u.path)
      /\ <<k.domain, k.name>> \in j.hostOnly => k.domain = u.host
      /\ ~(Len(c.path) > Len(k.path) /\ k.path = u.path /\ u.path # <<>>)
      /\ c.secure => u.secure
Chosen(j, u) ==
  LET shared == {k \in DOMAIN j.cookies : k.domain = <<>> /\ k.path = <<>>}
      asked == IF u.host \in IPs /\ ~Unsafe THEN {} ELSE {k \in DOMAIN j.cookies : Sendable(j, k, u)}
      later(k, l) == Len(k.domain) > Len(l.domain) \/ (k.domain = l.domain /\ Len(k.path) > Len(l.path))
      all == shared \cup asked
  IN  {k \in all : \A l \in all : l.name = k.name => ~later(l, k)}

Built(j, ks) == [j EXCEPT !.cache = [k \in DOMAIN @ \cup ks |-> IF k \in DOMAIN @ THEN @[k] ELSE j.cookies[k].value]]
Filtered(j, u) ==
  LET purged == Purged(j)
      ks == Chosen(purged, u)
      built == Built(purged, ks)
  IN  {[name |-> k.name, value |-> built.cache[k]] : k \in ks}

\* save(): the relative attributes are left out, the deadline is added.
Saved_NoFlag(j) ==  \* mutant
  {[key |-> k, value |-> j.cookies[k].value, path |-> j.cookies[k].path, secure |-> j.cookies[k].secure, own |-> j.cookies[k].own,
    hostOnly |-> FALSE, when |-> IF k \in DOMAIN j.expirations THEN j.expirations[k] ELSE NONE] : k \in DOMAIN j.cookies}
Saved(j) ==
  {[key |-> k, value |-> j.cookies[k].value, path |-> j.cookies[k].path, secure |-> j.cookies[k].secure, own |-> j.cookies[k].own,
    hostOnly |-> <<k.domain, k.name>> \in j.hostOnly,
    when |-> IF k \in DOMAIN j.expirations THEN j.expirations[k] ELSE NONE] : k \in DOMAIN j.cookies}

\* load(): each cookie goes through update_cookies() as if its domain had sent
\* it; one that is host-only gets no Domain.
Loaded(data) ==
  LET one(j, r) ==
        LET c == [name |-> r.key.name, value |-> r.value,
                  attrs |-> [NoAttrs EXCEPT !.domain = IF r.hostOnly THEN <<>> ELSE r.key.domain, !.path = r.path, !.secure = r.secure]]
            put == Updated(j, <<c>>, r.key.domain, Root)
            timed == IF r.when = NONE THEN put ELSE Expire(put, r.when, r.key)
        IN  IF r.key \in DOMAIN timed.cookies
            THEN [timed EXCEPT !.cookies[r.key].own = r.own, !.cookies[r.key].due = r.when] ELSE timed
  IN  Purged(FoldLeft(one, EmptyJar, SetToSeq(data)))
-----------------------------------------------------------------------------
Urls == [host : Hosts \ {<<>>}, path : ReqPaths, secure : BOOLEAN]
Call == calls < MaxCalls /\ calls' = calls + 1

\* A response (or, with no host, the session itself) sets cookies.
Update(host, path, header) ==
  Call /\ jar' = Updated(jar, Parsed(header), host, path) /\ UNCHANGED <<now, file>>

\* A request takes its cookies.
Request(u) ==
  /\ DOMAIN jar.cookies # {}
  /\ jar' = Built(Purged(jar), Chosen(Purged(jar), u))
  /\ UNCHANGED <<now, file, calls>>

Clear == Call /\ jar' = EmptyJar /\ UNCHANGED <<now, file>>

\* clear_domain(): with what is expired.
ClearDomain(domain) ==
  /\ Call
  /\ jar' = Deleted(jar, {k \in DOMAIN jar.cookies : \/ k \in DOMAIN jar.expirations /\ jar.expirations[k] <= now
                                                     \/ DomainMatch(domain, k.domain)})
  /\ UNCHANGED <<now, file>>

Save == Call /\ file' = Saved(jar) /\ UNCHANGED <<jar, now>>
Load == Call /\ jar' = Loaded(file) /\ UNCHANGED <<now, file>>
Tick == now < MaxTime /\ now' = now + 1 /\ UNCHANGED <<jar, file, calls>>

Next ==
  \/ \E host \in Hosts, path \in ReqPaths, header \in Headers : Update(host, path, header)
  \/ \E u \in Urls : Request(u)
  \/ \E d \in Hosts \ {<<>>} : ClearDomain(d)
  \/ Clear \/ Save \/ Load \/ Tick

Spec == Init /\ [][Next]_vars
-----------------------------------------------------------------------------
(* The server's side: set_cookie() and del_cookie() on the cookies of one  *)
(* response, and the header that is made of one of them.                   *)

Epoch == 0
SetCookie_KeepsExpires(cs, name, value, o) ==  \* mutant
  LET old == IF name \in DOMAIN cs THEN cs[name].attrs ELSE NoAttrs
  IN  Put(cs, name, [value |-> value, attrs |-> [old EXCEPT !.path = o.path, !.maxage = o.maxage,
                                                            !.expires = IF o.expires # NONE THEN o.expires ELSE @]])
SetCookie(cs, name, value, o) ==  \* o: the parameters; NONE, <<>> and FALSE are None
  LET old == IF name \in DOMAIN cs THEN cs[name].attrs ELSE NoAttrs
      expires == IF o.expires # NONE THEN o.expires ELSE IF old.expires = Epoch THEN NONE ELSE old.expires
  IN  Put(cs, name, [value |-> value,
          attrs |-> [domain |-> IF o.domain # <<>> THEN o.domain ELSE old.domain, path |-> o.path, maxage |-> o.maxage,
                     expires |-> expires, secure |-> o.secure \/ old.secure]])
DelCookie(cs, name, o) ==
  SetCookie(Without(cs, {name}), name, "", [o EXCEPT !.maxage = 0, !.expires = Epoch])

\* populate_with_cookies()
Output(name, c) ==
  LET attr(key, val, there) == IF there THEN <<[kind |-> "attr", key |-> key, val |-> val]>> ELSE <<>>
      a == c.attrs
  IN  <<[kind |-> "pair", key |-> name, val |-> c.value]>> \o attr("domain", a.domain, a.domain # <<>>)
      \o attr("expires", a.expires, a.expires # NONE) \o attr("max-age", a.maxage, a.maxage # NONE)
      \o attr("path", a.path, a.path # <<>>) \o attr("secure", TRUE, a.secure)
-----------------------------------------------------------------------------
(* Properties.                                                             *)

\* The jar's indexes agree: a deadline is on the heap, or the cookie would never
\* expire; a cookie's own deadline is the one that is scheduled; what was built
\* for an earlier request is the cookie that is stored now.
JarConsistent ==
  /\ \A k \in DOMAIN jar.expirations : k \in DOMAIN jar.cookies /\ <<jar.expirations[k], k>> \in jar.heap
  /\ \A k \in DOMAIN jar.cookies : LET due == jar.cookies[k].due
                                   IN  due # NONE => k \in DOMAIN jar.expirations /\ jar.expirations[k] = due
  /\ \A k \in DOMAIN jar.cache : k \in DOMAIN jar.cookies /\ jar.cache[k] = jar.cookies[k].value

\* A request carries, of every name, the most specific cookie whose domain, path
\* and Secure attribute allow it (RFC 6265, 5.1.3, 5.1.4 and 5.4) and whose
\* deadline has not come, with the value that was set last.
PathMatch(cookie, path) ==
  IF Last(cookie) = "" THEN IsPrefix(Front(cookie), path) /\ Len(path) >= Len(cookie) ELSE IsPrefix(cookie, path)
SentIsRight ==
  \A u \in Urls :
    LET c(k) == jar.cookies[k]
        live == {k \in DOMAIN jar.cookies : /\ c(k).due = NONE \/ c(k).due > now
                                            /\ k \in DOMAIN jar.expirations => jar.expirations[k] > now}
        fits == {k \in live : /\ DomainMatch(k.domain, u.host) /\ PathMatch(c(k).path, u.path) /\ (c(k).secure => u.secure)
                              /\ <<k.domain, k.name>> \in Purged(jar).hostOnly => k.domain = u.host
                              /\ k.domain = <<>> => k.path = <<>>}
        best == {k \in fits : \A l \in fits : l.name = k.name =>
                   /\ Len(l.domain) <= Len(k.domain)
                   /\ l.domain = k.domain => Len(l.path) <= Len(k.path)}
    IN  u.host \notin IPs => Filtered(jar, u) = {[name |-> k.name, value |-> c(k).value] : k \in best}

\* save() and load() change nothing of what requests carry: not the deadlines,
\* and not who gets the cookie.  (Where an expired cookie takes the host-only
\* flag of another path with it, see below, the order of loading decides.)
FlagsStay == \A k \in DOMAIN Purged(jar).cookies :
               <<k.domain, k.name>> \in jar.hostOnly => <<k.domain, k.name>> \in Purged(jar).hostOnly
SaveLoadRestores == FlagsStay => \A u \in Urls : Filtered(Loaded(Saved(jar)), u) = Filtered(jar, u)

\* The docs call (domain, name) of host_only_cookies "not sent to subdomains"
\* (docs/client_reference.rst), and a cookie that is set without a Domain is one.
\* The flag has no path: deleting the cookie of one path takes it from the
\* cookie of the same name at another path, which then goes to subdomains.
HostOnlyStays ==
  \A u \in Urls, k \in DOMAIN Purged(jar).cookies :
    k \in Chosen(Purged(jar), u) /\ jar.cookies[k].own => k.domain = u.host
=============================================================================
