------------------------------- MODULE Routing -------------------------------
(***************************************************************************)
(* Routing on the server: UrlDispatcher and its resources of               *)
(* aiohttp/web_urldispatcher.py, the mounting of applications and the      *)
(* middlewares of aiohttp/web_app.py, and normalize_path_middleware of     *)
(* aiohttp/web_middlewares.py.  The actions register routes, mount         *)
(* applications and freeze; resolve() is an operator on what they leave.   *)
(*                                                                         *)
(* A path is the sequence of its segments: "/" is <<"">>, "/a/" is         *)
(* <<"a", "">> and the empty path is <<>>.  In a pattern "*" is a variable *)
(* {name} and "**" a variable {tail:.*}.  Only the segment "é" differs     *)
(* from its quoted form.  Names, domains with a mask or a port, and a      *)
(* variable beside a literal in one segment are left out.                  *)
(***************************************************************************)
EXTENDS Integers, Sequences, FiniteSets, SequencesExt

CONSTANTS
  Apps,      \* applications; "root" is the one that is served
  Paths,     \* paths and patterns that are registered
  Mounts,  \* prefixes of add_subapp() and add_static()
  Domains,   \* domains of add_domain()
  Targets,   \* paths of requests, decoded
  MaxCalls   \* bound: calls that register something

VARIABLES
  router,  \* application -> [resources, index, domains (_matched_sub_app_resources), frozen]
  res,     \* the resources: kind, path (pattern or prefix), orig (as it was given), routes, app
  mounted, \* applications that have been mounted
  calls    \* calls made so far; the last number is the handler of its route

vars == <<router, res, mounted, calls>>

Methods == {"GET", "HEAD", "*"}
RootPath == <<"">>
Empty == [p \in {} |-> <<>>]

Init ==
  /\ router = [a \in Apps |-> [resources |-> <<>>, index |-> Empty, domains |-> <<>>, frozen |-> FALSE]]
  /\ res = <<>> /\ mounted = {} /\ calls = 0
-----------------------------------------------------------------------------
(* Resources.                                                              *)

Requote(s) == IF s = "é" THEN "%C3%A9" ELSE s
Requoted(path) == [i \in DOMAIN path |-> Requote(path[i])]
Variable == {"*", "**"}
IsDynamic(path) == \E i \in DOMAIN path : path[i] \in Variable

RECURSIVE Stripped(_)
Stripped(path) == IF path # <<>> /\ Last(path) = "" THEN Stripped(Front(path)) ELSE path

\* The segments of a pattern before its first variable.
Fixed(path) ==
  LET n == CHOOSE n \in 0..Len(path) : /\ \A i \in 1..n : path[i] \notin Variable
                                       /\ n < Len(path) => path[n + 1] \in Variable
  IN  SubSeq(path, 1, n)

\* _get_resource_index_key()
IndexKey(path) == LET key == Stripped(Fixed(path)) IN IF key = <<>> THEN RootPath ELSE key

At(index, key) == IF key \in DOMAIN index THEN index[key] ELSE <<>>
Put(f, key, value) == [k \in DOMAIN f \cup {key} |-> IF k = key THEN value ELSE f[k]]
Indexed(index, key, id) == Put(index, key, Append(At(index, key), id))
Unindexed(index, key, id) == Put(index, key, SelectSeq(At(index, key), LAMBDA i : i # id))

PlainPath(path) == IF IsDynamic(path) THEN Requoted(path) ELSE path
Resource(kind, path, routes, app) ==
  [kind |-> kind, path |-> path, orig |-> path, routes |-> routes, app |-> app]

\* register_resource()
Register(r, id, path) ==
  [r EXCEPT !.resources = Append(@, id), !.index = Indexed(@, IndexKey(path), id)]

\* add_prefix() of the resources ids of the router r, which are res[i].
\* A prefix resource passes it on to the application below.
Below(rs, a) ==  \* resources of a and of what is mounted in it
  LET direct(b) == {router[b].resources[i] : i \in DOMAIN router[b].resources}
      inner == {rs[i].app : i \in {j \in direct(a) : rs[j].kind = "sub"}}
  IN  direct(a) \cup UNION {direct(b) : b \in inner}

AppsBelow(a) == {a} \cup {res[i].app : i \in {j \in Below(res, a) : res[j].kind = "sub"}}

Prefixed(prefix, a) ==
  [i \in DOMAIN res |-> IF i \in Below(res, a) THEN [res[i] EXCEPT !.path = prefix \o @] ELSE res[i]]

\* Each resource is taken out of the index and put back under its new key.
Reindexed_Forgets(r, new) == r  \* mutant
Reindexed(r, new) ==
  [r EXCEPT !.index =
     FoldLeft(LAMBDA index, i : Indexed(Unindexed(index, IndexKey(res[i].path), i), IndexKey(new[i].path), i),
              @, r.resources)]
-----------------------------------------------------------------------------
(* Registration.                                                           *)

Last_(a) == IF router[a].resources = <<>> THEN 0 ELSE Last(router[a].resources)

\* raw_match() of the resource that was added last.
Reuses(a, path) ==
  LET i == Last_(a)
  IN  i # 0 /\ res[i].kind \in {"plain", "dynamic"}
            /\ (IF res[i].kind = "plain" THEN res[i].path ELSE res[i].orig) = path

Adds(a) == calls < MaxCalls /\ ~router[a].frozen

\* add_route() on the resource routes: an error if there is a route already.
Refused(routes, m) == m \in DOMAIN routes \/ "*" \in DOMAIN routes

\* add_route() for each of the methods ms; the first that is refused ends the
\* call, what was added before stays (add_get() adds HEAD, then GET).
WithRoutes(routes, ms, h) ==
  FoldLeft(LAMBDA s, m : IF s.failed \/ Refused(s.routes, m) THEN [s EXCEPT !.failed = TRUE]
                         ELSE [s EXCEPT !.routes = Put(@, m, h)],
           [routes |-> routes, failed |-> FALSE], ms).routes

\* A frozen router still gets methods for the resource it added last.
AddRoute(a, path, ms) ==
  /\ calls < MaxCalls /\ (Reuses(a, path) \/ ~router[a].frozen)
  /\ calls' = calls + 1
  /\ IF Reuses(a, path)
     THEN res' = [res EXCEPT ![Last_(a)].routes = WithRoutes(@, ms, calls + 1)] /\ UNCHANGED router
     ELSE LET r == [Resource(IF IsDynamic(path) THEN "dynamic" ELSE "plain", PlainPath(path),
                             WithRoutes(Empty, ms, calls + 1), a) EXCEPT !.orig = path]
          IN  /\ res' = Append(res, r)
              /\ router' = [router EXCEPT ![a] = Register(@, Len(res) + 1, r.path)]
  /\ UNCHANGED mounted

AddStatic(a, prefix) ==
  /\ Adds(a) /\ calls' = calls + 1
  /\ LET h == calls + 1
         r == [Resource("static", Requoted(prefix), [m \in {"GET", "HEAD"} |-> h], a) EXCEPT !.orig = prefix]
     IN  /\ res' = Append(res, r)
         /\ router' = [router EXCEPT ![a] = Register(@, Len(res) + 1, r.path)]
  /\ UNCHANGED mounted

\* freeze(): an empty path becomes "/".
Frozen(ids, rs) ==
  [i \in DOMAIN rs |-> IF i \in ids /\ rs[i].kind = "plain" /\ rs[i].path = <<>>
                       THEN [rs[i] EXCEPT !.path = RootPath] ELSE rs[i]]

\* An application is mounted once, and not in itself.
CanMount(a, b) == Adds(a) /\ a # b /\ b \notin mounted \cup {"root"} /\ a \notin AppsBelow(b)

\* An app with a domain cannot get a prefix: unindex_resource() raises KeyError.
AddSubapp(a, prefix, b) ==
  /\ CanMount(a, b) /\ \A c \in AppsBelow(b) : router[c].domains = <<>>
  /\ LET new == Prefixed(prefix, b)  \* as given: only the prefix of the mount is quoted
         id == Len(res) + 1
         sub == [Resource("sub", Requoted(prefix), Empty, b) EXCEPT !.orig = prefix]
     IN  /\ res' = Append(Frozen(Below(res, b), new), sub)
         /\ router' = [c \in Apps |->
                         IF c = a THEN Register(router[a], id, sub.path)
                         ELSE IF c \in AppsBelow(b) THEN [Reindexed(router[c], new) EXCEPT !.frozen = TRUE]
                         ELSE router[c]]
  /\ mounted' = mounted \cup {b} /\ calls' = calls + 1

AddDomain(a, domain, b) ==
  /\ CanMount(a, b)
  /\ LET id == Len(res) + 1
     IN  /\ res' = Append(Frozen(Below(res, b), res),
                          [Resource("domain", <<>>, Empty, b) EXCEPT !.orig = <<domain>>])
         /\ router' = [router EXCEPT ![b].frozen = TRUE, ![a].resources = Append(@, id), ![a].domains = Append(@, id)]
  /\ mounted' = mounted \cup {b} /\ calls' = calls + 1

\* The server starts: Application.pre_freeze().
Freeze ==
  /\ ~router["root"].frozen
  /\ router' = [router EXCEPT !["root"].frozen = TRUE]
  /\ res' = Frozen(Below(res, "root"), res)
  /\ UNCHANGED <<mounted, calls>>

Next ==
  \/ \E a \in Apps, path \in Paths, ms \in {<<"HEAD", "GET">>, <<"*">>} : AddRoute(a, path, ms)
  \/ \E a \in Apps, prefix \in Mounts : AddStatic(a, prefix)
  \/ \E a, b \in Apps, prefix \in Mounts : AddSubapp(a, prefix, b)
  \/ \E a, b \in Apps, d \in Domains : AddDomain(a, d, b)
  \/ Freeze

Spec == Init /\ [][Next]_vars
-----------------------------------------------------------------------------
(* resolve().  An answer is the handler that is found, or the error with   *)
(* the methods it allows, and the applications from the outermost on.      *)

\* Segments of a pattern: a variable takes one that is not empty, the tail
\* one or more of any kind.
RECURSIVE Fits(_, _)
Fits(pattern, path) ==
  IF pattern = <<>> \/ path = <<>> THEN pattern = path
  ELSE LET p == Head(pattern)
       IN  \E n \in 1..Len(path) :
             /\ \/ p = "**"
                \/ n = 1 /\ (p = path[1] \/ (p = "*" /\ path[1] # ""))
             /\ Fits(Tail(pattern), SubSeq(path, n + 1, Len(path)))

\* os.path.normpath(): two leading slashes stay.
Normal(path) ==
  LET step(s, seg) == IF seg = "" THEN s ELSE IF seg = ".." THEN (IF s = <<>> THEN s ELSE Front(s)) ELSE Append(s, seg)
      body == FoldLeft(step, <<>>, path)
  IN  IF Len(path) > 1 /\ path[1] = "" /\ path[2] # "" THEN <<"">> \o body ELSE body

Found(h) == [handler |-> h, allowed |-> {}, apps |-> <<>>]
Error(methods) == [handler |-> 0, allowed |-> methods, apps |-> <<>>]
NoMatch == [handler |-> -1, allowed |-> {}, apps |-> <<>>]  \* the search goes on

\* Resource.resolve(), StaticResource.resolve()
Route(r, m) ==
  IF m \in DOMAIN r.routes THEN Found(r.routes[m])
  ELSE IF "*" \in DOMAIN r.routes THEN Found(r.routes["*"])
  ELSE [NoMatch EXCEPT !.allowed = DOMAIN r.routes]

Fits_Resource(r, path) ==
  CASE r.kind = "plain" -> r.path = path
    [] r.kind = "dynamic" -> Fits(r.path, path)
    [] r.kind = "static" -> IsPrefix(r.path, Normal(path))

\* The application below is asked: always by a prefix resource, which has been
\* found in the index, and by a domain resource when its rule matches.
Asked(r, req) == r.kind = "sub" \/ (r.kind = "domain" /\ r.orig = <<req.host>>)

RECURSIVE Resolve(_, _), Tried(_, _, _, _)

\* The first answer of the candidates; the methods of the others are gathered.
Tried(a, candidates, req, allowed) ==
  IF candidates = <<>> THEN [NoMatch EXCEPT !.allowed = allowed]
  ELSE LET r == res[Head(candidates)]
           got == IF Asked(r, req) THEN Resolve(r.app, req)
                  ELSE IF r.kind # "domain" /\ Fits_Resource(r, req.path) THEN Route(r, req.method)
                  ELSE NoMatch
       IN  IF got.handler >= 0 THEN got
           ELSE Tried(a, Tail(candidates), req, allowed \cup got.allowed)

\* The parts of a path, from the longest on.
RECURSIVE Parts(_)
Parts(path) ==
  IF path = <<>> THEN <<>> ELSE IF path = RootPath THEN <<RootPath>>
  ELSE <<path>> \o (IF Len(path) = 1 THEN <<RootPath>> ELSE Parts(Front(path)))

\* UrlDispatcher.resolve(), then add_app() of the application.
Resolve(a, req) ==
  LET parts == Parts(req.path)
      candidates == FoldLeft(LAMBDA ids, part : ids \o At(router[a].index, part), <<>>, parts)
      got == Tried(a, router[a].domains \o candidates, req, {})
      answer == IF got.handler >= 0 THEN got ELSE Error(got.allowed)
  IN  [answer EXCEPT !.apps = <<a>> \o @]
-----------------------------------------------------------------------------
(* Middlewares: two of each application.                                   *)

\* _prepare_middleware() and _build_middlewares(): who calls whom, from the
\* outside in; 0 is _fix_request_current_app.
Prepared_FixFirst(a) == <<[app |-> a, mw |-> 0], [app |-> a, mw |-> 2], [app |-> a, mw |-> 1]>>  \* mutant
Prepared(a) == <<[app |-> a, mw |-> 2], [app |-> a, mw |-> 1], [app |-> a, mw |-> 0]>>
Built(apps) ==
  LET wrap(chain, m) == <<m>> \o chain
  IN  FoldLeft(LAMBDA chain, a : FoldLeft(wrap, chain, Prepared(a)), <<>>, Reverse(apps))

\* match_info.current_app in the n-th call of the chain, the handler last; it
\* starts with the innermost application.
CurrentApp(apps, n) ==
  FoldLeft(LAMBDA app, m : IF m.mw = 0 THEN m.app ELSE app, Last(apps), SubSeq(Built(apps), 1, n - 1))
-----------------------------------------------------------------------------
(* normalize_path_middleware of the application that is served.            *)

RECURSIVE Merged(_)
Merged(path) ==  \* "//+" becomes "/"
  IF Len(path) < 2 THEN path
  ELSE IF path[1] = "" THEN Merged(Tail(path)) ELSE <<path[1]>> \o Merged(Tail(path))

\* "^//+" becomes "/": the target stays on this host.
RECURSIVE Anchored(_)
Anchored_Not(path) == path  \* mutant
Anchored(path) == IF Len(path) > 1 /\ path[1] = "" THEN Anchored(Tail(path)) ELSE path

EndsInSlash(path) == path # <<>> /\ Last(path) = ""
ToCheck(path, append, remove, merge) ==
  LET when(c, p) == IF c THEN <<p>> ELSE <<>>
      slash == Append(path, "")
  IN  when(merge, Merged(path)) \o when(append /\ ~EndsInSlash(path), slash)
      \o when(remove /\ EndsInSlash(path), Front(path))
      \o when(merge /\ append, Merged(slash))
      \o when(merge /\ remove /\ EndsInSlash(path), Front(Merged(path)))

\* Where the middleware redirects to, <<>> if it does not.
Redirect(req, append, remove, merge) ==
  LET resolves(p) == Resolve("root", [req EXCEPT !.path = Anchored(p)]).handler > 0
      paths == SelectSeq(ToCheck(req.path, append, remove, merge), resolves)
  IN  IF Resolve("root", req).handler > 0 \/ paths = <<>> THEN <<>> ELSE Anchored(Head(paths))
-----------------------------------------------------------------------------
(* Properties.                                                             *)

TypeOK ==
  /\ \A i \in DOMAIN res : /\ res[i].kind \in {"plain", "dynamic", "static", "sub", "domain"}
                           /\ DOMAIN res[i].routes \subseteq Methods /\ res[i].app \in Apps
  \* A resource is in the index of one router, once, under its own key.
  /\ \A a \in Apps : \A i \in 1..Len(router[a].resources) :
       LET id == router[a].resources[i]
           places(k) == {n \in DOMAIN router[a].index[k] : router[a].index[k][n] = id}
       IN  res[id].kind # "domain" =>
             \A k \in DOMAIN router[a].index : Cardinality(places(k)) = IF k = IndexKey(res[id].path) THEN 1 ELSE 0

Requests ==
  [path : Targets, method : {"GET", "POST"},
   host : {"other"} \cup {res[i].orig[1] : i \in {j \in DOMAIN res : res[j].kind = "domain"}}]

\* The lookup without an index and from what was registered: the path of a
\* resource is what it was given behind the prefixes of the mounts above it; the
\* longest fixed part first, then the order of registration.  Resources with a
\* domain come before the others (domainsFirst) or after them.
Prefix(a) ==  \* of the application a
  LET above(b) == {i \in DOMAIN res : res[i].kind = "sub" /\ res[i].app = b}
      own(b) == IF above(b) = {} THEN <<>> ELSE res[CHOOSE i \in above(b) : TRUE].orig
      parent(b) == IF above(b) = {} THEN b
                   ELSE CHOOSE c \in Apps : Contains(router[c].resources, CHOOSE i \in above(b) : TRUE)
  IN  own(parent(a)) \o (IF parent(a) = a THEN <<>> ELSE own(a))
FullPath(a, r) ==
  LET p == Prefix(a) \o (IF r.kind = "domain" THEN <<>> ELSE r.orig)
  IN  IF p = <<>> /\ router[a].frozen THEN RootPath ELSE p

RECURSIVE Expected(_, _, _)
Expected(a, req, domainsFirst) ==
  LET path(i) == FullPath(a, res[i])
      longer(i, j) == \/ Len(IndexKey(path(i))) > Len(IndexKey(path(j)))
                      \/ IndexKey(path(j)) = RootPath /\ IndexKey(path(i)) # RootPath
      ids == ToSet(router[a].resources)
      fits(i) == CASE res[i].kind = "sub" -> IsPrefix(path(i), req.path)
                   [] res[i].kind = "domain" -> res[i].orig = <<req.host>>
                   [] res[i].kind = "static" -> IsPrefix(path(i), Normal(req.path))
                   [] OTHER -> Fits(path(i), req.path)
      early(i) == (res[i].kind = "domain") = domainsFirst
      first(i, j) == \/ early(i) /\ ~early(j)
                     \/ early(i) = early(j) /\ (longer(i, j) \/ (~longer(j, i) /\ i < j))
      candidates == {i \in ids : fits(i)}
      answer(i) == IF res[i].kind \in {"sub", "domain"} THEN Expected(res[i].app, req, domainsFirst)
                   ELSE Route(res[i], req.method)
      good == {i \in candidates : answer(i).handler >= 0}
      got == IF good = {} THEN Error(UNION {answer(i).allowed : i \in candidates})
             ELSE answer(CHOOSE i \in good : \A j \in good : i = j \/ first(i, j))
  IN  [got EXCEPT !.apps = <<a>> \o @]

\* The router finds what the comments of resolve() promise: "a sub app that
\* defines the same path as a parent app will get priority if there's a domain
\* match" (web_urldispatcher.py:986), then "the most explicit match is found
\* first" and "registration order is respected" (:999-1002): the route, the
\* methods of a 405, and the applications whose middlewares run, however deep
\* the resources are mounted.
FindsInOrder ==
  router["root"].frozen => \A req \in Requests : Resolve("root", req) = Expected("root", req, TRUE)

\* "If the route is not found in the index, the router tries to find the route
\* in the list of MatchedSubAppResource" (docs/web_reference.rst:2051).  The
\* code breaks it: the list is tried before the index.
DomainsComeLast ==
  router["root"].frozen => \A req \in Requests : Resolve("root", req) = Expected("root", req, FALSE)

\* normalize_path_middleware redirects to a path that has a route, so that it
\* never redirects twice, and that names no other host.
RedirectsOnce ==
  router["root"].frozen =>
    \A path \in Targets, merge \in BOOLEAN, mode \in {<<TRUE, FALSE>>, <<FALSE, TRUE>>, <<FALSE, FALSE>>} :
      LET req == [path |-> path, method |-> "GET", host |-> "other"]
          to == Redirect(req, mode[1], mode[2], merge)
      IN  to # <<>> => /\ Resolve("root", [req EXCEPT !.path = to]).handler > 0
                       /\ ~(Len(to) > 1 /\ to[1] = "")

\* Middlewares run from the outermost application inwards, in the order they
\* were added, and each of them, like the handler, finds its own application
\* in request.app, also for a request that finds no route.
MiddlewareSeesItsApp ==
  router["root"].frozen => \A req \in Requests :
    LET apps == Resolve("root", req).apps
        chain == Built(apps)
        own == SelectSeq(chain, LAMBDA m : m.mw > 0)
    IN  /\ own = FoldLeft(LAMBDA s, a : s \o <<[app |-> a, mw |-> 1], [app |-> a, mw |-> 2]>>, <<>>, apps)
        /\ \A n \in DOMAIN chain : chain[n].mw > 0 => CurrentApp(apps, n) = chain[n].app
        /\ CurrentApp(apps, Len(chain) + 1) = Last(apps)

\* "Unicode (non-ASCII) symbols are processed transparently on both route
\* adding and resolving" (docs/web_advanced.rst).  The code breaks it: a
\* pattern with a variable, a static prefix and the prefix of an application
\* are quoted, the path of the request is not.
UnicodeIsTransparent == FindsInOrder
=============================================================================
