-------------------------- MODULE ConnectionLease --------------------------
(***************************************************************************)
(* What the pool promises its callers (docs/client_reference.rst,          *)
(* connectors): a connection is leased to one task at a time, to a task    *)
(* that asked for the host it is connected to; between two leases it is    *)
(* idle in the pool, and only a connection that stayed open goes from the  *)
(* pool to a task; once the connector is closed the pool is empty for      *)
(* good.                                                                   *)
(***************************************************************************)
CONSTANTS Tasks, Keys, Protos

VARIABLES
  owner,   \* who has each connection: a task, "pool", or "nobody"
  host,    \* the host each connection was opened to
  open,    \* the connections whose transport is open
  closed   \* the connector is closed

vars == <<owner, host, open, closed>>

Init ==
  /\ owner = [p \in Protos |-> "nobody"]
  /\ host \in [Protos -> Keys]
  /\ open = {}
  /\ closed = FALSE

\* Connections of S are closed and leave the pool.
Discard(S) ==
  /\ \A p \in S : owner[p] = "pool"
  /\ owner' = [p \in Protos |-> IF p \in S THEN "nobody" ELSE owner[p]]
  /\ open' = open \ S
  /\ UNCHANGED <<host, closed>>

\* A new connection to k, for task r.
Open(r, k, p) ==
  /\ owner[p] = "nobody" /\ p \notin open
  /\ owner' = [owner EXCEPT ![p] = r]
  /\ host' = [host EXCEPT ![p] = k]
  /\ open' = open \cup {p}
  /\ UNCHANGED closed

\* A new connection that the closed connector drops at once.
OpenLate(k, p) ==
  /\ closed /\ owner[p] = "nobody" /\ p \notin open
  /\ host' = [host EXCEPT ![p] = k]
  /\ UNCHANGED <<owner, open, closed>>

\* Task r takes p from the pool; connections of S are discarded on the way.
Take(r, p, S) ==
  /\ owner[p] = "pool" /\ p \in open /\ p \notin S
  /\ \A s \in S : owner[s] = "pool" /\ host[s] = host[p]
  /\ owner' = [q \in Protos |-> IF q = p THEN r ELSE IF q \in S THEN "nobody" ELSE owner[q]]
  /\ open' = open \ S
  /\ UNCHANGED <<host, closed>>

\* Task r gives p back for reuse.
Return(r, p) ==
  /\ ~closed /\ owner[p] = r /\ p \in open
  /\ owner' = [owner EXCEPT ![p] = "pool"]
  /\ UNCHANGED <<host, open, closed>>

\* Task r is done with p, which is not used again.
Finish(r, p) ==
  /\ owner[p] = r
  /\ owner' = [owner EXCEPT ![p] = "nobody"]
  /\ open' \in {open, open \ {p}}
  /\ UNCHANGED <<host, closed>>

\* The transport of p is lost.
Lose(p) ==
  /\ p \in open
  /\ open' = open \ {p}
  /\ UNCHANGED <<owner, host, closed>>

\* The connector is closed: idle connections go, leased ones are cut off.
Close ==
  /\ ~closed /\ closed' = TRUE
  /\ owner' = [p \in Protos |-> IF owner[p] = "pool" THEN "nobody" ELSE owner[p]]
  /\ open' \subseteq open /\ \A p \in open' : owner[p] # "pool"
  /\ UNCHANGED host

Next ==
  \/ \E S \in SUBSET Protos : Discard(S)
  \/ \E r \in Tasks, k \in Keys, p \in Protos : Open(r, k, p)
  \/ \E k \in Keys, p \in Protos : OpenLate(k, p)
  \/ \E r \in Tasks, p \in Protos, S \in SUBSET Protos : Take(r, p, S)
  \/ \E r \in Tasks, p \in Protos : Return(r, p) \/ Finish(r, p)
  \/ \E p \in Protos : Lose(p)
  \/ Close

Spec == Init /\ [][Next]_vars
=============================================================================
