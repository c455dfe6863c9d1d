------------------------------ MODULE MCServer ------------------------------
(* The parts of the server, one at a time: `component` says which of them    *)
(* moves.  RequestHandler keeps its own variables, v1, v2, ... are those of   *)
(* the others in the order they declare them.                                *)
EXTENDS MCRequestHandler

CONSTANTS Root, Subs  \* AppLifecycle

VARIABLES component, v1, v2, v3, v4, v5, v6, v7, v8, v9, v10, v11, v12, v13, v14

App == INSTANCE AppLifecycle WITH
  apps <- v1, mode <- v2, phase <- v3, todo <- v4, exits <- v5, gone <- v6, errors <- v7, sites <- v8,
  outer <- v9, cancelled <- v10, alive <- v11, booted <- v12, failures <- v13, signals <- v14,
  Sites <- <<"tcp", "unix">>, Modes <- {"run_app", "worker", "runner"},
  MaxContexts <- 2, MaxCallbacks <- 1, MaxFailures <- 1, MaxSignals <- 2

PathData == INSTANCE MCRouting WITH
  router <- v1, res <- v2, mounted <- v3, calls <- v4,
  Apps <- {}, Paths <- {}, Mounts <- {}, Domains <- {}, Targets <- {}, MaxCalls <- 0
Router == INSTANCE Routing WITH
  router <- v1, res <- v2, mounted <- v3, calls <- v4,
  Apps <- {"root", "sub", "deep"}, Paths <- PathData!SomePaths, Mounts <- PathData!SomeMounts,
  Domains <- {"example.org"}, Targets <- PathData!SomeTargets, MaxCalls <- 3

others == <<v1, v2, v3, v4, v5, v6, v7, v8, v9, v10, v11, v12, v13, v14>>
unused == <<v5, v6, v7, v8, v9, v10, v11, v12, v13, v14>>
From5 == v5 = 0 /\ v6 = 0 /\ v7 = 0 /\ v8 = 0 /\ v9 = 0 /\ v10 = 0 /\ v11 = 0 /\ v12 = 0 /\ v13 = 0 /\ v14 = 0

\* A connection that does not move.
Still == Init /\ parser = (CHOOSE p \in Parsers : TRUE) /\ script = (CHOOSE s \in Scripts : TRUE)
ServerInit ==
  \/ component = "connection" /\ Init /\ v1 = 0 /\ v2 = 0 /\ v3 = 0 /\ v4 = 0 /\ From5
  \/ component = "app" /\ Still /\ App!Init
  \/ component = "router" /\ Still /\ Router!Init /\ From5

ServerNext ==
  \/ component = "connection" /\ Next /\ UNCHANGED <<component, others>>
  \/ component = "app" /\ App!Next /\ UNCHANGED <<component, vars>>
  \/ component = "router" /\ Router!Next /\ UNCHANGED <<component, vars, unused>>

ServerSpec == ServerInit /\ [][ServerNext]_<<component, vars, others>>
-----------------------------------------------------------------------------
\* A site serves only a tree that is started, whose cleanup contexts are exited
\* in the reverse order, all or none of an application's, and no socket is left.
TreeUnwinds ==
  component = "app" =>
    /\ App!TypeOK /\ App!ServingIsStarted /\ App!SocketsClosed
    /\ App!LastInFirstOut /\ App!CleanRunUnwinds /\ App!ErrorsComeLast

\* The router finds the most explicit route, domains first, a normalized path
\* has a route, and each middleware sees its own application.
FindsInOrder ==
  component = "router" =>
    /\ Router!TypeOK /\ Router!FindsInOrder
    /\ Router!RedirectsOnce /\ Router!MiddlewareSeesItsApp
=============================================================================
