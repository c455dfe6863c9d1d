---------------------------- MODULE AppLifecycle ----------------------------
(***************************************************************************)
(* The life of a web application: building it out of subapplications,      *)
(* starting it, serving, and taking it down (web_app.py, web_runner.py),   *)
(* under web.run_app() (web.py), the gunicorn worker (worker.py) or a      *)
(* program that drives an AppRunner itself.                                *)
(*                                                                         *)
(* Everything user code does - contexts, signal handlers, binding a socket *)
(* - is one step that returns or raises, and a place where a cancellation  *)
(* arrives.  Contexts are numbered per application.  A signal of a process *)
(* is a Signal, a list of receivers of the application an on_... list.     *)
(***************************************************************************)
EXTENDS Integers, Sequences, FiniteSets, SequencesExt

CONSTANTS
  Root, Subs,       \* the application that runs and those it may mount
  Sites,            \* the sites that are started, in this order (a sequence)
  Modes,            \* subset of {"run_app", "worker", "runner"}
  MaxContexts,      \* bound: contexts of one application
  MaxCallbacks,     \* bound: handlers and subapplications of one application
  MaxFailures,      \* bound: steps of user code that raise
  MaxSignals        \* bound: SIGINT or SIGTERM

Apps == {Root} \cup Subs

VARIABLES
  apps,      \* what each application is made of
  mode,      \* who runs it
  phase,     \* where the task that runs it is
  todo,      \* steps left of the loop over receivers or sites it is in
  exits,     \* CleanupContext._exits: how many contexts were entered
  gone,      \* the contexts that were exited, in the order of their exits
  errors,    \* exceptions collected by the _on_cleanup() that runs
  sites,     \* the state of each site
  outer,     \* run_app() itself: the loop it runs the task in
  cancelled, \* a cancellation of the task was requested
  alive, booted,  \* GunicornWebWorker.alive and .booted
  failures, signals
vars == <<apps, mode, phase, todo, exits, gone, errors, sites, outer, cancelled, alive, booted, failures, signals>>
built == <<apps, mode>>
world == <<outer, alive, booted, signals>>

-----------------------------------------------------------------------------
(* Building.  Every signal starts with the application's own contexts      *)
(* (on_startup, on_cleanup); handlers and subapplications follow in the    *)
(* order they were added, a subapplication in all three lists.             *)

NewApp == [contexts |-> 0, callbacks |-> <<>>, mounted |-> FALSE, preFrozen |-> FALSE, frozen |-> FALSE]

AddContext(a) ==
  /\ phase = "building" /\ ~apps[a].preFrozen /\ apps[a].contexts < MaxContexts
  /\ apps' = [apps EXCEPT ![a].contexts = @ + 1]
  /\ UNCHANGED <<mode, phase, todo, exits, gone, errors, sites, cancelled, failures, world>>

AddHandler(a) ==
  /\ phase = "building" /\ ~apps[a].preFrozen /\ Len(apps[a].callbacks) < MaxCallbacks
  /\ apps' = [apps EXCEPT ![a].callbacks = Append(@, "user")]
  /\ UNCHANGED <<mode, phase, todo, exits, gone, errors, sites, cancelled, failures, world>>

MountedIn(a) == {apps[a].callbacks[i] : i \in 1..Len(apps[a].callbacks)} \cap Subs

(* _add_subapp(): the parent's lists must still be open; the mounted       *)
(* application is pre-frozen.  No application is mounted twice here.       *)
AddSubapp(a, b) ==
  /\ phase = "building" /\ ~apps[a].preFrozen /\ ~apps[b].mounted /\ a # b
  /\ b \notin MountedIn(a) /\ a \notin MountedIn(b) /\ Len(apps[a].callbacks) < MaxCallbacks
  /\ apps' = [apps EXCEPT ![a].callbacks = Append(@, b), ![b].mounted = TRUE, ![b].preFrozen = TRUE]
  /\ UNCHANGED <<mode, phase, todo, exits, gone, errors, sites, cancelled, failures, world>>

(* The steps of on_startup, on_shutdown and on_cleanup of the whole tree.  *)
(* Mounting goes from the inside out, so the tree is at most Depth deep.   *)
Depth == Cardinality(Subs)
Step(do, a, i) == [do |-> do, app |-> a, i |-> i]
Enters(a) == [i \in 1..apps[a].contexts |-> Step("enter", a, i)]
Leaves_InOrder(a) == Append([i \in 1..exits[a] |-> Step("exit", a, i)], Step("raise", a, 0))   \* mutant: not reversed
Leaves(a) == Append([i \in 1..exits[a] |-> Step("exit", a, exits[a] + 1 - i)], Step("raise", a, 0))
Walk(own(_)) ==
  LET walk[d \in 0..Depth] ==
        [a \in Apps |->
           own(a) \o FlattenSeq([i \in 1..Len(apps[a].callbacks) |->
             IF apps[a].callbacks[i] = "user" THEN <<Step("call", a, i)>>
             ELSE IF d = 0 THEN <<>> ELSE walk[d - 1][apps[a].callbacks[i]]])]
  IN walk[Depth][Root]
StartupSteps_RootOnly == Enters(Root)   \* mutant: on_startup of a subapplication is not registered
StartupSteps == Walk(Enters)
ShutdownSteps == Walk(LAMBDA a : <<>>)
CleanupSteps == Walk(Leaves)

-----------------------------------------------------------------------------
Init ==
  /\ apps = [a \in Apps |-> NewApp]
  /\ mode \in Modes /\ phase = "building" /\ todo = <<>>
  /\ exits = [a \in Apps |-> 0] /\ gone = [a \in Apps |-> <<>>] /\ errors = 0
  /\ sites = [i \in 1..Len(Sites) |-> "none"] /\ outer = "running" /\ cancelled = FALSE
  /\ alive = TRUE /\ booted = FALSE /\ failures = 0 /\ signals = 0

(* AppRunner.setup(): the signals are installed, startup() begins.         *)
Run ==
  /\ phase = "building" /\ phase' = "setup" /\ todo' = StartupSteps
  /\ UNCHANGED <<built, exits, gone, errors, sites, cancelled, failures, world>>

Fails == failures < MaxFailures /\ failures' = failures + 1
Frozen == [a \in Apps |-> [apps[a] EXCEPT !.preFrozen = TRUE, !.frozen = TRUE]]
SetUp == phase \notin {"building", "setup"} /\ apps[Root].frozen   \* runner._server is set

(* An exception leaves the part of the program that runs.  _run_app() and  *)
(* the worker have no handler around setup(), the worker none around the   *)
(* sites either; what leaves cleanup() ends the task whoever runs it.      *)
Cleans(p) == \/ mode = "runner" /\ p \in {"setup", "sites"}
             \/ mode = "run_app" /\ p = "sites"
Raised_InPlace == phase' = "ended" /\ UNCHANGED todo   \* mutant: the loop that was left is not over
Raised ==
  /\ phase' = IF Cleans(phase) THEN "cleanup" ELSE "ended"
  /\ todo' = <<>>

Stays == UNCHANGED <<phase, sites>> /\ todo' = Tail(todo)
Doing(p, do) == phase = p /\ todo # <<>> /\ Head(todo).do = do

(* One await of user code ends: it returns, it raises, or the task was     *)
(* cancelled.                                                              *)
Enter ==
  /\ Doing("setup", "enter")
  /\ \/ /\ ~cancelled /\ Stays
        /\ exits' = [exits EXCEPT ![Head(todo).app] = @ + 1] /\ UNCHANGED <<failures, cancelled>>
     \/ ~cancelled /\ Fails /\ Raised /\ UNCHANGED <<exits, sites, cancelled>>
     \/ cancelled /\ cancelled' = FALSE /\ Raised /\ UNCHANGED <<exits, sites, failures>>
  /\ UNCHANGED <<built, gone, errors, world>>

Call ==
  /\ phase \in {"setup", "shutdown", "finish"} /\ Doing(phase, "call")
  /\ \/ ~cancelled /\ Stays /\ UNCHANGED <<failures, cancelled>>
     \/ ~cancelled /\ Fails /\ Raised /\ UNCHANGED <<sites, cancelled>>
     \/ cancelled /\ cancelled' = FALSE /\ Raised /\ UNCHANGED <<sites, failures>>
  /\ UNCHANGED <<built, exits, gone, errors, world>>

(* _make_server() once startup() is through: freeze(), then the Server.    *)
Started ==
  /\ phase = "setup" /\ todo = <<>>
  /\ apps' = Frozen /\ phase' = "sites" /\ todo' = [i \in 1..Len(Sites) |-> Step("bind", Root, i)]
  /\ UNCHANGED <<mode, exits, gone, errors, sites, cancelled, failures, world>>

(* BaseSite.start(): registered first, bound when create_server() (or its  *)
(* like for a unix socket, a pipe, a socket that exists) returns.          *)
Register(i) ==
  /\ sites[i] = "none" /\ sites' = [sites EXCEPT ![i] = "registered"]
  /\ UNCHANGED <<phase, todo, failures, cancelled>>
Listen(i) ==
  /\ sites[i] = "registered"
  /\ \/ /\ ~cancelled /\ sites' = [sites EXCEPT ![i] = "bound"]
        /\ todo' = Tail(todo) /\ UNCHANGED <<phase, failures, cancelled>>
     \/ ~cancelled /\ Fails /\ Raised /\ UNCHANGED <<sites, cancelled>>
     \/ cancelled /\ cancelled' = FALSE /\ Raised /\ UNCHANGED <<sites, failures>>
Bind ==
  /\ Doing("sites", "bind") /\ (Register(Head(todo).i) \/ Listen(Head(todo).i))
  /\ UNCHANGED <<built, exits, gone, errors, world>>
Bound ==
  /\ phase = "sites" /\ todo = <<>> /\ phase' = "serving"
  /\ booted' = (mode = "worker")
  /\ UNCHANGED <<built, todo, exits, gone, errors, sites, outer, cancelled, alive, failures, signals>>

(* What ends the serving: a cancellation, the worker's own loop, or the    *)
(* program that uses the runner.                                           *)
StopServing ==
  /\ phase = "serving" /\ phase' = "cleanup"
  /\ \/ mode = "run_app" /\ cancelled /\ cancelled' = FALSE
     \/ mode = "worker" /\ ~alive /\ UNCHANGED cancelled
     \/ mode = "runner" /\ UNCHANGED cancelled
  /\ UNCHANGED <<built, todo, exits, gone, errors, sites, failures, world>>

(* BaseRunner.cleanup(): all sites stop in one go; then, if setup() was    *)
(* through, a sleep(0) before pre_shutdown() and on_shutdown.              *)
Left_Registered(s) == [i \in 1..Len(Sites) |-> IF s[i] = "bound" THEN "bound" ELSE "none"]   \* mutant: not closed
Left(s) == [i \in 1..Len(Sites) |-> IF s[i] = "bound" THEN "closed" ELSE IF s[i] = "registered" THEN "none" ELSE s[i]]

(* Application.cleanup(): the signal, if it is frozen; else only the       *)
(* application's own contexts.                                             *)
FinishSteps_Own == Leaves(Root)   \* mutant: the signal is never sent
FinishSteps == IF apps[Root].frozen THEN CleanupSteps ELSE Leaves(Root)
StopSites ==
  /\ phase = "cleanup" /\ sites' = Left(sites)
  /\ IF SetUp THEN phase' = "yielded" /\ UNCHANGED todo
              ELSE phase' = "finish" /\ todo' = FinishSteps
  /\ UNCHANGED <<built, exits, gone, errors, cancelled, failures, world>>
PreShutdown ==
  /\ phase = "yielded"
  /\ \/ ~cancelled /\ phase' = "shutdown" /\ todo' = ShutdownSteps /\ UNCHANGED cancelled
     \/ cancelled /\ cancelled' = FALSE /\ Raised
  /\ UNCHANGED <<built, exits, gone, errors, sites, failures, world>>

(* Server.shutdown(timeout): the open connections, one way or the other.   *)
ServerShutdown ==
  /\ phase = "shutdown" /\ todo = <<>>
  /\ \/ ~cancelled /\ phase' = "finish" /\ todo' = FinishSteps /\ UNCHANGED cancelled
     \/ cancelled /\ cancelled' = FALSE /\ Raised
  /\ UNCHANGED <<built, exits, gone, errors, sites, failures, world>>

(* CleanupContext._on_cleanup(): each exit in turn, errors at the end.  A  *)
(* cancellation that arrives in an exit is an error like any other.        *)
ExitFailed_Raises == Raised   \* mutant: the first error ends the loop
ExitFailed == Stays
Exit ==
  /\ Doing("finish", "exit")
  /\ gone' = [gone EXCEPT ![Head(todo).app] = Append(@, Head(todo).i)]
  /\ \/ ~cancelled /\ Stays /\ UNCHANGED <<errors, failures, cancelled>>
     \/ ~cancelled /\ Fails /\ ExitFailed /\ errors' = errors + 1 /\ UNCHANGED <<sites, cancelled>>
     \/ cancelled /\ cancelled' = FALSE /\ ExitFailed /\ errors' = errors + 1 /\ UNCHANGED <<sites, failures>>
  /\ UNCHANGED <<built, exits, world>>
RaiseErrors ==
  /\ Doing("finish", "raise")
  /\ IF errors > 0 THEN Raised /\ UNCHANGED sites ELSE Stays
  /\ UNCHANGED <<built, exits, gone, errors, cancelled, failures, world>>
CleanedUp ==
  /\ phase = "finish" /\ todo = <<>> /\ phase' = "ended"
  /\ UNCHANGED <<built, todo, exits, gone, errors, sites, cancelled, failures, world>>

-----------------------------------------------------------------------------
(* run_app() around the task.  The handler of SIGINT and SIGTERM raises    *)
(* GracefulExit out of run_until_complete(): the first time the task is    *)
(* cancelled and run to its end; a second one falls through to             *)
(* _cancel_tasks(), which cancels it again and waits for it.               *)
Cancels_Never == UNCHANGED cancelled   \* mutant: the task is not cancelled
Cancels == cancelled' = TRUE
Signal ==
  /\ mode = "run_app" /\ phase \notin {"building", "ended"} /\ outer \in {"running", "stopping"}
  /\ signals < MaxSignals /\ signals' = signals + 1
  /\ outer' = IF outer = "running" THEN "stopping" ELSE "cancelling"
  /\ Cancels
  /\ UNCHANGED <<built, phase, todo, exits, gone, errors, sites, alive, booted, failures>>

(* A worker is told to stop, has served enough, or lost its parent.        *)
Retire ==
  /\ mode = "worker" /\ alive /\ phase # "building" /\ alive' = FALSE
  /\ UNCHANGED <<built, phase, todo, exits, gone, errors, sites, outer, cancelled, booted, failures, signals>>

Close ==
  /\ phase = "ended" /\ outer # "closed" /\ outer' = "closed"
  /\ UNCHANGED <<built, phase, todo, exits, gone, errors, sites, cancelled, alive, booted, failures, signals>>

Task == \/ Enter \/ Call \/ Started \/ Bind \/ Bound \/ StopServing \/ StopSites \/ PreShutdown
        \/ ServerShutdown \/ Exit \/ RaiseErrors \/ CleanedUp \/ Close
Next == \/ \E a \in Apps : AddContext(a) \/ AddHandler(a) \/ \E b \in Subs : AddSubapp(a, b)
        \/ Run \/ Task \/ Signal \/ Retire

(* User code returns and the event loop runs what is ready.                *)
Spec == Init /\ [][Next]_vars /\ WF_vars(Task)

-----------------------------------------------------------------------------
Entered(a) == 1..exits[a]
Gone(a) == {gone[a][i] : i \in 1..Len(gone[a])}
Reachable == {Root} \cup MountedIn(Root) \cup UNION {MountedIn(a) : a \in MountedIn(Root)}

(* The variables stay in range, and steps are left only in the phases that *)
(* loop (web_runner.py, web_app.py).                                       *)
TypeOK ==
  /\ phase \in {"building", "setup", "sites", "serving", "cleanup", "yielded", "shutdown", "finish", "ended"}
  /\ todo # <<>> => phase \in {"setup", "sites", "shutdown", "finish"}
  /\ outer \in {"running", "stopping", "cancelling", "closed"}
  /\ \A a \in Apps : exits[a] \in 0..apps[a].contexts /\ Len(gone[a]) <= exits[a]
  /\ \A i \in 1..Len(Sites) : sites[i] \in {"none", "registered", "bound", "closed"}
  /\ failures <= MaxFailures /\ signals <= MaxSignals

(* Contexts are exited at most once, only those that were entered, and in  *)
(* the reverse of the order in which they were, whatever raised in between *)
(* (web_app.py:421-447).                                                   *)
LastInFirstOut == \A a \in Apps : \A i \in 1..Len(gone[a]) : gone[a][i] = exits[a] + 1 - i

(* While a site accepts connections the whole tree is started: every       *)
(* context of every mounted application is entered and none is exited, and *)
(* nothing can be added any more (web_runner.py:306-332, 422-431).         *)
ServingIsStarted ==
  (\E i \in 1..Len(Sites) : sites[i] = "bound") /\ phase # "ended"
    => \A a \in Reachable : apps[a].frozen /\ exits[a] = apps[a].contexts /\ gone[a] = <<>>

(* The task of run_app() or of a program with a runner does not end before *)
(* every socket that it bound is closed again (web.py:385-399, web_runner.py:306). *)
SocketsClosed == phase = "ended" /\ mode # "worker" => \A i \in 1..Len(Sites) : sites[i] # "bound"

(* An error in a context's exit does not keep the other contexts of its    *)
(* application from being exited: once the run is over, they all are or    *)
(* none is (web_app.py:436-447).                                           *)
ErrorsComeLast == phase = "ended" => \A a \in Apps : gone[a] # <<>> => Gone(a) = Entered(a)

(* A run that started, in which nothing raised and that was stopped once,  *)
(* exits every context that it entered.                                    *)
CleanRunUnwinds ==
  phase = "ended" /\ failures = 0 /\ signals <= 1 /\ (mode = "run_app" => apps[Root].frozen)
    => \A a \in Reachable : Gone(a) = Entered(a)

(* "cleanup code is called if and only if startup code was successfully    *)
(* finished" (docs/web_advanced.rst:917), also when something raised.      *)
GuaranteedCleanup == phase = "ended" /\ signals = 0 => \A a \in Reachable : Gone(a) = Entered(a)

(* Once it is told to stop, run_app() ends, and so does a worker.          *)
StopEnds == (signals > 0 \/ ~alive) ~> outer = "closed"
=============================================================================
