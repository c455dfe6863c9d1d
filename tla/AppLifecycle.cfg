SPECIFICATION Spec
CONSTANTS
  Root = root
  Subs = {sub, leaf}
  Sites <- TwoSites
  Modes = {"run_app", "worker", "runner"}
  MaxContexts = 2
  MaxCallbacks = 1
  MaxFailures = 1
  MaxSignals = 2
INVARIANTS
  TypeOK
  LastInFirstOut
  ServingIsStarted
  SocketsClosed
  CleanRunUnwinds
  ErrorsComeLast
PROPERTY StopEnds
CHECK_DEADLOCK FALSE
