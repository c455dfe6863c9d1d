SPECIFICATION Spec
CONSTANTS
  Root = root
  Subs = {sub}
  Sites <- TwoSites
  Modes = {"run_app", "runner"}
  MaxContexts = 2
  MaxCallbacks = 1
  MaxFailures = 1
  MaxSignals = 0
INVARIANTS
  GuaranteedCleanup
CHECK_DEADLOCK FALSE
