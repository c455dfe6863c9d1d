CONSTANTS
  Hosts <- SomeHosts
  ReqPaths <- SomePaths
  Headers <- SomeHeaders
  IPs <- Addresses
  Unsafe = FALSE
  MinScheduled = 1
  MaxTime = 3
  MaxCalls = 2
SPECIFICATION Spec
INVARIANTS
  HostOnlyStays
CHECK_DEADLOCK FALSE
