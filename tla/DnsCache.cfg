\* Two hosts and a cache of one entry, clear_dns_cache at any time.
CONSTANTS
  Tasks = {t1, t2}
  Hosts = {h1, h2}
  Lookups = {l1, l2}
  NoLookup = NoLookup
  NoHost = NoHost
  MaxSize = 1
  Clearing = TRUE
SPECIFICATION FairSpec
INVARIANTS
  TypeOK
  ThrottleExact
  Isolation
  CacheExact
  WaiterIsAnswered
PROPERTY Returns
CHECK_DEADLOCK FALSE
