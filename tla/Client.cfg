CONSTANTS
  Conns = {c1, c2}
  NoConn = NoConn
  MaxRedirects = 3
  Bodies = {"bytes", "gen"}
  Chunks = 1
  Origins = {"a", "b"}
  Netrc = {"b"}
  Given <- SomeGiven
  Tasks = {t1, t2}
  Hosts = {h1, h2}
  Lookups = {l1, l2}
  NoLookup = NoLookup
  NoHost = NoHost
  MaxSize = 1
  Clearing = TRUE
  Requests = {1, 2}
  URLs <- SomeURLs
  Nonces = {"n1", "n2"}
  NoNonce = "none"
  Domains <- SomeDomains
  NoOrigin = "none"
  Preemptive = TRUE
SPECIFICATION ClientSpec
INVARIANTS
  CleanReuse
  CredentialsStay
  GivesUp
  Isolation
  SentIsRight
CHECK_DEADLOCK FALSE
