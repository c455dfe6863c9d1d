\* Safety of the pool: two hosts (one TLS), traces that suspend, cancellation.
CONSTANTS
  Tasks = {t1, t2, t3}
  Keys = {k1, k2}
  Protos = {p1, p2, p3}
  NoProto = NoProto
  Limit = 2
  LimitPerHost = 1
  ForceClose = FALSE
  Traced = TRUE
  Cancellable = {t1, t2, t3}
  SslKeys = {k1}
  Reconnect = TRUE
SPECIFICATION Spec
SYMMETRY Symmetry
INVARIANTS
  QueueOK
  ExclusiveOwnership
  AcquiredExact
PROPERTY LeaseSpec
CHECK_DEADLOCK FALSE
