\* More hosts than the total limit allows to connect to, and more callers than
\* hosts: each limit binds without the other.
CONSTANTS
  Tasks = {t1, t2, t3, t4}
  Keys = {k1, k2, k3}
  Protos = {p1, p2, p3}
  NoProto = NoProto
  Limit = 2
  LimitPerHost = 1
  ForceClose = FALSE
  Traced = FALSE
  Cancellable = {}
  SslKeys = {}
  Reconnect = TRUE
SPECIFICATION Spec
SYMMETRY Symmetry
INVARIANTS
  PerHostLimit
  EveryTransportOwned
  NoLostWakeup
PROPERTY OpensUnderLimit
CHECK_DEADLOCK FALSE
