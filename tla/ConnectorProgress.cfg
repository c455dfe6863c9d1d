\* Progress of the queue and the timers: each task connects once, no traces,
\* nobody is cancelled.  No symmetry: liveness is checked.
CONSTANTS
  Tasks = {t1, t2, t3}
  Keys = {k1, k2}
  Protos = {p1, p2, p3}
  NoProto = NoProto
  Limit = 2
  LimitPerHost = 1
  ForceClose = FALSE
  Traced = FALSE
  Cancellable = {}
  SslKeys = {k1}
  Reconnect = FALSE
SPECIFICATION FairSpec
PROPERTIES
  WaiterServed
  ExpiredClosed
CHECK_DEADLOCK FALSE
