\* A woken waiter is cancelled before it runs.
CONSTANTS
  Tasks = {t1, t2, t3}
  Keys = {k1}
  Protos = {p1, p2}
  NoProto = NoProto
  Limit = 1
  LimitPerHost = 0
  ForceClose = FALSE
  Traced = FALSE
  Cancellable = {t2}
  SslKeys = {}
  Reconnect = FALSE
SPECIFICATION FairSpec
PROPERTY WaiterServed
CHECK_DEADLOCK FALSE
