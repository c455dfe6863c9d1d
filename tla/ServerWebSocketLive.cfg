CONSTANTS
  Tasks = {t1, t2}
  NoTask = NoTask
  Limit = 1
  Heartbeat = TRUE
  Cancellable = {t2}
SPECIFICATION FairSpec
INVARIANTS
  SocketSound
PROPERTIES
  CloseReturns
  DeadPeerNoticed
CHECK_DEADLOCK FALSE
