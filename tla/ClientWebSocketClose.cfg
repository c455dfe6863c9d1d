CONSTANTS
  Tasks = {t1, t2}
  NoTask = NoTask
  Limit = 1
  Uses <- SomeUses
SPECIFICATION FairSpec
INVARIANTS
  SocketSound
  HeartbeatArmed
PROPERTY CloseReturns
CHECK_DEADLOCK FALSE
