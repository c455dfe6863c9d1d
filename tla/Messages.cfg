CONSTANTS
  Modes <- WorkingModes
  Bodies <- SmallBodies
  Limit = 2
  Ratio = 3
  ReadSizes = {1, 3}
  Ops = {"readany", "read", "readall", "readexactly", "readchunk"}
SPECIFICATION MessagesSpec
INVARIANTS
  Backpressure
  NothingWithheld
  EndIsExact
  ClientAgrees
  RangeExact
  PartsIntact
  BodyArrives
  MessagesIntact
  EndsAgree
PROPERTY ChunkEnds
CHECK_DEADLOCK FALSE
