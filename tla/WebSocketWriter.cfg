CONSTANTS
  MaxSends = 3
  Writers = 3
  OutLimit = 1
  High = 1
  Low = 0
  Overrides = FALSE
  Cancels = 1
SPECIFICATION FairSpec
INVARIANTS
  Decodable
  CallOrder
  DrainIsWoken
PROPERTY SendEnds
CHECK_DEADLOCK FALSE
