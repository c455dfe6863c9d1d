CONSTANTS
  Parsers <- BothParsers
  Scripts <- Pipelines
  MaxQueue = 2
  Limit = 1
  Cancellation = TRUE
  Root = root
  Subs = {sub, leaf}
SPECIFICATION ServerSpec
INVARIANTS
  OrderKept
  Fed
  TreeUnwinds
  FindsInOrder
PROPERTY ClosesNothingInHand
CHECK_DEADLOCK FALSE
