\* The parser believes that the queue is full.
CONSTANTS
  Parsers <- Extension
  Scripts <- Pipelines
  MaxQueue = 2
  Limit = 1
  Cancellation = TRUE
SPECIFICATION Spec
INVARIANT
  NoRequestStuck
CHECK_DEADLOCK FALSE
