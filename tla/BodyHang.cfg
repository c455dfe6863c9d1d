\* The Python parser and a chunked body.
CONSTANTS
  Modes <- PythonChunked
  Bodies <- SmallBodies
  Limit = 2
  Ratio = 3
  ReadSizes = {1, 3}
  Ops = {"readany", "read", "readall", "readexactly", "readchunk"}
SPECIFICATION Spec
INVARIANT
  NothingWithheld
CHECK_DEADLOCK FALSE
