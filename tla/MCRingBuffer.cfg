SPECIFICATION RingSpec
CONSTANTS
  Byte = {0, 1}
  Cap = 4
  Strides <- BothWays
  NoIter = NoIter
CHECK_DEADLOCK FALSE
INVARIANTS RingTypeOK AssertsFailOnlyWrapped IterAtItsPlace
PROPERTIES QueueSpec
