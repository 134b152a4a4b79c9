SPECIFICATION TrustingSpec
CONSTANTS
  Byte = {0, 1}
  Cap = 3
  Strides <- BothWays
  NoIter = NoIter
CHECK_DEADLOCK FALSE
PROPERTIES AppendKeepsUnread
