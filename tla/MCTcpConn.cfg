SPECIFICATION Spec
CONSTANTS
  Byte <- MCByte
  Cap = 5
  Lengths = {2, 5, 8}
  MaxBytes = 18
CHECK_DEADLOCK FALSE
INVARIANTS InOrder NothingMissing OverrunOnlyLapped
PROPERTIES SendTakes
