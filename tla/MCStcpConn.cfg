SPECIFICATION Spec
CONSTANTS
  Aead = "aes_128_gcm"
  Byte <- MCByte
  Cap = 4
  Lengths = {0, 1, 3, 5}
  MaxMessages = 3
  IvSize = 2
  TagSize = 1
  LenSize = 1
  MaxAgain = 1
  Garbage = Garbage
CHECK_DEADLOCK FALSE
INVARIANTS PrefixUntilError AllDelivered FaultsNeedLong
