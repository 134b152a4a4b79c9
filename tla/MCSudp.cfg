SPECIFICATION Spec
CONSTANTS
  Aead = "aes_128_gcm"
  Payload = {p1}
  Lengths = {0, 2, 3}
  Strays = {0, 1, 2, 5}
  BuffSize = 6
  IvSize = 1
  TagSize = 1
  Iv = {i1, i2}
  NoIv = NoIv
CHECK_DEADLOCK FALSE
INVARIANTS WholePackets ThrowsForAReason NonceOnce
