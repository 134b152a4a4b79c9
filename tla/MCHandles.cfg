SPECIFICATION Spec
CONSTANTS
  Obj = {a, b}
  Res = {r1, r2, r3, r4}
  Iv = {i1, i2}
  Limit = 2
  Null = Null
  Dead = Dead
  Free = Free
SYMMETRY ResSymmetry
CHECK_DEADLOCK FALSE
INVARIANTS OneOwner NoncesFresh
