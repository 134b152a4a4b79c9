SPECIFICATION FairSpec
CONSTANTS
  Fd = {f1, f2}
  Address = {a1, a2}
  MaxBatch = 2
  MaxConns = 3
  MaxSends = 2
  MaxBytes = 1
  MaxBroken = 1
  Nil = Nil
CHECK_DEADLOCK FALSE
INVARIANTS TablesAgree WritersWatched StaleNeedsForeignDel
PROPERTIES ReadersServed WritersServed
