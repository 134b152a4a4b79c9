SPECIFICATION FairSpec
CONSTANTS
  Vip = {v1, v2, v3}
  Conn = {c1}
  Wheel = 2
  Expire = 3
  MaxTime = 4
  StartDelay = 3
  MaxEntries = 4
  Absent = Absent
  Nil = Nil
CHECK_DEADLOCK FALSE
INVARIANTS ListsOK DictOwnsEntries CursorSafe LeaksAreFew
PROPERTIES MgrSpec UpdateReturns
