SPECIFICATION FairSpec
CONSTANTS
  Vip = {v1, v2}
  Conn = {c1, c2}
  Wheel = 3
  Expire = 4
  MaxTime = 9
  StartDelay = 4
  Absent = Absent
CHECK_DEADLOCK FALSE
INVARIANTS TypeOK WheelIndexesDict NoStranded
PROPERTIES TableSpec OverdueForgotten
