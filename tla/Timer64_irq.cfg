SPECIFICATION Spec
CONSTANTS
  BASE = 4
  MAX_HI = 2
  Deltas = {1, 3}
INVARIANTS
  TypeOK
  ReadInWindow
  FiresAtAlarm
  DelayKept
CHECK_DEADLOCK FALSE
