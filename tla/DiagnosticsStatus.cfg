SPECIFICATION Spec
CONSTANTS
  None = None
  Ids = {a, b}
  a = a
  b = b
  Seconds = {1}
  MaxRecords = 1
  MaxSeen = 2
  Retention = 2
  TicksPerSecond = 2
  Tasks = {t1}
  t1 = t1
  LastCall = 2
  MaxTime = 3
  MaxCalls = 3
  MaxSetBacks = 0
INVARIANT DisabledStatusHasNoRecords
CHECK_DEADLOCK FALSE
