SPECIFICATION FairSpec
CONSTANTS
  None = None
  Ids = {a, b}
  a = a
  b = b
  Seconds = {1}
  MaxRecords = 1
  MaxSeen = 1
  Retention = 1
  TicksPerSecond = 1
  Tasks = {t1, t2}
  t1 = t1
  t2 = t2
  LastCall = 2
  MaxTime = 3
  MaxCalls = 3
  MaxSetBacks = 1
INVARIANTS TypeOK  WindowFollowsLastCommand AppliedOncePerRetention
PROPERTY RecordsEventuallyCleared
CHECK_DEADLOCK FALSE
