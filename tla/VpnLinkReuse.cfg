SPECIFICATION Spec
CONSTANTS
  Tasks = {t1, t2}
  t1 = t1
  t2 = t2
  MaxEvents = 1
  MaxCloses = 0
  MaxLost = 0
  MaxRevokes = 0
PROPERTY BeginSparesOpenLink
CHECK_DEADLOCK FALSE
