SPECIFICATION Spec
CONSTANTS
  Tasks = {t1, t2}
  t1 = t1
  t2 = t2
  MaxEvents = 2
  MaxCloses = 1
  MaxLost = 1
  MaxRevokes = 1
SYMMETRY Symmetry
INVARIANTS TypeOK GuardHasHolder
CHECK_DEADLOCK FALSE
