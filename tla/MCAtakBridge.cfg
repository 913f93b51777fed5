SPECIFICATION FairSpec
CONSTANTS
  n1 = n1
  n2 = n2
  x1 = x1
  x2 = x2
  bad = bad
  None = None
  Node = {n1, n2}
  SameLan = {}
  Packet = {x1, x2, bad}
  Source <- MCSource
  Valid = {x1, x2}
  AllowUnvalidated = FALSE
  MaxEvents = 2
  MaxCloses = 2
INVARIANTS TypeOK PacketsDoNotEcho
 
CHECK_DEADLOCK FALSE
