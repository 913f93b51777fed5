SPECIFICATION FairSpec
CONSTANTS
  Module = {rf215}
  None = None
  Pieces = 1
  MaxPackets = 3
  Capacity = 1
  MaxFaults = 0
CHECK_DEADLOCK FALSE
PROPERTY RadioIsHeard
