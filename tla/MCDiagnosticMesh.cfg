SPECIFICATION FairSpec
CONSTANTS
  None = None
  a = a
  b = b
  Ids = {a, b}
  Seconds = {1}
  MaxRecords = 1
  MaxSeen = 2
  Retention = 1
  TicksPerSecond = 1
  n1 = n1
  n2 = n2
  n3 = n3
  Node <- MCNode
  Edges <- MCEdges
  MeshTask = mesh
  unix = unix
  LocalTask = {unix}
  MaxRestarts = 1
INVARIANTS TypeOK QuietMeshAgrees
PROPERTIES ImplementsFlood FloodDies
CHECK_DEADLOCK FALSE
