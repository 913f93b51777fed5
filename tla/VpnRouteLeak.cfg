SPECIFICATION FairSpec
CONSTANTS
  Peer = {peerA}
  peerA = peerA
  Route = {route1}
  route1 = route1
  OwnRoutes = {}
  Callers = {c1}
  c1 = c1
  MaxFailures = 1
  MaxOverlaps = 0
PROPERTY ExpiredRoutesLeaveKernel
