SPECIFICATION FairSpec
CONSTANTS
  Peer = {peerA, peerB}
  peerA = peerA
  peerB = peerB
  Route = {route1}
  route1 = route1
  OwnRoutes = {}
  Callers = {c1, c2}
  c1 = c1
  c2 = c2
  MaxFailures = 1
  MaxOverlaps = 1
INVARIANTS TypeOK RouterFollowsPeers KernelFollowsRouter
PROPERTY UndisturbedRoutesExpire
