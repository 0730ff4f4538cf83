CONSTANTS
  Node = {1, 2, 3, 4}
  Origin = 3
  Chunk = {1}
  Dist <- LineDist
  Radius = 4
  InitReachable <- AnyGraph
  InitStores <- WholeStores
  InitPublic <- AnyPublic
  parallel = 1
  maxPeers = 1
  MaxHops = 5
  MaxFaults = 1
SPECIFICATION FairSpec
CHECK_DEADLOCK FALSE
INVARIANTS ProofOfStorage NeighbourhoodProves
PROPERTIES ReuploadReturns CancelReturns
