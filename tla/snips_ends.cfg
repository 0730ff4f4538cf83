CONSTANTS
  n1 = n1  n2 = n2  n3 = n3
  Node <- TwoNodes
  Chunk <- Chunks2
  Nonce = {1}
  Neighbor <- Clique
  Radius <- WholeRadius
  InitStores <- AnyStores
  ForeignHits = FALSE
  concurrentMaintain = 1
  concurrentPushes = 1
  MaxProofs = 2
  MaxTriggers = 2
  MaxFaults = 1
SPECIFICATION FairSpec
CHECK_DEADLOCK FALSE
PROPERTIES ExchangeEnds Converges
