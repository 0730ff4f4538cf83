CONSTANTS
  n1 = n1  n2 = n2  n3 = n3
  Node <- ThreeNodes
  Chunk <- Chunks3
  Nonce = {1}
  Neighbor <- Uneven
  Radius <- ShortRadius
  InitStores <- CreatorStores
  ForeignHits = TRUE
  concurrentMaintain = 1
  concurrentPushes = 1
  MaxProofs = 2
  MaxTriggers = 2
  MaxFaults = 1
SPECIFICATION Spec
CHECK_DEADLOCK FALSE
INVARIANTS TypeOK SoleProofIsAnswered CompleteWhenClean UploadsWereProved
PROPERTY ImplementsChunkSync
