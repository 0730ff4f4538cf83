CONSTANTS
  Node = {1, 2, 3, 4, 5}
  Origin = 5
  Call = {1}
  Depth <- NearDepth
  Network <- Networks
  maxAttempts = 2
  maxPeers = 4
  nPeersToReplicate = 1
  retryCount = 2
  MaxFaults = 1
SPECIFICATION FairSpec
CHECK_DEADLOCK FALSE
INVARIANTS ReceiptMeansStored OnePushTooManyAtMost
PROPERTIES SyncedInNeighbourhood CallsEnd EventuallySynced
