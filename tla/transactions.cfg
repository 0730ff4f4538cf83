CONSTANTS
  a = a  b = b
  Tx <- TwoTxs
  Clients = {a}
  cancellationDepth = 2
  MaxFaults = 1
SPECIFICATION FairSpec
INVARIANT NoncesInOrder
PROPERTIES CancelledIsLost PendingEnds
