CONSTANTS
  MaxId = 2
  Worker = {1, 2, 3}
  InitInvalid <- FirstOrNone
  Changes = {"wanted", "binOut", "peerOut"}
  MaxChanges = 2
  Clears = 1
  IterateFails = TRUE
  MaxFaults = 1
SPECIFICATION Spec
CHECK_DEADLOCK FALSE
INVARIANT IntervalIsComplete
