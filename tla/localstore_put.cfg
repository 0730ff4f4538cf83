CONSTANTS
    Chunk = {1, 2, 3}
    Index = {0, 1}
    IndexOf <- Indexes
    TimeOf <- Times
    PO <- Bins
    MaxPO = 1
    Immutable = FALSE
    Slot = {1, 2, 3, 4}
    cacheCapacity = 1
    gcTarget = 0
    reserveCapacity = 2
    reserveEvictionTarget = 1
    PutModes = {"request"}
    MaxCalls = 4
    MaxFaults = 0
SPECIFICATION Spec
PROPERTY PutStores
CHECK_DEADLOCK FALSE
