CONSTANTS
    Chunk = {1, 2, 3}
    Index = {0, 1}
    IndexOf <- Indexes
    TimeOf <- Times
    PO <- Bins
    MaxPO = 1
    Immutable = FALSE
    Slot = {1, 2, 3, 4}
    cacheCapacity = 2
    gcTarget = 1
    reserveCapacity = 2
    reserveEvictionTarget = 1
    PutModes = {"request", "requestPin", "requestCache", "upload", "uploadPin", "sync"}
    MaxCalls = 3
    MaxFaults = 1
SPECIFICATION FairSpec
INVARIANTS TypeOK DataIsThere CacheIsUnpinned GCSizeCoversCache GetReturnsData
PROPERTIES CollectKeepsPinned CacheShrinks
CHECK_DEADLOCK FALSE
