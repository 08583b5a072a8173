SPECIFICATION FairSpec
CONSTANTS
    Streams = {cam}
    cam = cam
    Device <- MCDevice
    StreamDevice <- MCStreamDevice
    N = 1
    BatchSize = 2
    KMaxQueueSize = 1
    Faults = {"ENGINE_FAULT"}
    MaxTier = 1
    RestoreThreshold = 1
    MaxSeq = 0
    MaxConn = 1
    MaxRuns = 2
    Memory = "cpu"
INVARIANTS
    StopLeavesNothing
PROPERTIES
    StopReturns
    PendingDrains
    InflightDrains
CHECK_DEADLOCK FALSE
