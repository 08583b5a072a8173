SPECIFICATION Spec
CONSTANTS
    Streams = {cam}
    cam = cam
    Device <- MCDevice
    StreamDevice <- MCStreamDevice
    N = 1
    BatchSize = 1
    KMaxQueueSize = 1
    Faults = {"ENGINE_FAULT"}
    MaxTier = 1
    RestoreThreshold = 1
    MaxSeq = 0
    MaxConn = 1
    MaxRuns = 1
    Memory = "cpu"
INVARIANTS
    ResultMatchesFrame
CHECK_DEADLOCK FALSE
