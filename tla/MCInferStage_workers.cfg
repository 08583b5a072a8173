SPECIFICATION Spec
CONSTANTS
    Streams = {cam}
    cam = cam
    Device <- MCDevice
    StreamDevice <- MCStreamDevice
    N = 2
    BatchSize = 2
    KMaxQueueSize = 1
    Faults = {"ENGINE_FAULT"}
    MaxTier = 1
    RestoreThreshold = 1
    MaxSeq = 2
    MaxConn = 0
    MaxRuns = 1
    Memory = "gpu"
INVARIANTS
    ResultMatchesFrame
    EmittedOnce
    NoPrematureResult
CHECK_DEADLOCK FALSE
