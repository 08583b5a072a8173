SPECIFICATION MCSpec
CONSTANTS
    Stages = {"cam", "clip"}
    SourceOf <- MCSourceOf
    Kind <- MCKind
    Loop <- MCLoop
    UseHwdec <- MCHardware
    UseDvpp <- MCHardware
    Devices = {0, 1}
    DegradedThreshold = 1
    MaxReconnectAttempts = 2
    SampleInterval = 2
    TimeBased <- MCLoop
    MaxQueueSize = 1
    MaxSeq = 2
    MaxStarts = 2
    MaxOpens = 5
    Slots = {"a", "b"}
    Cann6 = FALSE
    KMaxConsecutiveFailures = 2
    MaxConnections = 2
    Capacity = 2
    MaxResults = 3
    Subscribers = {"g", "h"}
INVARIANTS
    FrameKeepsBufferAlive
CHECK_DEADLOCK FALSE
