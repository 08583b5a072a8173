SPECIFICATION MCSpec
CONSTANTS
    Results = {"r1", "r2"}
    KeyOf <- MCKeyOf
    Primaries = {"w1", "w2"}
    MaxCrops = 3
    Widths = {2, 4, 6}
    TileWidth = 3
    Overlap = 34
    MaxTiles = 2
    FullInterval = 3
    RoiExpand = 130
    MinRoi = 2
    RoiMaxAge = 1
    FallbackGap = 2
    MergeIou = 50
    MergeIos = 80
    MaxFrames = 3
    Writers = {1}
    ArchiveCapacity = 1
    SaveInterval = 1
    HourLen = 2
    DayLen = 4
    MaxAge = 1
    MaxShots = 2
    MaxTime = 5
    SinkCapacity = 1
    MaxDelay = 4
    MaxShown = 4
    MaxSinkStarts = 2
    Clients = {"a", "b"}
    MaxRequests = 4
    Configs <- MCConfigs
    PoolSlots = {"s1", "s2"}
    Compiled = {1, 3}
    MaxBatch = 3
    MaxCalls = 2
    MaxLoads = 2
    Models = {"det", "cls"}
    Cameras = {"cam"}
    Managers = {"m1", "m2"}
    MaxPipelines = 3
    PoolLimit = 1
    BatchSize = 1
    Preferred = {2}
    BufferLen = 1
    MaxQueue = 1
    MaxInputs = 2
INVARIANTS
    MergeIsExact
    FreshSurvives
    OutputIsWholeOrGone
    NoFrameSleptOn
    NothingUsedAfterDestruction
    VerdictIsRight
    CallsIsolated
    TilesCover
    
    UsedIsAlive
    ServedThroughSwap
CHECK_DEADLOCK FALSE
