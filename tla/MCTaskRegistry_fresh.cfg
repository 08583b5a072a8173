SPECIFICATION Spec
CONSTANTS
    SourceIds = {"s1"}
    PipelineIds = {"p1", "p2"}
    TaskIds = {"t1", "t2"}
    ModelIds = {"m1", "m2"}
    SourceConfigs = {"cam"}
    PipelineConfigs <- TwoEngines
    ModelConfigs = {"yolo"}
    Base <- NoBase
    MaxCopies = 2
    MaxFailures = 1
INVARIANTS
    RefIntegrity
    DeltaIsExact
CHECK_DEADLOCK FALSE
