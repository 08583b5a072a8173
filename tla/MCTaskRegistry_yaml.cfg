SPECIFICATION Spec
CONSTANTS
    SourceIds = {"s1", "s2"}
    PipelineIds = {"p1", "p2"}
    TaskIds = {"t1"}
    ModelIds = {"m1", "m2"}
    SourceConfigs = {"cam"}
    PipelineConfigs <- OneEngine
    ModelConfigs = {"yolo"}
    Base <- YamlBase
    MaxCopies = 2
    MaxFailures = 1
INVARIANTS
    IdsSurviveRestart
CHECK_DEADLOCK FALSE
