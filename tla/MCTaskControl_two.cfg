SPECIFICATION ControlSpec
CONSTANTS
    Nodes <- PairNodes
    Sources = {"src"}
    Keepers = {}
    StageThreads = {}
    Edges <- PairEdges
    Incoming <- PairIncoming
    Outgoing <- PairOutgoing
    Capacity = 1
    DropPolicy = "block"
    Controllers = {c1, c2}
    MaxRuns = 2
    MaxEvents = 1
SYMMETRY Clients
CONSTRAINT NoDataRace
INVARIANTS
    RemovedIsDead
CHECK_DEADLOCK FALSE
