SPECIFICATION ControlSpec
CONSTANTS
    Nodes <- ChainNodes
    Sources = {"src"}
    Keepers = {"infer"}
    StageThreads = {w}
    Edges <- ChainEdges
    Incoming <- ChainIncoming
    Outgoing <- ChainOutgoing
    Capacity = 1
    DropPolicy = "block"
    Controllers = {client}
    MaxRuns = 2
    MaxEvents = 2
PROPERTIES
    OperationsReturn
CHECK_DEADLOCK FALSE
