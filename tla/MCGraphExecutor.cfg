SPECIFICATION Spec
CONSTANTS
    Nodes <- MCNodes
    Sources = {"src"}
    Keepers = {"infer"}
    StageThreads = {w1, w2}
    Edges <- MCEdges
    Incoming <- MCIncoming
    Outgoing <- MCOutgoing
    Capacity = 1
    DropPolicy = "block"
    Controllers = {main}
    MaxRuns = 2
    MaxEvents = 2
SYMMETRY OwnThreads
INVARIANTS
    ProcessOnlyWhileHeld
    OneWorkerPerNode
    StoppedIsClean
    EdgeOrder
    DeliveredOnce
