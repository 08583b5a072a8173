SPECIFICATION Spec
CONSTANTS
    Producers = {p1, p2}
    Consumers = {c1}
    Capacities = {1, 2}
    MaxEvents = 4
INVARIANTS
    FifoNoLoss
PROPERTIES
    PushTerminates
    ImplementsChannel
