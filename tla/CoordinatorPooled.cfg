CONSTANTS
    Calls = {c1}
    Messages = {}
    Streams = {w1}
    SinkWorkers = 2
    MaxDeliveries = 1
    MaxFaults = 0
    Stoppable = {}
    MayExit = FALSE
    None = None
SPECIFICATION Spec
INVARIANT AckedAfterExecution
