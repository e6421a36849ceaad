CONSTANTS
    Calls = {c1}
    Messages = {m1}
    Streams = {w1, w2}
    SinkWorkers = 1
    MaxDeliveries = 1
    MaxFaults = 1
    Stoppable = {}
    MayExit = FALSE
    None = None
SPECIFICATION Spec
INVARIANTS TypeOK StreamSound
PROPERTIES DropsOnlyOnFaults QueueSpec
