CONSTANTS
    Calls = {c1}
    Messages = {m1}
    Streams = {w1}
    SinkWorkers = 1
    MaxDeliveries = 2
    MaxFaults = 0
    Stoppable = {w1}
    MayExit = TRUE
    None = None
SPECIFICATION Spec
CHECK_DEADLOCK FALSE
INVARIANT StreamSound
PROPERTIES DropsOnlyOnFaults QueueSpec
