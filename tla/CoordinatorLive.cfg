CONSTANTS
    Calls = {c1}
    Messages = {}
    Streams = {w1, w2}
    SinkWorkers = 1
    MaxDeliveries = 1
    MaxFaults = 1
    Stoppable = {w1}
    MayExit = TRUE
    None = None
SPECIFICATION FairSpec
PROPERTIES CallsReturn StopCompletes
