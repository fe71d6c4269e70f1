CONSTANTS
    v = v
    w = w
    r = r
    Viewers = {v, w}
    Rows = {r}
    Capacity = 1
    Buffer = 1
    Stalled = {w}
    MayStop = FALSE
    MayLeave = FALSE
    MaxWrites = 1
    MaxFlushes = 2
    MaxEvents = 0
    MaxCalls = 0
SPECIFICATION StreamsSpec
PROPERTIES NeverBackwards OneStallsAlone
CHECK_DEADLOCK FALSE
