CONSTANTS
    v = v
    r = r
    Viewers = {v}
    Rows = {r}
    Capacity = 1
    Buffer = 1
    Stalled = {}
    MayStop = TRUE
    MayLeave = TRUE
    MaxWrites = 1
    MaxFlushes = 1
    MaxEvents = 1
    MaxCalls = 1
SPECIFICATION FairSpec
INVARIANT ViewersFollow
PROPERTIES CallAnswered ClosedIsReleased
CHECK_DEADLOCK FALSE
