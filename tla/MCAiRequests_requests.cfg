CONSTANTS
    None = None
    Requests <- AskAndAgent
    Kind <- KindByName
    HasHistory = {}
    Profiles <- TwoProfiles
    Route <- CrossRoute
    Fallback <- Circle
    MaxAttempts = 2
    MaxTurns = 2
    HardStop = TRUE
    Budget = 1
    MaxCalls = 1
SPECIFICATION FairSpec
INVARIANT WithinBounds
PROPERTY Answered
CHECK_DEADLOCK FALSE
