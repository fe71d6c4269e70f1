CONSTANTS
    None = None
    CorruptLimit = 3
    Exits = {0}
    RowsMayFall = FALSE
    MaxRow = 2
    MaxInputs = 7
    Apps <- TwoApps
    Marking <- FirstApp
    Nothing = Nothing
    ScreenRows = 1
    MaxHistory = 1
    MaxRuns = 2
    MaxToggles = 2
    MaxAttaches = 2
    MaxClears = 1
SPECIFICATION MCSpec
INVARIANTS OrderKept PanesAreTrue
CHECK_DEADLOCK FALSE
