CONSTANTS
    Codes = {"zero"}
    NoCode = NoCode
    Unset = Unset
    MaxStarts = 2
    MaxOutput = 3
    RingChunks = 2
    HolderMayDie = TRUE
SPECIFICATION FairSpec
INVARIANT SessionIsTrue
PROPERTIES
    EndIsFinal ExitSurfaces NeverDropped
CHECK_DEADLOCK FALSE
