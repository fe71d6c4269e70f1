CONSTANTS
    r1 = r1
    r2 = r2
    Asks = {r1, r2}
    FromApp = {r1}
    FromCli = {}
    Withdrawn = {}
    MayEnd = TRUE
    MaxQueue = 1
SPECIFICATION FeedSpec
PROPERTIES ShownInTheEnd MuteIsLabelled
CHECK_DEADLOCK FALSE
