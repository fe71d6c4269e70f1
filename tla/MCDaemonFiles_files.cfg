CONSTANTS
    Keys <- OneKey
    Values <- ThreeValues
    Refused <- OneRefused
    Default <- UsualOne
    Callers = {c1}
    MaxWrites = 2
    MaxCalls = 2
    Starts <- TwoStarts
    Supports <- Versions
    Sessions = {s1}
    Ports = {1, 2, 3}
    OtherPorts = {1}
    MaxEvents = 2
    Page = 1
SPECIFICATION MCSpec
INVARIANTS ConfigIsWhole StartIsTrue
PROPERTIES EditIsShown StartsAgain
CHECK_DEADLOCK FALSE
