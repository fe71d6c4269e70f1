CONSTANTS
    Nothing = Nothing
    CorruptLimit = 2
    Exits = {0, 1}
    Shells = {"zsh", "bash", "fish", "hooked_bash"}
    MaxLines = 1
    MaxRedraws = 1
    MaxCrashes = 1
    Questions <- TwoQuestions
    NoQuestion = NoQuestion
    MaxWords <- TwoThenOne
    MaxToolUse <- OneThenNone
    MaxWire = 1
    MaxExplains = 1
SPECIFICATION MCSpec
INVARIANTS
    BlocksAreTrue
    AgentAlone
    PanelIsTrue
    HistoryIsWhole
PROPERTIES
    EndsAreHeard
CHECK_DEADLOCK FALSE
