CONSTANTS
    Threads <- TwoThreads
    Requests <- OneRequest
    Of <- ByFirst
    Decisions <- Answers
    MaxNews = 1
    MaxRetries = 2
    MaxRestarts = 1
SPECIFICATION FairSpec
INVARIANT ObservedOnce
PROPERTIES EveryThreadFollowed DecisionsArrive NothingWaitsForNothing
CHECK_DEADLOCK FALSE
