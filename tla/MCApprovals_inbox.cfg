CONSTANTS
    r1 = r1
    r2 = r2
    s1 = s1
    i1 = i1
    i2 = i2
    None = None
    Requests = {r1, r2}
    Sessions = {s1}
    Ids = {i1, i2}
    SessionOf <- SameSession
    IdOf <- OwnIds
    Kind <- HookAndCodex
SPECIFICATION FairSpec
INVARIANT DeliveredOnce
PROPERTIES
    AnswerSpec
    HookReplied
    DecisionWakes
CHECK_DEADLOCK FALSE
