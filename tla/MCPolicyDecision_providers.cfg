CONSTANTS
    Tools = {"Bash"}
    Repos = {}
    Commands = {"line", "rule"}
    Branches = {"main"}
    Providers = {p1, p2}
    NoCommand = NoCommand
    NotPush = NotPush
    Unread = Unread
    GlobalFiles <- UserFiles
    RepoFiles <- HostileFiles
    Commanded <- Commandlines
    MaxEdits = 1
SPECIFICATION PolicySpec
INVARIANT ProvidersStayWithin
