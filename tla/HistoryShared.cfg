SPECIFICATION JobsSpec
CONSTANTS
    Runs = {1, 2}
    Histories <- OneHistory
    Wanted <- TwoRequests
    Strategies <- TwoStrategies
    Folds = 2
    Workers = 1
    NoName = None
    None = None
    Callers = {screen, exit}
    MaxCalls = 3
    MaxSessions = 2
    Pairs = {"eur", "gbp"}
    Tradable = {"eur"}
    Cap = 2
    MaxKeys = 5
    MaxForeign = 1
    Nothing = None
    Years = {1, 2}
    CurrentYear = 2
    Units <- TwoDays
    Open <- TwoDays
    Sources <- BothSources
    Concurrency = 1
    MaxRetries = 2
    MaxFaults = 1
    MaxCommands = 2
    NoFile = NoFile
    Shared = TRUE
    Explored = {"history"}
INVARIANTS
    NeverTorn
CHECK_DEADLOCK FALSE
