SPECIFICATION FairSpec
CONSTANTS
    None = None
    EntrySides <- BuyOnly
    Exits = TRUE
    MaxEntries = 1
    MaxOrders = 7
    MaxLosses = 0
    MaxBreaks = 1
    Rejectable = {"entry", "exit", "naked"}
    Silent = TRUE
    Terse = FALSE
    LatePositions = FALSE
    Hasty = FALSE
PROPERTIES
    ExitsFollowCancels
    CallEnds
CHECK_DEADLOCK FALSE
