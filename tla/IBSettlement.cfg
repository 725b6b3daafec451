SPECIFICATION FairSpec
CONSTANTS
    None = None
    EntrySides <- BuyOnly
    Exits = FALSE
    MaxEntries = 1
    MaxOrders = 4
    MaxLosses = 1
    MaxBreaks = 0
    Rejectable = {"entry"}
    Silent = FALSE
    Terse = TRUE
    LatePositions = TRUE
    Hasty = FALSE
INVARIANTS
    ReportedOnce
PROPERTIES
    OrderSettles
    LostBarrierActedOn
CHECK_DEADLOCK FALSE
