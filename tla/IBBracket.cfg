SPECIFICATION Spec
CONSTANTS
    None = None
    EntrySides <- BothSides
    Exits = TRUE
    MaxEntries = 2
    MaxOrders = 9
    MaxLosses = 0
    MaxBreaks = 0
    Rejectable = {"entry", "naked"}
    Silent = FALSE
    Terse = FALSE
    LatePositions = FALSE
    Hasty = FALSE
INVARIANTS
    NeverDoubled
    Protected
CHECK_DEADLOCK FALSE
