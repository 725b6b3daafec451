SPECIFICATION Spec
CONSTANTS
    None = None
    Symbols = {eurusd}
    eurusd = eurusd
    Week = 4
    Guard = 1
    BarLen = 2
    MaxHold = 2
    Retry = 1
    MaxPerSymbol = 1
    MaxOpen = 1
    RiskSized = TRUE
    ExitOnReversal = TRUE
    Barriers = TRUE
    SupportsBracket = TRUE
    HoldsOverWeekend = FALSE
    UsesNews = TRUE
    Times <- MCTimes
    MaxFills = 3
    MaxSessions = 2
INVARIANTS
    NoInventedTrade
    LegIsLastFill
    NoFillSpentTwice
