SPECIFICATION FairSpec
CONSTANTS
    None = None
    Symbols = {eurusd}
    Week = 12
    Guard = 2
    BarLen = 2
    MaxHold = 2
    Retry = 1
    MaxPerSymbol = 1
    MaxOpen = 1
    RiskSized = TRUE
    ExitOnReversal = TRUE
    Barriers = TRUE
    SupportsBracket = TRUE
    HoldsOverWeekend = FALSE
    UsesNews = FALSE
    Histories <- Weeks
    Unpriced <- SomeUnpriced
    StrategyEnabled = TRUE
    MaxToggles = 1
    MaxSessions = 2
INVARIANTS
    TracksThePosition
    JournalsEveryClose
    OnTime
    NothingLeft
PROPERTIES
    OrdersSettle
    DisconnectReturns
    ImplementsAnyGateway
CHECK_DEADLOCK FALSE
