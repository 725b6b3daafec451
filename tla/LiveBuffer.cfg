SPECIFICATION InputsSpec
CONSTANTS
    None = None
    NaN = NaN
    Explored = {"bars"}
    Accounts = {real}
    Undefined = Undefined
    Symbol = eurusd
    Symbols = {eurusd}
    Week = 5
    Guard = 0
    BarLen = 1
    MaxHold = 2
    MaxPerSymbol = 2
    MaxOpen = 2
    RiskSized = TRUE
    ExitOnReversal = TRUE
    Barriers = TRUE
    SupportsBracket = TRUE
    HoldsOverWeekend = FALSE
    UsesNews = TRUE
    Histories <- TwoWeeks
    Bars <- FewBars
    Capital = 45
    Leverage = 1
    CostPerSide = 1
    Distance = 4
    RiskPct = 20
    FixedSize = 1
    MaxSize = 2
    Pollers = {"poller"}
    Engines = {"eurusd", "usdjpy"}
    Levels = {9, 10}
    MaxLossPct = 10
    MaxDays = 2
    Unset = Unset
    Writers <- ThreeWriters
    Weeks = {1, 2}
    MaxBatches = 3
    NoNews = NoNews
    Procs = {"gw", "backtrain"}
    Files <- FewFiles
    Envs <- FewEnvs
    MaxSteps = 3
    MaxPasses = 20
    Publishers = {"p1", "p2"}
    Subs = {"s"}
    Closers = {"c1", "c2"}
    Buffer = 2
    MaxEvents = 4
    Nobody = Nobody
    Followed <- TwoSymbols
    Samples <- FewSamples
    ValidPercent = 40
    MinValid = 1
    MaxRuns = 2
    LastBar = 3
    BufferBars = 2
    Nothing = Nothing
    Candles <- FewCandles
    Slopes <- FewSlopes
    Atrs = {2}
    Length = 4
    TrailBars = 2
    Fallback <- OwnRule
    EnterGrid <- OneEntry
    StopGrid <- TwoStops
    ExitRatio = 3
    MinTrades = 1
    Spread = 1
    Nil = Nil
    Timeframe = 2
    YearLen = 4
    LastMinute = 4
    Quotes <- FewQuotes
    Delay = 1
    MaxTicks = 4
    KeptBars = 2
    NoBar = NoBar
    Datasets <- FewDatasets
    Infinity = 1000
    MaxBins = 2
    NumLeaves = 4
    MaxDepth = 2
    MinDataInLeaf = 1
    MinDataPerGroup = 1
    FeaturesPerTree = 2
    NumRounds = 2
    EarlyStoppingRounds = 1
    Losses = {1, 2}
INVARIANTS
    BufferIsSeries
CHECK_DEADLOCK FALSE
