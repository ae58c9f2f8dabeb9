CONSTANTS
    Procs = {w}
    Worker = w
    Symbols = {s1, s2}
    Spot = {}
    Delisted = {}
    Mode = "symbol"
    Kinds = {"redis"}
    StMs = 1
    Overlap = 1
    Lateness = 1
    RecentWindow = 5
    Lookback = 1
    MaxDelay = 1
    MaxTime = 2
    MaxFills = 2
    OperatorsIn = {}
    OutagesIn = {}
    MaxOutages = 0
    MaxFailures = 1
    FailIn = {"stored", "trades", "bootstrap"}
    Unlisting = FALSE
    FundingAhead = FALSE
    Requests <- NoRequests
    Callers = {c1, c2}
    NumIps = 1
    Limit = 1
    Window = 2
    Retries = 1
    Cooldown429 = 1
    Backoff418 = 2
    Weights = {0, 1}
    Observed <- NoHeader
    RetryAfters <- ZeroOrAbsent
    LastTime = 2
    Published = {0, 1, 2, 3, 5, 6, 7}
    FirstTrades = {1, 3, 5}
    PageLimit = 2
    LastMinute = 8
    MaxErrors = 1
    None = None
SPECIFICATION MCSpec
CHECK_DEADLOCK FALSE
PROPERTIES DispatchReturns EveryFillStored CandlesFollow
