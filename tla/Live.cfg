CONSTANTS
    Procs = {w, p}
    Worker = w
    Symbols = {s1, s2}
    Spot = {}
    Delisted = {}
    Mode = "symbol"
    Kinds = {"redis", "cta"}
    StMs = 1
    Overlap = 1
    Lateness = 1
    RecentWindow = 5
    Lookback = 1
    MaxDelay = 1
    MaxTime = 4
    MaxFills = 2
    OperatorsIn = {"redis"}
    OutagesIn = {"cta"}
    MaxOutages = 1
    MaxFailures = 1
    FailIn = {"trades", "bootstrap"}
    Unlisting = TRUE
    FundingAhead = FALSE
    Requests <- OperatorRepair
SYMMETRY Symmetry

SPECIFICATION LiveSpec
CHECK_DEADLOCK FALSE
INVARIANTS NoFillOutOfReach
