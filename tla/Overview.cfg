CONSTANTS
    RiskFeeds = {"fr"}
    MarkFeeds = {"Binance"}
    Bootstrapped = {"Binance", "Bybit"}
    Recent = 2
    StaleAfter = 1
    Start = 10
    MaxTime = 14
    FollowedTime = 12
    MaxFaults = 1
    Slugs <- TwoAccounts
    Fr = {"fr"}
    Reachable = {"fr"}
    Ledger <- Swinging
    Worth0 = 20
    Opening <- TheirOpenings
    Initial = {"mm"}
    Day = 4
    HistoryDays = 2
    DrawdownDays = 1
    DateDays = 1
    MonitorInterval = 2
    Fresh = 1
    Retry = 2
    MonitorStale = 3
    Lags = {0, 2}
    Delays = {0, 2}
    None = None
SPECIFICATION Spec
CHECK_DEADLOCK FALSE
INVARIANTS LiveFactsAreRecent  HistoriesTakeTurns
PROPERTIES ReadingsNeverGoBack
