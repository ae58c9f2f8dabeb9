CONSTANTS
    Callers = {c1, c2}
    NumIps = 2
    Limit = 2
    Window = 2
    Retries = 1
    Cooldown429 = 1
    Backoff418 = 2
    Weights = {1, 3}
    Observed <- ObservedValues
    RetryAfters <- NoHeader
    MaxTime = 3
    Styles <- AllStyles
    TiesIn <- TiesElsewhere
    Records = 5
    LastTime = 4
    From = 1
    To = 3
    Span = 2
    Cutoff = 2
    PageSize = 2
    MaxPages = 2
SYMMETRY Symmetry
SPECIFICATION MCSpec
CHECK_DEADLOCK FALSE
INVARIANTS QuotaRespected FetchEndsRight
PROPERTIES BlockedIpNotReserved WindowNeverReopens HintIsExact
