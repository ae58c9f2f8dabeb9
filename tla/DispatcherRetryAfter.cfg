CONSTANTS
    Callers = {c1, c2}
    NumIps = 2
    Limit = 3
    Window = 2
    Retries = 1
    Cooldown429 = 1
    Backoff418 = 2
    Weights = {1}
    Observed <- NoHeader
    RetryAfters <- LongOrAbsent
    MaxTime = 3
SPECIFICATION Spec
CHECK_DEADLOCK FALSE
PROPERTIES RetryAfterHonored
