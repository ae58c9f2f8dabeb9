CONSTANTS
    Procs = {w, m}
    Worker = w
    Symbols = {s1}
    Spot = {}
    Delisted = {}
    Mode = "account"
    StMs = 0
    Overlap = 1
    Lateness = 0
    MaxTime = 3
    MaxFills = 1
    Requests <- WorkerRequests
    Gap = 1
    AlignOverlap = 1
    MaxMissed = 1
    Budgets <- LostOrOff
    EqualSizes = FALSE

SPECIFICATION AlignSpec
CHECK_DEADLOCK FALSE
INVARIANTS VerifiedReconciles NoFalseAlarm NoOrphanRunning
PROPERTIES SwitchedOffAfterFailure
