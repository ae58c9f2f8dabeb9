CONSTANTS
    Setups <- AllSetups
    Symbols = {0, 1, 2}
    Stable = 0
    Prices = {1, 2}
    Scale = 2
    Multiplier = 1
    RebateRate = 1
    Interval = 2
    Windows = {1, 3}
    None = None
SPECIFICATION Spec
CHECK_DEADLOCK FALSE
INVARIANTS RealizedIsFifo TotalIsMarkedCash CurveIsExact ReplayAgrees
