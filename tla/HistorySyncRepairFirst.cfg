CONSTANTS
    Procs = {p1}
    Symbols = {s1, s2}
    Spot = {}
    Delisted = {}
    Mode = "symbol"
    StMs = 1
    Overlap = 1
    Lateness = 1
    MaxTime = 3
    MaxFills = 2
    Requests <- RepairFirstRequests
SYMMETRY Symmetry
SPECIFICATION Spec
CHECK_DEADLOCK FALSE
INVARIANTS WatermarkCovers
