CONSTANTS
    Procs = {p1, p2}
    Symbols = {s1, s2}
    Spot = {s2}
    Delisted = {s2}
    Mode = "symbol"
    StMs = 0
    Overlap = 1
    Lateness = 1
    MaxTime = 3
    MaxFills = 2
    Requests <- DisciplinedRequests
SYMMETRY Symmetry
SPECIFICATION Spec
CHECK_DEADLOCK FALSE
INVARIANTS WatermarkCovers
PROPERTIES KeepsPromise
