CONSTANTS
    Procs = {p1, p2}
    Orders = {1, 2, 3}
    Margin = {1, 2}
    Buys = {1}
    Anchor <- HedgeOfFirst
    Start = 1
    Reorder = 1
    Lag = 1
    MaxTime = 4
    LastRow = 2
    Kinds <- SomeKinds
    Behind = {0}
    Coins = {1, 2}
    OrderRows <- SomeOrders
    FeeRows <- SomeFees
    FundingRows <- SomeFunding
    InterestRows <- SomeInterest
    ReferenceFee = 1
    Scale = 5040
    MaxOrders = 3
    MaxCharges = 1
    LastEvent = 2
    None = None
SYMMETRY Symmetry
SPECIFICATION MCSpec
CHECK_DEADLOCK FALSE
INVARIANTS FillsConserved PendingIsOpen RealizedBySettledUnits ChargesFollowUnits ViewsAgree
