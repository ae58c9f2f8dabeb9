CONSTANTS
    Environments <- BothEnvironments
    Venue <- TheirVenues
    Symbols <- TwoSymbols
    Users = {"admin", "member"}
    Visible <- TheirVisible
    Catalogue <- Scenes
    MaxCalls <- Calls
    Ttl = 2
    DefaultAmount = 10
    LimitsEnd = 4
    None = None
    Strategies <- OneStrategy
    Shapes <- OrderShapes
    Hour = 2
    Chunk = 1
    NormalMax = 5
    Ranges <- SomeRanges
    LatencyEnd = 4
    MaxRows = 2
    MaxTroubles = 1
    Delays = {0, 1}
    Exchanges <- GateAndOkx
    Instruments = {"btc"}
    Multipliers = {1, 10}
    DayLength = 2
    CycleEnd = 4
    MaxChanges = 1
    MaxOutages = 1
    Roles <- TwoRoles
    Kinds <- TheirKinds
    Clients = {1}
    Window = 0
    OrderWindow = 1
    InitialBytes = 2
    MaxRead = 3
    MaxEvents = 1
    MaxLines <- FewLines
    ProcessStates <- TheirStates
    Halved <- OnlyEngine
    MonitorEnd = 1
    MaxFaults = 1
SPECIFICATION Spec
CHECK_DEADLOCK FALSE
INVARIANTS HealthyHidesNothing HourlyPointsAreExact MultiplierIsTrue AlertsComplete PublishedIsDeserved
PROPERTIES AnswersNeverGoBack PastMultipliersStay
