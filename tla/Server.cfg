SPECIFICATION ServerSpec
CONSTANTS
    ann = ann  bob = bob  carl = carl  dora = dora
    k1 = k1  k2 = k2  k3 = k3  fr = fr  ia = ia
    None = None
    UserIds = {ann, bob, carl, dora}
    FirstUsers <- TheUsers
    Tokens = {k1, k2, k3}
    FirstSessions <- TheSessions
    Slugs = {fr, ia}
    Tasks = {t1, t2}
    TTL = 3
    RenewBelow = 2
    Offers = {{"login", "logout", "password"}, {"update", "delete"},
              {"create", "grants"}, {"snapshots", "initial", "pnl"}, {"fees"}}
    Start <- TheStart
    Priced <- ThePriced
    Markets <- TheMarkets
    Symbols = {x, y}
    EmptyAnswers = {fr}
    MaxTime = 3
    MaxRequests = 3
    MaxDrops = 1
    MaxProcesses = 2
SYMMETRY Symmetric
INVARIANTS AccountsConsistent OneFeeSyncProcess PnlStartsAtBase LatestRatesComplete
PROPERTIES EndedSessionStaysEnded
CHECK_DEADLOCK FALSE
