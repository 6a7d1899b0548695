SPECIFICATION Spec
CONSTANTS
    x = x
    y = y
    m = m
    n = n
    none = none
    Environments = {x, y}
    Requests = {"c1", "c2", "d", "b1"}
    Home <- LedgerHome
    Reserve <- LedgerReserve
    Mission <- LedgerMission
    Pool <- NoPools
    NoMission = none
    NoPool = none
    DayCap <- TwoPolicies
    MissionCost <- TwoEach
    MissionCalls <- TwoEach
    PoolCap <- LedgerPools
    PoolEnforced = FALSE
    OuterCost = 4
    OuterCalls = 3
    SharedCost = 3
    SharedCalls = 2
    FlakyPeers = {y}
    Costs = {1}
    LastDay = 2
INVARIANTS CapsBind OpenWithinOneDay DecisionsStand SharedCapPerLedger
CHECK_DEADLOCK FALSE
