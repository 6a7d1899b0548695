SPECIFICATION Spec
CONSTANTS
    x = x
    y = y
    m = m
    n = n
    none = none
    Environments = {x}
    Requests = {"c1", "c2", "c3", "v"}
    Home <- LedgerHome
    Reserve <- LedgerReserve
    Mission <- LedgerMission
    Pool <- LedgerPool
    NoMission = none
    NoPool = none
    DayCap <- OnePolicy
    MissionCost <- FourEach
    MissionCalls <- ThreeEach
    PoolCap <- LedgerPools
    PoolEnforced = TRUE
    OuterCost = 4
    OuterCalls = 3
    SharedCost = 4
    SharedCalls = 4
    FlakyPeers = {}
    Costs = {0, 1, 3}
    LastDay = 1
INVARIANTS PoolsLendOnce
CHECK_DEADLOCK FALSE
