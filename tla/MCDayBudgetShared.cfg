SPECIFICATION Spec
CONSTANTS
    x = x
    y = y
    m = m
    n = n
    none = none
    Environments = {x, y}
    Requests = {"a1", "a2", "b1"}
    Home <- HostHome
    Reserve <- HostReserve
    Mission <- HostMission
    Pool <- NoPools
    NoMission = none
    NoPool = none
    DayCap <- OnePolicy
    MissionCost <- ThreeEach
    MissionCalls <- ThreeEach
    PoolCap <- LedgerPools
    PoolEnforced = FALSE
    OuterCost = 3
    OuterCalls = 3
    SharedCost = 2
    SharedCalls = 2
    FlakyPeers = {}
    Costs = {0, 1, 3}
    LastDay = 1
INVARIANT SharedCapHolds
CHECK_DEADLOCK FALSE
