SPECIFICATION Spec
CONSTANTS
    k1 = k1
    k2 = k2
    k3 = k3
    narrow = narrow
    wide = wide
    Calls = {k1, k2, k3}
    Reserve <- SomeReserve
    Policies = {narrow, wide}
    First = narrow
    MaxCalls <- SomeCalls
    MaxCost <- SomeCost
    MaxConcurrency <- SomeConcurrency
    Costs = {3}
    Window = 1
    DayLength = 1
    MaxTime = 1
    Settings <- ThreeSettings
INVARIANTS OnTheBooks ConcurrencyBound DayBound
PROPERTIES SettledIsFinal
CHECK_DEADLOCK FALSE
