SPECIFICATION Spec
CONSTANTS
    r1 = r1
    r2 = r2
    Requests = {r1, r2}
    MaxAttempts = 3
    MaxConcurrency = 1
    Settings <- FourSettings
INVARIANTS CallsAccounted AccountBound ClosedOverFacts RecoverableOrStuck
CHECK_DEADLOCK FALSE
