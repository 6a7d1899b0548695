SPECIFICATION Spec
CONSTANTS
    p1 = p1
    p2 = p2
    x1 = x1
    Callers = {p1, p2}
    Others = {x1}
    Nobody = Nobody
    MaxAttempts = 2
    Reserve = 2
    Settings <- FourSettings
SYMMETRY CallerSymmetry
INVARIANTS CallsCovered LedgerTruth AbandonedStands NothingStranded
CHECK_DEADLOCK FALSE
