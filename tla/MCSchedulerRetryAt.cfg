SPECIFICATION Spec
CONSTANTS
    a = a
    b = b
    k = k
    m = m
    Callers = {a, b}
    ConnectorWork = {k}
    ModelWork = {}
    Reservations = {1}
    PolicyMaxAttempts = 2
    StepMaxAttempts <- NoStepCap
    LeaseRequests = {1}
    MaxLeaseSeconds = 1
    RenewRequests = {1}
    MaxRenewSeconds = 1
    MaxTotalLeaseSeconds = 2
    RetryDelays = {2}
    Outcomes = {"succeeded", "retryable"}
    MaxTime = 2
    LastClaim = 2
    KeptAlive = {}
    MaxLog = 9
SYMMETRY CallerSymmetry
INVARIANT RetryAtHonoured
CHECK_DEADLOCK FALSE
