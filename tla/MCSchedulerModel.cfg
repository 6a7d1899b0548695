SPECIFICATION FairSpec
CONSTANTS
    a = a
    b = b
    k = k
    m = m
    Callers = {a, b}
    ConnectorWork = {}
    ModelWork = {m}
    Reservations = {1, 2}
    PolicyMaxAttempts = 2
    StepMaxAttempts <- NoStepCap
    LeaseRequests = {1}
    MaxLeaseSeconds = 1
    RenewRequests = {1}
    MaxRenewSeconds = 1
    MaxTotalLeaseSeconds = 2
    RetryDelays = {1}
    Outcomes = {"succeeded", "retryable"}
    MaxTime = 3
    LastClaim = 1
    KeptAlive = {a}
    MaxLog = 8
INVARIANTS CurrentLeaseIndexExact LostOrAnswered
PROPERTIES ImplementsLifecycle ReservationHeld LeaseIsReleased
CHECK_DEADLOCK FALSE
