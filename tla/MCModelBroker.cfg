SPECIFICATION FairSpec
CONSTANTS
    a = a
    b = b
    Invocations = {a, b}
    Generations = {1, 2}
    MaxConcurrent = 1
    MaxQueued = 1
    MaxRecords = 1
INVARIANTS Consistent HostOnce NotSentIsTrue
PROPERTIES RunsEnd
