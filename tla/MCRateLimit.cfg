SPECIFICATION MCSpec
CONSTANTS
    Caller = {a}
    Thread = {t1, t2}
    Cap = 6
    Cost = 3
    Sec = 2
    Stale = 6
    MaxWait = 2
    MaxTime = 7
    None = None
    WriteChecks = {TRUE, FALSE}
    CheckMax = 2
    CheckDeadline = 1
    DrainDelay = 5
    Period = 2
    ProbeTimeout = 2
    Threshold = 2
    MaxTurns = 2
SYMMETRY Symmetry
INVARIANTS WindowBounded RetryAfterHonest PulledBeforeRefusal
PROPERTY LenientBucket
CHECK_DEADLOCK FALSE
