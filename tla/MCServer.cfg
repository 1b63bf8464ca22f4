SPECIFICATION ServerSpec
CONSTANTS
    Req = {q1, q2}
    Task = {t1, t2}
    Timeout = 2
    MaxKey = 2
    MaxFaults = 2
INVARIANTS SchemaSound ShutdownRowLast RetiredStaysRetired
PROPERTIES BootsAgain StopsWhenTold
