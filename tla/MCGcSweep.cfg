SPECIFICATION MCSpec
CONSTANTS
    Commit = {c1, c2}
    Parents <- MCParents
    None = None
    Root = c1
    Origin = s
    Repo = {s, f}
    Pushers = {p1}
    Forkers = {f1}
    Sweeper = sweep
    Admins = {a1}
    MaxFaults = 1
INVARIANTS PushedKept
PROPERTIES StableKept Reclaimed
CHECK_DEADLOCK FALSE
