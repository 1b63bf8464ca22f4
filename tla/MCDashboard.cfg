SPECIFICATION MCSpec
CONSTANTS
    r1 = r1
    r2 = r2
    r3 = r3
    RepoRow <- MCRepoRow
    Malformed = {}
    NoRepo = NoRepo
    PageLimit = 1
    MaxPages = 4
    MaxChanges = 2
    MaxClicks = 2
    MaxFaults = 1
INVARIANTS WalkLosesFew
PROPERTY DetailSettles
