SPECIFICATION Spec
CONSTANTS
    c1 = c1
    c2 = c2
    c3 = c3
    Commit <- MCCommit
    Parents <- MCParents
    None = None
    Time <- MCTime
    Ref = {main, dev}
    Main = main
    main = main
    dev = dev
    Repos <- MCRepos
    Clones <- MCClones
    MaxWrites = 3
INVARIANTS RowsAreReal FetchComplete ReadsServed
CHECK_DEADLOCK FALSE
