SPECIFICATION MCSpec
CONSTANTS
    Packs <- MCPacks
    Stores <- MCStores
    Resolvers = {"full", "ref", "direct"}
    Word = 8
    MaxCap = 2
    MaxOther = 1
    NoValue = NoValue
    Streams <- MCStreams
    Requests <- MCRequests
    MaxPayload = 3
    CommitsLimitDefault = 2
    CommitsLimitMax = 3
    Absent = Absent
INVARIANTS ResolvesExactly ParsersExact
PROPERTY Terminates
CHECK_DEADLOCK FALSE
