SPECIFICATION MCSpec
CONSTANTS
    Hook = {h1, h2}
    Rotators = {r1, r2}
    Key = {k0, k1, k2}
    None = None
    MaxKeyFaults = 1
    Published <- MCPublished
    Subscriptions <- MCSubscriptions
    Client = {c}
    BusCapacity = 1
    NoSecret = NoSecret
    MaxSent = 3
SYMMETRY Symmetry
INVARIANTS SecretsReadable RestartKeepsKey DeliveriesSigned NothingLostSilently
CHECK_DEADLOCK FALSE
