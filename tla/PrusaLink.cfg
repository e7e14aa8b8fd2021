SPECIFICATION FairSpec
CONSTANTS
    Offers <- MCOffers
    MinInterval = 1
    MaxInterval = 4
    MaxRetry = 5
    MinStale = 4
    MaxStale = 8
    Boundary = 3
    MaxReserved = 11
    Durations = {2, 4, 7}
    None = None
    MaxLatency = 2
    MaxStarts = 2
CHECK_DEADLOCK FALSE
INVARIANTS
    PollerInv
    FreshIsRecent
    WithinHeadroom
PROPERTY ImplementsPoller
