SPECIFICATION FairSpec
CONSTANTS
    Requests = {r1}
    None = None
    Limit = 2
    Endpoints = 1
    Overlaps = {FALSE, TRUE}
    MaxWorkers = 2
    MaxStreams = 2
INVARIANTS
    SessionInv
    StopClosesSocket
    DisplaySettles
PROPERTIES
    StopIsFinal
    StopCompletes
