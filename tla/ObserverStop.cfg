SPECIFICATION Spec
CONSTANTS
    Requests = {r1}
    None = None
    Limit = 2
    Endpoints = 1
    Overlaps = {TRUE}
    MaxWorkers = 1
    MaxStreams = 2
INVARIANTS
    StopAlwaysClosesSocket
