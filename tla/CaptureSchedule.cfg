SPECIFICATION FairSpec
CONSTANTS
    Durations = {1, 2, 4, 5}
    Intervals = {1, 2, 3, 7}
    MaxLatency = 3
    MaxLate = 1
CHECK_DEADLOCK FALSE
INVARIANTS
    RecordsWithinEstimate
    NoBurst
    OutcomeTruthful
PROPERTY Terminates
