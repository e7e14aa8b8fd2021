CONSTANTS
    Sessions = {s1, s2, s3}
    Downloads = {d1, d2}
    None = None
    MaxBytes = 3
    MaxSessions = 2
    SessionBytes = 1
    MaxSweeps = 2
    MaxFaults = 1
    MaxCrashes = 1
SPECIFICATION StoreSpec
CHECK_DEADLOCK FALSE
SYMMETRY Symmetry
INVARIANTS
    StoreInv
PROPERTIES
    RemovesAsDocumented
