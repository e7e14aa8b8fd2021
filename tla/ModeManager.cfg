SPECIFICATION FairSpec
CONSTANTS
    Requests = {r1, r2}
    Main = Main
    None = None
    MaxRequests = 3
    MaxFaults = 1
INVARIANTS
    ManagerInv
    ShutdownReachesAll
PROPERTIES
    Restored
