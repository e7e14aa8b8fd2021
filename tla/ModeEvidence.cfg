SPECIFICATION Spec
CONSTANTS
    Requests = {r1, r2}
    Main = Main
    None = None
    MaxRequests = 3
    MaxFaults = 1
INVARIANT EvidenceFirst
