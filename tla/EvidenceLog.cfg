SPECIFICATION FairSpec
CONSTANTS
    Threads = {t1, t2}
    Main = Main
    None = None
    NoMeta = NoMeta
    RecordKinds = {"sample", "completed"}
    Checkpoint = 2
    LiveMax = 2
    MaxRecords = 3
    MaxFaults = 2
    MaxCrashes = 2
INVARIANTS
    EvidenceInv
    AckedDurable
    RecoveredCounters
    FailureRecorded
PROPERTIES
    ClosedImmutable
    ImplementsDurableLog
    CallsEnd
