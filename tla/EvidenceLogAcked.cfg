SPECIFICATION Spec
CONSTANTS
    Threads = {t1}
    Main = Main
    None = None
    NoMeta = NoMeta
    RecordKinds = {"sample"}
    Checkpoint = 64
    LiveMax = 2
    MaxRecords = 2
    MaxFaults = 2
    MaxCrashes = 0
INVARIANT AckedNeverLost
