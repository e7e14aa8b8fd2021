SPECIFICATION FairSpec
CONSTANTS
    Cycles = 2
    MaxEvents = 1
    Checkpoints = 2
    Samples <- MCSamples
    MaxFaults = 1
    Stoppers = {s1}
    Runner = runner
    Watcher = watcher
    None = None
INVARIANTS
    RunInv
    VerdictEarned
    JudgementStands
    SettlementTruthful
    OwnCloseIsNotRemote
PROPERTY RunEnds
