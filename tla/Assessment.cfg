SPECIFICATION Spec
CONSTANTS
    NoRun = NoRun
    NoId = NoId
    AnyChannel = AnyChannel
    RunA = RunA
    RunB = RunB
    E1 = E1
    E2 = E2
    R1 = R1
    R2 = R2
    NsPerSecond = 2
    MaxHoldSeconds = 4
    MaxLost = 2
    Lines <- MCLines
    Profiles <- MCProfiles
INVARIANT KnownWhateverTheInstants
INVARIANT DecisionsAreGrounded
PROPERTY DeletionNeverDecides
PROPERTY ClosedRunIsFinal
