SPECIFICATION FairSpec
CONSTANTS
    a1 = a1
    a2 = a2
    x = x
    y = y
    Requests = {q1}
    Ids = {a1, a2}
    Texts = {x, y}
    Annotations <- MCAnnotations
    None = None
    Idle = Idle
    Limit = 1
    MaxRuns = 2
    Configs <- MCConfigs
    MaxMishaps = 1
INVARIANTS
    CaptureInv
    AnnotationStoredOnce
    RefusalsHold
PROPERTIES
    VerdictStands
    CaptureEnds
