SPECIFICATION PrepSpec
CONSTANTS
    Nil = Nil
    MaxUint64 = 15
    ExpansionBaseBytes = 3
    ExpansionBytesPerCandidate = 1
    DecimalGB = 5
    MaxPort = 2
    MaxRecords = 3
    MaxPortRecords = 3
    MaxChunks = 3
    MaxPortEntries = 5
    MaxUnreachableIPs = 1
    Inputs <- MCInputs
    MaxBytes = 3
    Workers = 2
    CommandLimits <- MCCommandLimits
    DefaultCandidateLimit = 9
    DefaultMemoryGB = 0
    MaxTotal = 12
    Sources <- PrepSources
    TransformSegment <- Quad
CHECK_DEADLOCK FALSE
INVARIANTS
    PlanKeepsTargets EveryTargetOnce DisjointResumes WithinLimits DuplicatesAreFound NoClosedTarget OpenTargetsSurvive
