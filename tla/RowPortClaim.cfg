SPECIFICATION Spec
CONSTANTS
    Nil = Nil
    MaxUint64 = 15
    ExpansionBaseBytes = 3
    ExpansionBytesPerCandidate = 1
    DecimalGB = 5
    MaxPort = 2
    MaxRecords = 4
    MaxPortRecords = 3
    MaxChunks = 3
    MaxPortEntries = 5
    MaxUnreachableIPs = 1
    Inputs <- RowPortInputs
    MaxBytes = 3
    Workers = 2
    CommandLimits <- MCCommandLimits
    DefaultCandidateLimit = 9
    DefaultMemoryGB = 0
    MaxTotal = 12
CHECK_DEADLOCK FALSE
INVARIANT PlanKeepsTargets
