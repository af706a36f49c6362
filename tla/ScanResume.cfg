SPECIFICATION Spec
CONSTANTS
    NumChunks = 2
    TotalCount <- MCTotalTwoChunks
    Workers = {w1, w2}
    FlushInterval = 2
    OpenTasks <- MCOpen
    Faults = {"interrupt", "crash", "panic", "output", "save"}
    MaxRuns = 2
SYMMETRY WorkerSymmetry
INVARIANTS NoSkippedRow SilentReturnIsComplete NoProbeAfterStop
PROPERTIES CursorNeverRegresses ImplementsResumableScan
