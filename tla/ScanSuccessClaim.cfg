SPECIFICATION Spec
CONSTANTS
    NumChunks = 1
    TotalCount <- MCTotalThree
    Workers = {w1, w2}
    FlushInterval = 2
    OpenTasks <- MCOpen
    Faults = {"interrupt"}
    MaxRuns = 1
INVARIANT SuccessIsComplete
