SPECIFICATION FairSpec
CONSTANTS
    NumChunks = 1
    TotalCount <- MCTotalFour
    Workers = {w1}
    FlushInterval = 3
    OpenTasks <- MCOpen
    Faults = {"start", "interrupt", "panic", "dispatch", "api", "output", "pause"}
    MaxRuns = 1
PROPERTIES StopEndsRun FatalErrorSurvives
