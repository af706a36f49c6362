SPECIFICATION Spec
CONSTANTS
    Nil = Nil
    NumTasks = 2
    FlushInterval = 2
    DialErrors <- WindowsErrors
    GOOS = "windows"
    Kills = FALSE
    MaxSeq = 1
    MaxRuns = 2
INVARIANT CoversEveryTarget
