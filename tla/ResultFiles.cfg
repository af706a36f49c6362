SPECIFICATION Spec
CONSTANTS
    Nil = Nil
    NumTasks = 2
    FlushInterval = 2
    DialErrors <- NoErrors
    GOOS = "linux"
    Kills = TRUE
    MaxSeq = 1
    MaxRuns = 3
INVARIANTS LossIsBounded OneHeader
PROPERTIES RowsStay SummaryIsTrue
