SPECIFICATION ProcSpec
CONSTANTS
    MaxSaves = 3
    MaxInterrupts = 3
    MaxInt = 127
    Unit = 10
    Second = 10
    MaxWorkers = 4
    MaxRate = 4
    MaxBucketCapacity = 4
INVARIANTS DestinationIsWhole ReportIsTrue ExitCodeIsTrue AcceptedFlagsFit
PROPERTIES OldOrNew OnlyTheSecondCuts SecondInterruptEnds
CHECK_DEADLOCK FALSE
