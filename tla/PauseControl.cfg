SPECIFICATION DashboardSpec
CONSTANTS
    APIEnabled = TRUE
    IsTerminal = TRUE
    MaxHigh = 1
    MaxKeys = 2
INVARIANTS ThreeInARow
PROPERTIES AutomaticPauseEnds CancelRestoresTerminal DashboardCatchesUp
