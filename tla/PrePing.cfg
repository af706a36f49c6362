SPECIFICATION FairSpec
CONSTANTS
    NumIPs = 3
    NumWorkers = 2
INVARIANTS PublishedIsTruth CancelIsNotInvented
PROPERTIES PrePingEnds
