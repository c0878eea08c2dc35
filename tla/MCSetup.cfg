CONSTANTS
    MaxRetries = 3
    Faults = TRUE
    MaxRuns = 4
    MaxEvmHeight = 3
SPECIFICATION FairSpec
INVARIANTS
    DoneMeansConnected
PROPERTIES
    SetupEnds
CHECK_DEADLOCK FALSE
