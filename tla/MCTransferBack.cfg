CONSTANTS
    Invocations = {r1, r2}
    Escrowed = 2
    MaxEmptyBlocks = 1
    Faults = TRUE
    MaxEvmHeight = 5
    MaxNow = 5
SPECIFICATION FairSpec
INVARIANTS
    Conservation
    
    DoneMeansUnlocked
PROPERTIES
    EveryInvocationEnds
    LightClientSpec
CHECK_DEADLOCK FALSE
