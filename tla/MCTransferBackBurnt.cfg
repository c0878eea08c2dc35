CONSTANTS
    Invocations = {r1}
    Escrowed = 1
    MaxEmptyBlocks = 2
    Faults = FALSE
    MaxEvmHeight = 4
    MaxNow = 4
SPECIFICATION FairSpec
PROPERTIES
    BurntIsUnlocked
CHECK_DEADLOCK FALSE
