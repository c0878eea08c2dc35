CONSTANTS
    MAX_RETRIES = 1
    MaxFaults = 1
    MaxEvmHeight = 3
    CelestiaHeights = {10, 11}
    OdsSizes = {1, 2, 4}
SPECIFICATION FairSpec
INVARIANTS
    ResponseCoversRange
    SharesOfBlob
PROPERTIES
    RequestEnds
    IndexedIsProved
CHECK_DEADLOCK FALSE
