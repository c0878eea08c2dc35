CONSTANTS
    EvmBlocks = {3}
    BlobSets = {{0}, {3}}
    MaxBackfill = 3
    Bits = 4
    ApiBits = 2
    MaxHeight = 3
    MaxDisconnects = 1
    MaxCrashes = 1
    MaxFailures = 1
    MaxFaults = 2
SPECIFICATION FairSpec
INVARIANTS
    MappingSound
    LastProcessedIndexed
PROPERTIES
    MissedBlocksBackfilled
    ShutdownCompletes
CHECK_DEADLOCK FALSE
