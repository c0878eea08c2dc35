\* Three EVM blocks, one packet.  In radix 3 the third height is written "10" and
\* sorts before "2"; big-endian heights take both of their bytes.
CONSTANTS
    Packets = {p1}
    MaxEvmHeight = 3
    MaxNow = 4
    UnbondingTime = 1
    ConfigSlot = config
    Radix = 3
    ByteBase = 2
SPECIFICATION Spec
INVARIANTS
    PruneKeepsStore
    NeighboursOfHeight
    MetadataComplete
    
PROPERTIES
    StoreRefines
CHECK_DEADLOCK FALSE
