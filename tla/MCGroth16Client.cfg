CONSTANTS
    Packets = {p1}
    MaxEvmHeight = 4
    MaxNow = 4
SPECIFICATION Spec
INVARIANTS
    StoreConsistent
    
    LatestHeightTrusted
    
    ProcessedAfterProduced
PROPERTIES
    TrustExtendsForward
    
CHECK_DEADLOCK FALSE
