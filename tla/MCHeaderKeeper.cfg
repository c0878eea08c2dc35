CONSTANTS
    RetentionPeriod = 20
    Bits = 8
    InitialHeights = {1, 15, 30}
    MaxHeight = 90
    MaxExports = 1
SPECIFICATION Spec
INVARIANTS
    SavedIsSuffix
    WindowExact
CHECK_DEADLOCK FALSE
