CONSTANTS
    Invocations = {r1, r2}
    Balances = {1, 2}
    Faults = TRUE
    MaxSimHeight = 6
SPECIFICATION FairSpec
INVARIANTS
    MintedIsBacked
    DoneMeansReceived
    MembershipAtTrustedHeader
PROPERTIES
    EveryTransferEnds
CHECK_DEADLOCK FALSE
