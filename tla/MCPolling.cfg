CONSTANTS
    Callers = {"receipt", "tx", "any"}
    TimeoutAfter = 300
    PollingInterval = 15
    MaxRetries = 5
    ConnectionErrors = TRUE
SPECIFICATION FairSpec
INVARIANTS
    DeadlineOverrunBounded
PROPERTIES
    WaitEnds
CHECK_DEADLOCK FALSE
