SPECIFICATION FairSpec
CONSTANTS
    c1 = c1
    c2 = c2
    Callers <- MCCallers
    MaxGeneration = 3
    Faults = TRUE
INVARIANTS
    TypeOK
    OneExchange
    CommittedBeforeUse
    StoredGrantIsLive
PROPERTIES
    BrakeHolds
    NoNeedlessExchange
    CallsEnd
