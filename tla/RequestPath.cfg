SPECIFICATION Spec
CONSTANTS
    r1 = r1
    r2 = r2
    c1 = c1
    c2 = c2
    Nobody = Nobody
    Requests = {r1, r2}
    Clients = {c1, c2}
    Limit = 2
    MaxClients = 1
    Window = 3
    MaxDelay = 1
    Hour = 2
    Week = 2
    MaxTime = 4
    MaxCounted = 1
INVARIANTS
    TypeOK
    AdmissionsBounded
    FallbacksAreRequests
    WeekIsCovered
PROPERTIES
    RefusedOnlyIfBusy
SYMMETRY Symmetry
CHECK_DEADLOCK FALSE
