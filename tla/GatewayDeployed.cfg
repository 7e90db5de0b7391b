SPECIFICATION Spec
CONSTANTS
    r1 = r1
    r2 = r2
    r3 = r3
    Requests <- MCRequests
    Abandonable <- MCRequests
    Permits = 1
    Interval = 2
    Threshold = 3
    Cooldown = 2
    MaxCooldown = 24
    MaxBacklog = 2
    PromptTimers = FALSE
INVARIANTS
    TypeOK
    OpenMeansQuiet
PROPERTIES
    ThrottleSilence
    WedgedByDropsOnly
SYMMETRY MCSymmetry
