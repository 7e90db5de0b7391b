SPECIFICATION Spec
CONSTANTS
    r1 = r1
    r2 = r2
    r3 = r3
    Requests <- MCPair
    Abandonable <- MCPair
    Permits = 1
    Interval = 1
    Threshold = 2
    Cooldown = 2
    MaxCooldown = 12
    MaxBacklog = 2
    PromptTimers = FALSE
INVARIANTS
    NotWedged
