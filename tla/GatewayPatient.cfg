SPECIFICATION FairSpec
CONSTANTS
    r1 = r1
    r2 = r2
    r3 = r3
    Requests <- MCRequests
    Abandonable <- MCNobody
    Permits = 2
    Interval = 2
    Threshold = 2
    Cooldown = 1
    MaxCooldown = 5
    MaxBacklog = 0
    PromptTimers = TRUE
PROPERTIES
    SendsSpaced
    EveryCallReturns
    KeepsTrying
