CONSTANTS
    t1 = t1
    t2 = t2
    t3 = t3
    c1 = c1
    p1 = p1
    p2 = p2
    None = None
    Turns <- ThreeTurns
    Conversations <- OneConversation
    Processes <- TwoProcesses
    Home <- MCHome
    CanDegrade = TRUE
    FaultyCalls <- AllCalls
    MaxFaults = 1
    MaxCrashes = 1
    PromptLoop = FALSE
    TTL = 2
    RenewInterval = 1
    Cooldown = 1
SPECIFICATION FairSpec
PROPERTIES RunningTurnKeepsItsKey OrphanKeyExpires
