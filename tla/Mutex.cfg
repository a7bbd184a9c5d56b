CONSTANTS
    t1 = t1
    t2 = t2
    t3 = t3
    c1 = c1
    c2 = c2
    p1 = p1
    p2 = p2
    None = None
    Turns <- MCTurns
    Conversations <- TwoConversations
    Wait = FALSE
    Cancellable = TRUE
    PromptLoop = TRUE
    TTL = 3
    RenewInterval = 2
    Cooldown = 2
    MaxFaults = 2
    MaxCrashes = 1
SPECIFICATION EitherSpec
INVARIANT LockHasOwner
PROPERTIES ImplementsMutex RedisImplementsMutex
