CONSTANTS
    t1 = t1
    t2 = t2
    t3 = t3
    c1 = c1
    None = None
    Turns <- MCTurns
    Conversations <- OneConversation
    Wait = TRUE
    Cancellable = TRUE
    PromptLoop = FALSE
    TTL = 2
    RenewInterval = 1
SPECIFICATION FairSpec

PROPERTIES LiveLeaseEndsWithItsTurn AbandonedLeaseExpires
