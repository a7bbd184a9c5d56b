CONSTANTS
    t1 = t1
    t2 = t2
    t3 = t3
    c1 = c1
    None = None
    Turns <- MCTurns
    Conversations <- OneConversation
    Wait = TRUE
    Cancellable = FALSE
    PromptLoop = TRUE
    TTL = 3
    RenewInterval = 2
SPECIFICATION FairSpec
PROPERTY AcquireAnswers
