SPECIFICATION Spec
CONSTANTS
    Marks = {m1}
    Operators = {o1, o2}
    ApiCalls = {c1, c2}
    NoOperator = NoOperator
    NoCall = NoCall
    MaxClock = 2
    Turns = {t1, t2}
    ToolKeys = {hotels, transport, guide}
    Recording = {hotels, transport}
    MaxTurns = 1
    Requests = {r1, r2, r3}
    Processes = {p1, p2}
    Limit = 1
    MaxWindow = 1
    Loads = {l1, l2}
    McpSessions = {s1}
    MaxAttempts = 2
    MaxTools = 2
    MaxChatTurns = 3
    Saves = {d1}
    NoTurn = NoTurn
    Words <- ChatWords
    DailyLimit = 3
    Lookback = 2
    LastStage = 2
    MaxTroubles = 1
    Sessions = {c1, c2}
    Statements <- UserStatements
    MaxAudit = 3
    MaxMemoryCalls = 4
    MaxMemoryFaults = 1
    UserMessages <- TurnMessages
    MaxUserMessages = 2
    MaxFreeCalls = 1
INVARIANTS AnswersFollowTheirQuestions HistoryExplainsRow ProductionKeepsMarks RunsOncePerTurn LimitPerWindow HealthTellsTheCache MemoryKeepsItsWord WhatIsAskedIsRecorded
PROPERTIES FirstRunKnowsTheFacts ProgressIsSeededOnce DecidedUnlessOverlapping
CHECK_DEADLOCK FALSE
