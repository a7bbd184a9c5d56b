CONSTANTS
    MaxChatTurns = 3
    Saves = {}
    NoTurn = NoTurn
    Words <- ThreeWords
    DailyLimit = 3
    Lookback = 5
    LastStage = 2
    MaxTroubles = 0
SPECIFICATION ChatSpec
PROPERTY ConfirmedModeBringsTheFacts
CHECK_DEADLOCK FALSE
