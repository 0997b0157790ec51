SPECIFICATION Together
SYMMETRY Symmetric
CONSTANTS
    a = a
    b = b
    Fans = {a, b}
    Hour = 0
    Day = 1
    OnlineWindow = 0
    StalledAfter = 1
    Cooldown <- Cooldowns
    PerHour <- OnePerHour
    PerDay <- TwoPerDay
    PerFan <- NoFanCap
    PresenceBatch = 1
    ScanBatch = 1
    IncludeOnline = TRUE
    MaxEvents = 1
    p = p
    q = q
    Operators = {p, q}
    Bootstrap <- MCBootstrap
    Order <- MCOrder
    Size <- MCSize
    Rules = 2
    Label = 1
    Budget = 10
    TurnSizes = {5, 8}
    MaxDocs = 4
INVARIANTS
    CapsUnlessSlipped
    CooldownHeld
    
    PromptKeepsTurn
CHECK_DEADLOCK FALSE
