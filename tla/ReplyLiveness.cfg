CONSTANTS
    f1 = f1
    w1 = w1
    w2 = w2
    Messages = {1, 2}
    Fans = {f1}
    FanOf <- OneFan
    KindOf <- AllUnread
    MaxAttempts = 1
    Workers = {w1}
    MaxTries = 1
    ReplyKinds = {"text"}
    OptOuts = {}
    Deletable = {}
    MaxCreatorSends = 1
    MaxHandoffs = 0
    MaxCrashes = 1
    MaxStarts = 0
SPECIFICATION FairSpec
PROPERTIES
    
    SendingSettlesOrSuperseded
    QueueSettles
CHECK_DEADLOCK FALSE
