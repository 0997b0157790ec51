CONSTANTS
    f1 = f1
    w1 = w1
    w2 = w2
    Messages = {1}
    Fans = {f1}
    FanOf <- OneFan
    KindOf <- LastStalled
    MaxAttempts = 1
    Workers = {w1, w2}
    MaxTries = 1
    ReplyKinds = {"text"}
    OptOuts = {}
    Deletable = {}
    MaxCreatorSends = 0
    MaxHandoffs = 3
    MaxCrashes = 1
    MaxStarts = 1
SPECIFICATION Spec
SYMMETRY WorkerSymmetry
PROPERTIES
    ImplementsLedger
CHECK_DEADLOCK FALSE
