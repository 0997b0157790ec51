CONSTANTS
    f1 = f1
    w1 = w1
    w2 = w2
    Messages = {1, 2}
    Fans = {f1}
    FanOf <- OneFan
    KindOf <- AllUnread
    MaxAttempts = 2
    Workers = {w1, w2}
    MaxTries = 2
    ReplyKinds = {"text", "sales", "non_text"}
    OptOuts = {2}
    Deletable = {1}
    MaxCreatorSends = 0
    MaxHandoffs = 0
    MaxCrashes = 1
    MaxStarts = 0
SPECIFICATION Spec
SYMMETRY WorkerSymmetry
INVARIANTS
    SentOnce
    OnlyAfterCommit
    RowsAgree
PROPERTIES
    QuietAfterOptOut
CHECK_DEADLOCK FALSE
