CONSTANTS
    c1 = c1
    c2 = c2
    c3 = c3
    Chats = {c1, c2, c3}
    Refusing = {c3}
    Page = 1
    IndexPage = 1
    DiscoveryPages = 2
    Budget = 2
    Batch = 1
    Oldest <- MCOldest
    MaxArrivals = 2
    MaxFaults = 1
SPECIFICATION FairSpec
INVARIANTS
    NoGap
    NobodyPassedOver
PROPERTIES
    CatchesUp
CHECK_DEADLOCK FALSE
