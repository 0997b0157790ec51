CONSTANTS
    s1 = s1
    s2 = s2
    d1 = d1
    Rules = {1, 2}
    Recurring = {1}
    Period <- Periods
    PostsOf <- TwoPosts
    Schedulers = {s1, s2}
    Dashboards = {d1}
    Horizon = 1
    Limit = 1
    MaxTries = 1
    MaxPosts = 2
    MaxRepeats = 1
    MaxNow = 1
    MaxStops = 1
SPECIFICATION FairSpec
INVARIANTS
    
    AttentionExplained
PROPERTIES
    ImplementsLedger
    DueIsSettled
CHECK_DEADLOCK FALSE
