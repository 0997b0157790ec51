CONSTANTS
    Facts = {1, 2, 3}
    TypeOf <- MCTypeOf
    Fields = {"mood", "stage"}
    Messages = {1, 3}
    Mentions = {1, 3}
    Sensitive = {3}
    Delay <- MCDelay
    Cooldown <- MCCooldown
    MaxNow = 4
    MaxWrites = 3
    MaxFaults = 1
    Events <- MCEvents
    Fans = {"fan"}
    MessageIds = {"m1", "m2"}
    Refs = {"r"}
    ChatOf <- MCChatOf
    Chats = {"a", "b", "c"}
    PageSize = 1
    MessagePages <- MCMessagePages
    ChatPages = 3
    MaxLog = 3
    MaxErrors = 1
SPECIFICATION Together
INVARIANTS
    SaidIsActive
    RevenueCountedOnce
    PassedForAReason
PROPERTIES
    StateNeverStale
    CooldownUnlessMentioned
CHECK_DEADLOCK FALSE
