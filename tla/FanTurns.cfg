CONSTANTS
    Messages = {1, 2, 3, 4}
    Sends = {9}
    FanOf <- FansOf
    At <- Times
    Debounce = 1
    Window = 2
    MaxMessages = 2
    Receivers = {"w"}
    Planners = {"p"}
    MaxNow = 4
    MaxStops = 1
    MaxSwitches = 1
    Accounts = {"own", "managed", "new"}
    Labels = {"me", "model"}
    NameOf <- MCNameOf
    Managed = {"own", "managed"}
    Legacy <- OwnCreator
    Requests = {1, 2}
    Attempts = {"code"}
    MaxTries = 1
    MaxRestarts = 1
SPECIFICATION Together
INVARIANTS
    
    MembersUnlessMissed
    WorkspaceIsCreators
PROPERTIES
    ReopenedOnlyByRace
CHECK_DEADLOCK FALSE
