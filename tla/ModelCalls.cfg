CONSTANTS
    Jobs = {1, 2}
    Threads = 1
    Settings <- MCSettings
    MaxHour = 1
    MaxChanges = 1
    MaxFaults = 1
SPECIFICATION CallsSpec
INVARIANTS
    
    TurnBounded
PROPERTIES
    RowSettles
CHECK_DEADLOCK FALSE
