CONSTANTS
    Ladders = {1, 2}
    Bonus <- Bonuses
    OfferStage = {1, 2}
    Lengths <- Sizes
    MaxLength = 2
    MaxRows = 3
    MaxVersion = 6
    MaxEdits = 1
    MaxStops = 1
    Calls = {1, 2, 3, 4}
    ClassOf <- Classes
    Cost <- Costs
    MonthlyLimit = 5
    DailyReads = 2
    SendReserve = 1
    EmergencyReserve = 1
    DaysPerMonth = 2
    Actuals = {0, 2}
    MaxDay = 2
SPECIFICATION Together
INVARIANTS
    CountedOnce
    NotOfferedTwice
    BudgetHeld
CHECK_DEADLOCK FALSE
