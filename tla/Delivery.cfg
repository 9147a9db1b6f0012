\* Three alerts, channels of one, days of two units.
CONSTANTS
    a = a
    b = b
    Event = {1, 2, 3}
    Key = {a, b}
    KeyOf <- Keys
    Cooldown = 1
    DailyMax = 2
    BreakerFails = 2
    BreakerOpen = 2
    DayLength = 2
    MaxTime = 3
    EmitCap = 1
    QueueCap = 1
SPECIFICATION FairSpec
CHECK_DEADLOCK FALSE
INVARIANTS
    TypeOK
    DailyBudget
    FailuresSpread
PROPERTIES
    MainChainGoesOn
    QueueDrains
