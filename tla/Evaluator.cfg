\* Two targets, windows of two results, four results in three units of time.
CONSTANTS
    a = a
    b = b
    Any = Any
    Target = {a, b}
    Rule <- Rules
    Outcome <- Outcomes
    WindowCap = 2
    MaxLag = 1
    MaxResults = 4
    MaxTime = 3
SPECIFICATION Spec
CHECK_DEADLOCK FALSE
INVARIANT TypeOK
PROPERTIES
    NoFalseAlarm
    NoMissedAlarm
