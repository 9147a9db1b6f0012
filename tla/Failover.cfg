\* Two processes and one key; the window is as large as the rule needs.  Two
\* units of time after an alert the key may fire again.
CONSTANTS
    n1 = n1
    n2 = n2
    k1 = k1
    p1 = p1
    p2 = p2
    Node = {n1, n2}
    Key = {k1}
    Pool = {p1, p2}
    MaxTime = 3
    MaxResults = 4
    MaxDisorderly = 3
    WindowCap = 2
    Cooldown <- Cooldowns
    Threshold <- Thresholds
SPECIFICATION FailoverSpec
SYMMETRY Symmetry
INVARIANT FailoverTypeOK
PROPERTIES
    SpacedAcrossTerms
    OutageTold
    AlarmJustified
