\* The same with a second key, of a rule without cooldown.
CONSTANTS
    n1 = n1
    n2 = n2
    k1 = k1
    k2 = k2
    Node = {n1, n2}
    Key = {k1, k2}
    MaxTime = 3
    Cooldown <- Cooldowns
SPECIFICATION Spec
PROPERTY CooldownSurvivesHandover
