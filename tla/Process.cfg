\* Two workers and two rounds, in one term or in two: checks of one target
\* overlap in a pool, or between a pool that is late and the next one; jobs and
\* results find their channels full.
CONSTANTS
    w1 = w1
    w2 = w2
    Worker = {w1, w2}
    Type = {"http", "cert"}
    CertWarnDays = 0
    Network <- Responses
    Queries <- Requests
    MaxTerms = 2
    MaxRounds = 2
SPECIFICATION FairSpec
INVARIANTS
    TypeOK
    ClosedMeansDrained
    ServedWhileOpen
    CountersAddUp
    GaugeTellsLast
    LowDaysMeansDown
PROPERTY ProcessEnds
CHECK_DEADLOCK FALSE
