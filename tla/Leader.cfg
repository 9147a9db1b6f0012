\* Two processes compete for the seat over two leases, under fairness: a process
\* leads beside its own zombie, or beside the other that has not noticed.
CONSTANTS
    n1 = n1
    n2 = n2
    Node = {n1, n2}
    NoNode = NoNode
    MaxLease = 2
    BackoffMax = 1
SPECIFICATION FairSpec
INVARIANTS
    TypeOK
    AtMostOneHolder
    UncancelledPoolIsCurrent
PROPERTIES
    RefinesSeat
    ShutdownTerminates
    StaleLeaderStepsDown
    SeatFilled
