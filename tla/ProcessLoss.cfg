\* One worker and one round are enough for a pool to be late.
CONSTANTS
    w1 = w1
    w2 = w2
    Worker = {w1}
    Type = {"http"}
    CertWarnDays = 0
    Network <- Responses
    Queries <- Requests
    MaxTerms = 1
    MaxRounds = 1
SPECIFICATION Spec
INVARIANT GracefulShutdown
CHECK_DEADLOCK FALSE
