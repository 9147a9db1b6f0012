\* Two workers, two targets, a configuration that is reloaded once, Run called
\* twice: enough for a worker to be late by a round and by a configuration.
CONSTANTS
    a = a
    b = b
    Name = {a, b}
    Worker = {w1, w2}
    WindowCap = 1
    MaxRounds = 2
    MaxReloads = 1
    MaxRuns = 2
    Config <- Configs
SPECIFICATION FairSpec
INVARIANTS
    TypeOK
    NoSendOnClosed
    StoppedMeansDrained
PROPERTIES
    SkipMeansBacklog
    RunTerminates
    ReloadApplied
CHECK_DEADLOCK FALSE
