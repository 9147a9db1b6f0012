CONSTANTS
    Target = {a, b}
    Collector = {c1}
    QueueCap = 1
    HistoryLimit = 3
    MaxRows = 3
    MaxTime = 3
SPECIFICATION Spec
INVARIANT NamesOutageStart
