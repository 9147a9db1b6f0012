\* Two targets, four rows of which a diagnosis reads three.
CONSTANTS
    Target = {a, b}
    Collector = {c1}
    QueueCap = 1
    HistoryLimit = 3
    MaxRows = 4
    MaxTime = 3
SPECIFICATION Spec
SYMMETRY Symmetry
INVARIANTS
    TypeOK
    SeesItsResult
    FlapsCounted
    OrderedHistoryWorks
    PagesAgree
