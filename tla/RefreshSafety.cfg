SPECIFICATION Spec
CONSTANTS
    Asins = {a1, a2}
    JobIds = {j1}
    NoJob = NoJob
    Callers = {c1, c2}
    Workers = {w1, w2}
    NoTask = NoTask
    MaxCopies = 2
    MaxFaults = 2
SYMMETRY Symmetry
INVARIANTS
    TypeOK
    CountersExact
    ClosesWithLastItem
    TasksHaveItems
    PendingIsCarried
PROPERTY ImplementsLedger
