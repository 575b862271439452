SPECIFICATION Spec
CONSTANTS
    Asins = {a1}
    JobIds = {j1}
    NoJob = NoJob
    Callers = {c1, c2}
    Workers = {w1}
    NoTask = NoTask
    MaxCopies = 2
    MaxFaults = 0
INVARIANT DoneTheMomentCountsAddUp
