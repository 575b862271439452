SPECIFICATION FairSpec
CONSTANTS
    Asins = {a1}
    JobIds = {j1, j2}
    NoJob = NoJob
    Callers = {c1, c2}
    Workers = {w1}
    NoTask = NoTask
    MaxCopies = 1
    MaxFaults = 1
INVARIANT AtMostOneRunning
PROPERTY EveryJobFinishes
