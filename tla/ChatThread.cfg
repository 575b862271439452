SPECIFICATION Spec
CONSTANTS
    Turns = {t1, t2, t3}
    MaxToolRounds = 1
    MaxCalls = 2
SYMMETRY Symmetry
CHECK_DEADLOCK FALSE
INVARIANTS TypeOK HistoryInOrder RoundsBounded UnansweredOnlyWhereCut
PROPERTY ImplementsTurnLog
