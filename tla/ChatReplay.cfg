SPECIFICATION Spec
CONSTANTS
    Turns = {t1, t2}
    MaxToolRounds = 1
    MaxCalls = 1
CHECK_DEADLOCK FALSE
INVARIANT ReplayedToolsHaveResults
