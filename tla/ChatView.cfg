SPECIFICATION FairSpec
CONSTANTS
    Sessions = {s1, s2}
    MaxTurns = 2
    MaxEvents = 4
    MaxLoads = 3
CHECK_DEADLOCK FALSE
INVARIANTS TypeOK NoCursorLeft ResultsInTheirCards SendableAfterError
PROPERTY TurnEnds
