SPECIFICATION FairSpec
CONSTANTS
    Requests = {r1, r2}
    NumKeys = 2
    Attempts = 2
    MaxChunks = 2
    MaxTokens = 2
    MaxRefills = 1
INVARIANTS TypeOK GivesUpOnLastKey AloneGivesUpHonestly
PROPERTIES CallsBounded NeverBackToAnEmptyKey EveryRequestEnds
