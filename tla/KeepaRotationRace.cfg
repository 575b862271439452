SPECIFICATION Spec
CONSTANTS
    Requests = {r1, r2}
    NumKeys = 2
    Attempts = 2
    MaxChunks = 1
    MaxTokens = 1
    MaxRefills = 0
SYMMETRY Symmetry
INVARIANT ExhaustedMeansEveryKeyOut
