SPECIFICATION Spec
CONSTANTS
    Traces <- MCTraces
    Cues = {q1, q2}
    MaxCosine = 2
    Weights = {2, 3}
    FullWeight = 3
    Similarity <- MCSimilarity
    LineLength <- MCLineLength
    InjectN = 3
    PoolFactor = 1
    MinScore = 3
    RelativeNum = 3
    RelativeDen = 5
    MmrLambda = 1
    Budget = 3
INVARIANTS PoolIsExact PackIsUsed
PROPERTIES PickIsDiverse
CHECK_DEADLOCK FALSE
