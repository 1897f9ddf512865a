SPECIFICATION EvictionSpec
CONSTANTS
    Stabilities <- MCStabilities
    Band <- MCBand
    Rank <- MCRank
    IdleTimes <- MCIdleTimes
    MaxRows = 3
    MaxExcess = 2
    ShareDivisor = 2
    MaxStability = 5
    NewStability = 4
    GracePeriod = 1
    BAND_DEPTH = 1
    BAND_CAP = 3
    DEAD <- MCDEAD
INVARIANTS RightOnesGo WeakestGo
CHECK_DEADLOCK FALSE
