SPECIFICATION SearchSpec
CONSTANTS
    Cosines = {1, 2}
    IdOf <- MCIdOf
    MaxEntries = 5
    MaxWanted = 2
    PROBE_VECTORS = 4
    NEAR_REACH_MAX = 5
    JUNK_READ = 1
    FindFactor = 1
PROPERTIES NearIsExact FindIsComplete SearchEnds
CHECK_DEADLOCK FALSE
