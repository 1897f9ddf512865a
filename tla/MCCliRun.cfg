SPECIFICATION RunSpec
CONSTANTS
    Input = 3
    Capacity = 2
    MaxOutput = 3
INVARIANTS OutputIsWhole NoChildLeft
PROPERTIES NeverStalls RunEnds
CHECK_DEADLOCK FALSE
