SPECIFICATION TimedSpec
CONSTANTS
    Input = 2
    Capacity = 1
    MaxOutput = 2
PROPERTIES CallEnds
CHECK_DEADLOCK FALSE
