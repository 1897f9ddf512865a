SPECIFICATION Spec
CONSTANTS
    a = a
    b = b
    Ids = {i1, i2, i3, i4}
    Texts = {a, b}
    Junk = Junk
    Absent = Absent
    Capacity = 2
    YoungShare = 1
    GracePeriod = 1
    WritesPerDay = 2
    Day = 1
    InjectN = 2
    Batches <- MCBatches
    MaxClock = 2
SYMMETRY Symmetry
INVARIANTS ExposuresAreLive CitedOncePerRecall RateHolds
PROPERTIES ExposureNamesOneTrace InsertFits GraceRespected
CHECK_DEADLOCK FALSE
