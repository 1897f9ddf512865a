SPECIFICATION Spec
CONSTANTS
    a = a
    b = b
    c = c
    Texts = {a, b, c}
    MaxId = 4
    Hits <- MCHits
    Nears <- MCNears
    StatedAt <- MCStatedAt
    Budget = 2
    SeedsPerBudget = 2
    MaxMembers = 3
    MaxGists = 2
    Absent = Absent
INVARIANTS UndoRestoresAll SettledReachNothing
PROPERTIES OnlyProofSettles QueueIsServed
CHECK_DEADLOCK FALSE
