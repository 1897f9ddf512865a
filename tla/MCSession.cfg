SPECIFICATION Spec
CONSTANTS
    m1 = m1
    m2 = m2
    m3 = m3
    Memories = {m1, m2, m3}
    Keep = 3
    MaxWrites = 2
    ToolFallback = TRUE
    MaxTurn = 6
    MaxCalls = 3
SYMMETRY Symmetry
INVARIANTS SavesWithinLimit LogIsWindow MemoryMirrorsLog LagsByOneTurn
PROPERTIES TurnsAreNotOverwritten
