SPECIFICATION Spec
CONSTANTS
    c1 = c1
    c2 = c2
    short = short
    huge = huge
    Clients <- MCClients
    Texts <- MCTexts
    TokensOf <- MCTokensOf
    MaxTexts = 3
    N_BATCH = 3
    N_SEQ = 2
INVARIANTS OwnVectors DecodesFit
PROPERTIES EveryCallEnds WorkerIsFreed
CHECK_DEADLOCK FALSE
