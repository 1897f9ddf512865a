SPECIFICATION Spec
CONSTANTS
    p1 = p1
    p2 = p2
    p3 = p3
    k1 = k1
    k2 = k2
    Prompts <- MCPrompts
    Keys <- MCKeys
    KeyOf <- MCKeyOf
    None = None
    Half = Half
    Damaged = Damaged
    MaxRetries = 3
INVARIANTS ExactAnswers FilesAreWhole
PROPERTIES OnlyUnseenAreLost AsksOnce AskReturns
