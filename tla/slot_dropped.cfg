SPECIFICATION SlotSpec
CONSTANTS
    t1 = t1
    t2 = t2
    Size = 8
    NSeq = 2
    Tokens = {t1, t2}
    NoToken = none
    MaxPos = 4
    MaxBatch = 5
    NUbatch = 5
    Pad = 1
    Scatter = TRUE
    EnableGE = TRUE
    DefragMin = 2
    DefragThold = 0
    MaxMoves = 2
    Ranges <- NoRanges
    Shifts = {}
    Prompts <- FewPrompts
    Keeps = {0}
    Outputs = {t1}
    ContBatching = TRUE
    EarlyTasks = FALSE
PROPERTIES
    ReusesComputed
