SPECIFICATION SlotSpec
CONSTANTS
    t1 = t1
    t2 = t2
    Size = 8
    NSeq = 2
    Tokens = {t1, t2}
    NoToken = none
    MaxPos = 4
    MaxBatch = 2
    NUbatch = 2
    Pad = 1
    Scatter = FALSE
    EnableGE = FALSE
    DefragMin = 2
    DefragThold = 0
    MaxMoves = 1
    Ranges <- NoRanges
    Shifts = {}
    Prompts <- FewPrompts
    Keeps = {0}
    Outputs = {t1}
    ContBatching = TRUE
    EarlyTasks = FALSE
INVARIANTS
    AttentionExact NeverGivesUp NeverShifts
