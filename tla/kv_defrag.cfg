SPECIFICATION FairSpec
CONSTANTS
    Size = 5
    NSeq = 1
    Tokens = {t1, t2}
    NoToken = none
    MaxPos = 5
    MaxBatch = 2
    NUbatch = 2
    Pad = 1
    Scatter = TRUE
    EnableGE = TRUE
    DefragMin = 3
    DefragThold = 1
    MaxMoves = 2
    Ranges <- SinglePositions
    Shifts = {}
INVARIANTS
    RowsFollowCells NoDefragBug CopiesFitTheGraph
PROPERTIES
    DecodeOnlyAdds DecodeReturns
