SPECIFICATION Spec
CONSTANTS
    Size = 3
    NSeq = 2
    Tokens = {t1}
    NoToken = none
    MaxPos = 2
    MaxBatch = 2
    NUbatch = 2
    Pad = 1
    Scatter = FALSE
    EnableGE = FALSE
    DefragMin = 2
    DefragThold = 1
    MaxMoves = 1
    Ranges <- AllRanges
    Shifts <- MinusOne
INVARIANTS
    TypeOK UsedMatchesCells RowsFollowCells VisibleToGraph
PROPERTIES
    DecodeOnlyAdds
