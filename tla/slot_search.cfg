SPECIFICATION Spec
CONSTANTS
    Size = 7
    NSeq = 1
    Tokens = {t1}
    NoToken = none
INVARIANTS
    FindSlotIsComplete ScatterIsComplete
PROPERTIES
    SearchEnds
