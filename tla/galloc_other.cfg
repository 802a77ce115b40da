SPECIFICATION Spec
CONSTANTS
    Alignment = 2
    Limit = 20
    MaxFreeBlocks = 3
    Sizes = {1, 3}
    Leafs <- OneInput
    NNodes = 2
    Shapes <- AllShapes
    MaxOutputs = 1
    SameTopology = FALSE
    AllocFails = TRUE
INVARIANT
    OwnersMatchHeap
CHECK_DEADLOCK FALSE
