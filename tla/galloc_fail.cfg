SPECIFICATION Spec
CONSTANTS
    Alignment = 2
    Limit = 20
    MaxFreeBlocks = 3
    Sizes = {1, 3}
    Leafs <- OneInput
    NNodes = 2
    Shapes <- AllShapes
    MaxOutputs = 1
    SameTopology = TRUE
    AllocFails = TRUE
INVARIANT
    AlwaysInBuffer

