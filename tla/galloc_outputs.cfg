SPECIFICATION Spec
CONSTANTS
    Alignment = 2
    Limit = 20
    MaxFreeBlocks = 3
    Sizes = {1, 3}
    Leafs <- OneInput
    NNodes = 3
    Shapes <- AllShapes
    MaxOutputs = 2
    SameTopology = TRUE
    AllocFails = FALSE
INVARIANT
    EveryOutputSurvives

