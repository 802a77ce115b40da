SPECIFICATION Spec
CONSTANTS
    Alignment = 2
    Limit = 20
    MaxFreeBlocks = 3
    Sizes = {1, 3}
    Leafs <- TwoInputs
    NNodes = 3
    Shapes <- AllShapes
    MaxOutputs = 2
    SameTopology = TRUE
    AllocFails = TRUE
INVARIANTS
    HeapTiled BlocksSuffice SourcesIntact OutputsSurvive BufferHolds OwnersMatchHeap
