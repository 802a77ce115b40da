SPECIFICATION Spec
CONSTANTS
    r1 = r1
    r2 = r2
    Requests = {r1, r2}
    Body <- TwoSlots
    NSlots = 2
    NBatch = 2
    MaxNew = 2
    ContBatching = FALSE
    DecodeFails = TRUE
    LaunchFails = FALSE
INVARIANTS
    TypeOK TaskInOnePlace GenerationGoesOn NothingStranded
