SPECIFICATION Spec
CONSTANTS
    r1 = r1
    r2 = r2
    Requests = {r1}
    Body <- AStream
    NSlots = 1
    NBatch = 2
    MaxNew = 2
    ContBatching = TRUE
    DecodeFails = FALSE
    LaunchFails = FALSE
INVARIANTS
    FinishedLeavesNothing
