SPECIFICATION FairSpec
CONSTANTS
    r1 = r1
    r2 = r2
    Requests = {r1, r2}
    Body <- OneSlot
    NSlots = 1
    NBatch = 1
    MaxNew = 2
    ContBatching = TRUE
    DecodeFails = FALSE
    LaunchFails = FALSE
INVARIANTS
    TaskInOnePlace TasksConserved ResultsHaveReaders GenerationGoesOn NothingStranded
PROPERTIES
    Answered ComesToRest
