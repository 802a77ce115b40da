SPECIFICATION FairSpec
CONSTANTS
    Team <- MCTeam
    N = 3
    Graphs <- ThreeThenFewer
    NChunks = 3
    Aborts = TRUE
    Pauses = 1
INVARIANTS
    TypeOK EveryPartOnce InputsReady NoWorkerAccesses
PROPERTIES
    PoolImplementsRounds GraphReturns FreeReturns
