SPECIFICATION Spec
CONSTANTS
    Team <- MCTeam
    N = 3
    Graphs <- TwoThenThree
    NChunks = 3
    Aborts = FALSE
    Pauses = 1
INVARIANTS
    NoWorkerAccesses
