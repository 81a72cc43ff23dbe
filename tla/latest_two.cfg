SPECIFICATION Spec
CONSTANTS
    MaxBlock = 2
    MaxForks = 2
    EmptyBlocks <- NoBlocksEmpty
    SafeMayReorg = TRUE
    Runner = {r1, r2}
    FinalityMode = "latest"
    StartBlock = 0
    BatchSize = 2
    HeadBuffer = 0
    ReorgWindow = 2
    ReorgsAnytime = TRUE
INVARIANTS
    AnchorsBackedByRows
