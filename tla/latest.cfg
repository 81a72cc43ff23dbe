SPECIFICATION Spec
CONSTANTS
    MaxBlock = 4
    MaxForks = 3
    EmptyBlocks <- NoBlocksEmpty
    SafeMayReorg = TRUE
    Runner = {r1}
    FinalityMode = "latest"
    StartBlock = 0
    BatchSize = 2
    HeadBuffer = 0
    ReorgWindow = 2
    ReorgsAnytime = TRUE
INVARIANTS
    TypeOK
    RowsBelowCheckpoint
    OneForkPerHeight
    AnchorsCoverUnfinalized
PROPERTIES
    RollbackIsJustified
