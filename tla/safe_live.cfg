SPECIFICATION FairSpec
CONSTANTS
    MaxBlock = 3
    MaxForks = 2
    EmptyBlocks <- NoBlocksEmpty
    SafeMayReorg = TRUE
    Runner = {r1}
    FinalityMode = "safe"
    StartBlock = 1
    BatchSize = 2
    HeadBuffer = 0
    ReorgWindow = 2
    ReorgsAnytime = FALSE
PROPERTIES
    CatchesUp
    StaleRowsRemoved
INVARIANTS
    RowsMatchAnchors
    CheckedRowsCanonical
