SPECIFICATION FairSpec
CONSTANTS
    MaxBlock = 2
    MaxForks = 2
    EmptyBlocks <- NoBlocksEmpty
    SafeMayReorg = TRUE
    Runner = {r1}
    FinalityMode = "latest"
    StartBlock = 1
    BatchSize = 2
    HeadBuffer = 0
    ReorgWindow = 2
    ReorgsAnytime = TRUE
PROPERTIES
    StaleRowsRemoved
