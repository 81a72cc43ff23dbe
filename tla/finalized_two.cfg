SPECIFICATION Spec
CONSTANTS
    MaxBlock = 5
    MaxForks = 2
    EmptyBlocks <- SomeBlocksEmpty
    SafeMayReorg = TRUE
    Runner = {r1, r2}
    FinalityMode = "finalized"
    StartBlock = 1
    BatchSize = 2
    HeadBuffer = 1
    ReorgWindow = 2
    ReorgsAnytime = TRUE
INVARIANTS
    SettledRowsCanonical
    BelowCheckpointComplete
PROPERTIES
    ImplementsPrefix
