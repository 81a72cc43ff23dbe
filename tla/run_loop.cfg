SPECIFICATION FairSpec
CONSTANTS
    a = a
    b = b
    Chain = {a, b}
    Steady = {a}
    MaxHead <- Heads
    MaxForward <- Blocks
    BatchSize = 2
    HeadBuffer = 0
    PollInterval = 2
    MaxBackoff = 3
    MaxDoublings = 1
    None = None
INVARIANTS
    TypeOK
    RemainingAccounted
    BlocksCounted
PROPERTIES
    BackoffGrows
    ChainsIndependent
