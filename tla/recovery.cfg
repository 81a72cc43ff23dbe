SPECIFICATION FairSpec
CONSTANTS
    i1 = i1
    i2 = i2
    Invocation = {i1, i2}
    MaxBlock = 1
    Msg = {1, 2}
    Logs <- TwoMessages
    Kept <- FirstMayRemain
    BatchSize = 2
    From <- FromZeroOrOne
    To <- CronAndManual
INVARIANTS
    TypeOK
    RecoveredBelowCheckpoint
    AssignmentsNotDuplicated
    OnlyConfirmed
PROPERTIES
    MessagesKept
    ProgressKept
    
