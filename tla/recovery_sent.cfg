SPECIFICATION Spec
CONSTANTS
    i1 = i1
    i2 = i2
    Invocation = {i1}
    MaxBlock = 0
    Msg = {1}
    Logs <- OneMessage
    Kept <- FirstRemains
    BatchSize = 1
    From <- FromZero
    To <- CronOnly
INVARIANTS
    SentNotDuplicated
