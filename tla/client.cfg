SPECIFICATION FairSpec
CONSTANTS
    c1 = c1
    c2 = c2
    Caller = {c1, c2}
    To = 1
    MaxAttempts = 2
    MinInterval = 2
INVARIANTS
    LogsMatchServed
    RetriesNeverLose
PROPERTIES
    RequestsSpaced
    CallsEnd
