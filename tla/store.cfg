SPECIFICATION Spec
CONSTANTS
    c1 = c1
    c2 = c2
    c3 = c3
    m1 = m1
    Chain = {c1, c2}
    MsgOf <- SentOn
    MsgTo <- DeliveredOn
    Payload = {c3}
    Events <- MessageEvents
    MaxBlock = 2
    MaxEvents = 2
    Hash = {1}
    B49eFrom <- FromTwo
INVARIANTS
    TypeOK
    RowsMatchIndexed
    AcceptedMatchIndexed
    SignaturesMatchIndexed
