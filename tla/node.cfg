CONSTANTS
    Null = Null
    Conn = {c1, c2}
    SessionId = {s1}
    Key = {k1}
    MaxEpoch = 1
    SessionLifetime = 2
    HttpTimeout = 1
    ShutdownTimeout = 1
    StoreTtl = 2
    StoreTti = 2
    StoreCapacity = 0
    Threshold = 2
    MyCoeff = 2
    MaxCoeff = 3
SPECIFICATION LiveSpec
INVARIANTS SessionIdsExclusive StalenessBounded AnswersAreSound
PROPERTIES EpochsServedInOrder SessionsEnd
