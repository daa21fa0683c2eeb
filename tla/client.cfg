CONSTANTS
    Null = Null
    Service = {s1, s2, s3}
    Threshold = 2
    MaxEpoch = 1
    Faulty = {}
    Reject = TRUE
SPECIFICATION Spec
INVARIANTS HonestNodesVerify InitFailsOnlyWithoutQuorum VerdictIsOrderFree
SYMMETRY Symmetry
