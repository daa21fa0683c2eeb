CONSTANTS
    Null = Null
    Service = {s1, s2, s3}
    Threshold = 2
    MaxEpoch = 0
    Faulty = {s3}
    Reject = TRUE
SPECIFICATION DelegateSpec
INVARIANTS FaultsAreContained CheckedKeyIsTheNodes
PROPERTIES EvaluationEnds
