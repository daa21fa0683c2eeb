CONSTANTS
    Null = Null
    Key = {k1}
    Share = {s1, s2}
    Intermediate = {i1, i2}
    PublicKey = {pk1}
    MaxEpoch = 2
    MaxBlock = 1
    MaxRetries = 1
SPECIFICATION Spec
INVARIANTS StoreTypeOK RowsSatisfyCheck RetryIsTransparent ConfirmedIsReady
PROPERTIES SharesOnlyMoveForward IntermediatesStable CursorMonotone
SYMMETRY Symmetry
