CONSTANTS
    Null = Null
    Key = {k1}
    Node = {n1, n2, n3}
    Threshold = 2
    MaxEpoch = 1
    MaxRuns = 3
    MaxCrashes = 1
    MaxLosses = 0
    MaxAborts = 1
    Deletes = FALSE
    ReinitWaits = FALSE
    ReshareWaits = TRUE
    Checkpoints = FALSE
    CheckpointLate = TRUE
SPECIFICATION Spec
INVARIANTS Agreement ShareMatchesPublicKey
SYMMETRY Symmetry
CHECK_DEADLOCK FALSE
