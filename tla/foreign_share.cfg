CONSTANTS
    Null = Null
    Key = {k1}
    Node = {n1, n2, n3}
    Threshold = 2
    MaxEpoch = 2
    MaxRuns = 4
    MaxCrashes = 1
    MaxLosses = 0
    MaxAborts = 1
    Deletes = FALSE
    ReinitWaits = FALSE
    ReshareWaits = FALSE
    Checkpoints = FALSE
    CheckpointLate = TRUE
SPECIFICATION Spec
INVARIANTS ShareMatchesPublicKey
SYMMETRY Symmetry
CHECK_DEADLOCK FALSE
