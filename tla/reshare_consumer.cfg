CONSTANTS
    Null = Null
    Key = {k1}
    Node = {n1, n2, n3}
    Threshold = 2
    MaxEpoch = 2
    MaxRuns = 3
    MaxCrashes = 0
    MaxLosses = 2
    MaxAborts = 1
    Deletes = FALSE
    ReinitWaits = TRUE
    ReshareWaits = FALSE
    Checkpoints = FALSE
    CheckpointLate = TRUE
SPECIFICATION Spec
INVARIANTS ShareMatchesPublicKey
PROPERTIES ImplementsLifecycle
SYMMETRY Symmetry
CHECK_DEADLOCK FALSE
