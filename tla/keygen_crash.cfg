CONSTANTS
    Null = Null
    Key = {k1}
    Node = {n1, n2}
    Threshold = 2
    MaxEpoch = 1
    MaxRuns = 2
    MaxCrashes = 2
    MaxLosses = 0
    MaxAborts = 0
    Deletes = TRUE
    ReinitWaits = TRUE
    ReshareWaits = FALSE
    Checkpoints = TRUE
    CheckpointLate = TRUE
SPECIFICATION Spec
INVARIANTS TypeOK CommittedIsStored FinalizedIsDurable NoEventSkipped DeletedIsErased
SYMMETRY Symmetry
CHECK_DEADLOCK FALSE
