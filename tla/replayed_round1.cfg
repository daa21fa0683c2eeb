CONSTANTS
    Null = Null
    Key = {k1}
    Node = {n1, n2, n3}
    Threshold = 2
    MaxEpoch = 0
    MaxRuns = 1
    MaxCrashes = 1
    MaxLosses = 0
    MaxAborts = 0
    Deletes = FALSE
    ReinitWaits = TRUE
    ReshareWaits = FALSE
    Checkpoints = FALSE
    CheckpointLate = TRUE
SPECIFICATION Spec
INVARIANTS ReplayIsSkipped
SYMMETRY Symmetry
CHECK_DEADLOCK FALSE
