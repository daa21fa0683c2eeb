CONSTANTS
    Null = Null
    Key = {k1}
    Node = {n1, n2}
    Threshold = 2
    MaxEpoch = 1
    MaxRuns = 3
    MaxCrashes = 1
    MaxLosses = 0
    MaxAborts = 1
    Deletes = TRUE
    ReinitWaits = FALSE
    ReshareWaits = FALSE
    Checkpoints = FALSE
    CheckpointLate = TRUE
SPECIFICATION LiveSpec
PROPERTIES   ImplementsLifecycle
CHECK_DEADLOCK FALSE
