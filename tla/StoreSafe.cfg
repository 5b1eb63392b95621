SPECIFICATION GuardedSpec
CONSTANTS
    a1 = a1
    a2 = a2
    c1 = c1
    c2 = c2
    w1 = w1
    r1 = r1
    Sources <- OneSource
    Chunks <- TwoChunks
    Workers <- OneWorker
    Restores <- OneRestore
    MaxSnaps = 3
    MaxRetries = 1
SYMMETRY Symm
INVARIANT RestorePinsSnapshot
INVARIANT Restorable
INVARIANT RestoreFindsChunks
PROPERTY KeepsRecoveryPoints
PROPERTY LockedSurvive
CHECK_DEADLOCK FALSE
