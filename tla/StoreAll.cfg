SPECIFICATION Spec
CONSTANTS
    a1 = a1
    a2 = a2
    c1 = c1
    c2 = c2
    w1 = w1
    r1 = r1
    Sources <- TwoSources
    Chunks <- TwoChunks
    Workers <- OneWorker
    Restores <- NoRestores
    MaxSnaps = 3
    MaxRetries = 0
SYMMETRY Symm
INVARIANT TypeOK
INVARIANT RowsCoverManifest
INVARIANT ChainSafeForBackups
INVARIANT NewestKept
INVARIANT ChainWalkComplete
PROPERTY GarbageHasCause
