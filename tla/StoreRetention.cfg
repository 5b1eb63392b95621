SPECIFICATION Spec
CONSTANTS
    a1 = a1
    a2 = a2
    c1 = c1
    c2 = c2
    w1 = w1
    r1 = r1
    Sources <- OneSource
    Chunks <- OneChunk
    Workers <- OneWorker
    Restores <- NoRestores
    MaxSnaps = 3
    MaxRetries = 0
SYMMETRY Symm
INVARIANT RetentionCanDelete
