SPECIFICATION Spec
CONSTANTS
    a1 = a1
    p1 = p1
    p2 = p2
    j1 = j1
    j2 = j2
    Sources <- OneSource
    Policies <- TwoPolicies
    Attachments <- Attached
    Slots <- TwoSlots
    Streams <- TwoSlots
    MaxRetries = 1
    Freq <- Daily
    Rpo <- Recovery
    AgeCap = 4
SYMMETRY Symm
INVARIANT TypeOK
INVARIANT CompletedHasSnapshot
INVARIANT FirstAttemptOnce
INVARIANT StreamTruth
