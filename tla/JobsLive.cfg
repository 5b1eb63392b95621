SPECIFICATION LossFreeSpec
CONSTANTS
    a1 = a1
    p1 = p1
    p2 = p2
    j1 = j1
    j2 = j2
    Sources <- OneSource
    Policies <- OnePolicy
    Attachments <- Attached
    Slots <- TwoSlots
    Streams <- NoStreams
    MaxRetries = 1
    Freq <- Daily
    Rpo <- Recovery
    AgeCap = 4
PROPERTY JobsSettle
PROPERTY OverdueServed
