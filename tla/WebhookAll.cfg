SPECIFICATION FairSpec
CONSTANTS
    s1 = s1
    s2 = s2
    x1 = x1
    Senders <- TwoSenders
    Deleters <- OneDeleter
    MaxEndpoints = 2
    MaxParts = 1
CHECK_DEADLOCK FALSE
INVARIANT TypeOK
INVARIANT PostRecorded
INVARIANT FanoutReachesAll
PROPERTY FanoutEnds
