SPECIFICATION Spec
CONSTANTS
    p1 = p1
    a1 = a1
    q1 = q1
    q2 = q2
    PolicyIds <- OnePolicy
    SourceIds <- OneSource
    Requests <- TwoReqs
    Docs <- FourDocs
    Required <- RequiredSettings
    Flags <- FlagSettings
    Default <- OptionalDefaults
    Filters <- ClosedFilters
    MaxEvents = 4
    MaxClock = 2
SYMMETRY Symm
INVARIANT TypeOK
INVARIANT AuditAtomic
INVARIANT ExportVerifies
PROPERTY UpdateAgrees
