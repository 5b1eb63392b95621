SPECIFICATION SteadySpec
CONSTANTS
    MaxSnaps = 5
    MaxNew = 1
    MaxEmpty = 1
    Limit = 3
    Days = 3
INVARIANT TypeOK
PROPERTY DamageReported
