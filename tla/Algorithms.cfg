SPECIFICATION Spec
CONSTANTS
    c1 = c1
    s1 = s1
    s2 = s2
    p1 = p1
    p2 = p2
    NoPolicy = NoPolicy
    Digests <- ThreeDigests
    MaxLen = 5
    Bytes <- TwoBytes
    Window = 2
    MinChunk = 3
    MaxChunk = 6
    Modulus = 2
    Poly = 5
    Word = 8
    MaxData = 10
    Sources <- TwoSources
    Policies <- TwoPolicies
    Settings <- AllSettings
    Classes <- ThreeClasses
SYMMETRY Symm
CHECK_DEADLOCK FALSE
INVARIANT DiffIsSetDifference
INVARIANT RootSeparates
INVARIANT CutsContentDefined
INVARIANT ChunksConcatenate
INVARIANT FullScoreIffClean
PROPERTY EveryFixCounts
