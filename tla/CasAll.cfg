SPECIFICATION Spec
CONSTANTS
    d1 = d1
    d2 = d2
    w1 = w1
    w2 = w2
    w3 = w3
    i1 = i1
    i2 = i2
    i3 = i3
    i4 = i4
    i5 = i5
    Digests <- TwoDigests
    Writers <- ThreeWriters
    Inodes <- FiveInodes
SYMMETRY Symm
INVARIANT TypeOK
INVARIANT TornHasWriter
INVARIANT AtomicWrite
PROPERTY CallsTakeEffect
