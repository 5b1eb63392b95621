----------------------------- MODULE MCCasStore -----------------------------
(* Model values and symmetry for checking CasStore with TLC.               *)
EXTENDS CasStore, TLC

CONSTANTS d1, d2, w1, w2, w3, i1, i2, i3, i4, i5

TwoDigests   == {d1, d2}
ThreeWriters == {w1, w2, w3}
FiveInodes   == {i1, i2, i3, i4, i5}

\* Digests, writers and inodes are interchangeable.
Symm == Permutations(Digests) \cup Permutations(Writers) \cup Permutations(Inodes)
=============================================================================
