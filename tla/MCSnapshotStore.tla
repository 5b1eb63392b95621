-------------------------- MODULE MCSnapshotStore --------------------------
(* Model values and symmetry for checking SnapshotStore with TLC.          *)
EXTENDS SnapshotStore, TLC

CONSTANTS a1, a2, c1, c2, w1, r1

OneSource  == {a1}
TwoSources == {a1, a2}
OneChunk   == {c1}
TwoChunks  == {c1, c2}
OneWorker  == {w1}
OneRestore == {r1}
NoRestores == {}

\* Sources and chunks are interchangeable: no operator orders them.
Symm == Permutations(Sources) \cup Permutations(Chunks)
=============================================================================
