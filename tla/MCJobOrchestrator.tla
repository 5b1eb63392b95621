------------------------- MODULE MCJobOrchestrator -------------------------
(* Model values and symmetry for checking JobOrchestrator with TLC.        *)
EXTENDS JobOrchestrator, TLC

CONSTANTS a1, p1, p2, j1, j2

OneSource  == {a1}
OnePolicy  == {p1}
TwoPolicies == {p1, p2}
Attached   == Sources \X Policies

\* Both policies find the source due at the same time; p2 has the shorter RPO.
Daily      == [p \in Policies |-> 1]
Recovery   == [p \in Policies |-> IF p = p1 THEN 1 ELSE 0]
TwoSlots   == {j1, j2}
NoStreams  == {}

\* Slots are interchangeable; used for safety only.
Symm == Permutations(Slots)
=============================================================================
