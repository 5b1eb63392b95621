--------------------------- MODULE MCControlPlane ---------------------------
(* Values for checking ControlPlane with TLC.                              *)
EXTENDS ControlPlane, TLC

CONSTANTS p1, a1, q1, q2

OnePolicy == {p1}
OneSource == {a1}
TwoReqs   == {q1, q2}

\* "freq" stands for the required settings, "check" and "ent" for the two kinds
\* of optional ones.
RequiredSettings == {"freq"}
FlagSettings     == {"check"}
OptionalDefaults == [k \in {"check", "ent"} |-> IF k = "check" THEN TRUE ELSE 15]

\* 60; 60.5 with the text "false" and the text "8.0"; 120 with check false; and a
\* frequency left empty.  The first two have the same frequency column, so
\* that overlapping updates can leave it to a document that says otherwise.
BaseDoc == [freq |-> Number(120)]
OddDoc  == [freq |-> Number(121), check |-> Text, ent |-> Numeral(16)]
SlowDoc == [freq |-> Number(240), check |-> Flag(FALSE)]
BadDoc  == [freq |-> Nothing, check |-> Text]
FourDocs == {BaseDoc, OddDoc, SlowDoc, BadDoc}

\* An export that its date closes, or its limit when that is reached first.
ClosedFilters == {[since |-> 0, until |-> 1, kind |-> "policy", limit |-> 2]}

Symm == Permutations(Requests)
=============================================================================
