---------------------- MODULE IntegrityVerifierProofs ----------------------
(***************************************************************************)
(* Proofs about IntegrityVerifier, for every number of snapshots, every    *)
(* limit per run and every interval between verifications.                 *)
(***************************************************************************)
EXTENDS IntegrityVerifier, FiniteSetTheorems, FunctionTheorems, WellFoundedInduction, TLAPS

-----------------------------------------------------------------------------
(* ORDER BY ... LIMIT.                                                     *)

Below == {ss \in Nat \X Nat : ss[1] < ss[2]}

\* A set of snapshot numbers that is not empty has a least one.
LEMMA LeastExists ==
  ASSUME NEW S, S \subseteq Nat, S # {}
  PROVE  \E m \in S : \A t \in S : m <= t
<1>1. IsWellFoundedOn(Below, Nat)
  BY NatLessThanWellFounded DEF Below, OpToRel
<1>2. PICK m \in S : \A t \in S : ~ (<<t, m>> \in Below)
  BY <1>1, WFMin
<1>3. ASSUME NEW t \in S
      PROVE  m <= t
  <2>1. m \in Nat /\ t \in Nat /\ ~ (<<t, m>> \in Below)
    BY <1>2
  <2> QED
    BY <2>1 DEF Below
<1> QED
  BY <1>3

\* The query returns no more rows than its limit: all it returns, except for
\* the oldest, are newer than the oldest.
LEMMA NewestLimited ==
  ASSUME NEW S, IsFiniteSet(S), S \subseteq Nat
  PROVE  IsFiniteSet(Newest(S)) /\ Cardinality(Newest(S)) <= Limit
<1> DEFINE N == Newest(S)
<1>1. IsFiniteSet(N)
  BY FS_Subset DEF Newest
<1>2. CASE N = {}
  BY <1>1, <1>2, FS_EmptySet, VerifierAssumption
<1>3. CASE N # {}
  <2>1. PICK m \in N : \A t \in N : m <= t
    <3>1. N \subseteq Nat
      BY DEF Newest
    <3> HIDE DEF N
    <3> QED
      BY <1>3, <3>1, LeastExists
  <2> DEFINE Above == {t \in S : t > m}
  <2>2. IsFiniteSet(Above) /\ Cardinality(Above) < Limit
    <3>1. m \in S /\ Cardinality(Above) < Limit
      BY <2>1 DEF Newest
    <3>2. Above \subseteq S
      OBVIOUS
    <3> HIDE DEF Above
    <3> QED
      BY <3>1, <3>2, FS_Subset
  <2>3. N \ {m} \subseteq Above
    <3>1. ASSUME NEW t \in N, t # m
          PROVE  t \in S /\ t > m
      <4>1. t \in S /\ m \in S /\ m <= t
        BY <2>1, <3>1 DEF Newest
      <4> HIDE DEF N
      <4> QED
        BY <3>1, <4>1
    <3> QED
      BY <3>1
  <2> HIDE DEF N, Above
  <2>4. Cardinality(N \ {m}) <= Cardinality(Above)
    BY <2>2, <2>3, FS_Subset
  <2>5. Cardinality(N \ {m}) = Cardinality(N) - 1
    BY <1>1, <2>1, FS_RemoveElement
  <2>6. Cardinality(N) \in Nat /\ Cardinality(Above) \in Nat
    BY <1>1, <2>2, FS_CardinalityType
  <2> QED
    BY <1>1, <2>2, <2>4, <2>5, <2>6, VerifierAssumption DEF N
<1> QED
  BY <1>2, <1>3

-----------------------------------------------------------------------------
(* Type correctness.                                                       *)

\* A row that is deleted drops out of the table.
LEMMA RemoveRow ==
  ASSUME NEW R, NEW q \in Seq(R), NEW s \in 1..Len(q)
  PROVE  RemoveAt(q, s) \in Seq(R) /\ Len(RemoveAt(q, s)) = Len(q) - 1
<1>1. SubSeq(q, 1, s - 1) \in Seq(R) /\ Len(SubSeq(q, 1, s - 1)) = s - 1
  OBVIOUS
<1>2. SubSeq(q, s + 1, Len(q)) \in Seq(R) /\ Len(SubSeq(q, s + 1, Len(q))) = Len(q) - s
  OBVIOUS
<1>3. ASSUME NEW a \in Seq(R), NEW b \in Seq(R)
      PROVE  a \o b \in Seq(R) /\ Len(a \o b) = Len(a) + Len(b)
  OBVIOUS
<1>4. /\ RemoveAt(q, s) \in Seq(R)
      /\ Len(RemoveAt(q, s)) = Len(SubSeq(q, 1, s - 1)) + Len(SubSeq(q, s + 1, Len(q)))
  BY <1>1, <1>2, <1>3 DEF RemoveAt
<1>5. (s - 1) + (Len(q) - s) = Len(q) - 1
  OBVIOUS
<1> QED
  BY <1>1, <1>2, <1>4, <1>5, Zenon

\* The places the run has selected move up with the rows: no more of them than
\* before, all in the shorter table.
LEMMA ShiftPlaces ==
  ASSUME NEW k \in Nat, NEW s \in 1..k, NEW P, P \subseteq 1..k, Cardinality(P) <= Limit
  PROVE  LET T == {IF t > s THEN t - 1 ELSE t : t \in P \ {s}}
         IN  T \subseteq 1..(k - 1) /\ Cardinality(T) <= Limit
<1> DEFINE Q == P \ {s}
           T == {IF t > s THEN t - 1 ELSE t : t \in Q}
           f == [t \in Q |-> IF t > s THEN t - 1 ELSE t]
<1>1. IsFiniteSet(P) /\ Cardinality(P) \in Nat
  <2>1. IsFiniteSet(1..k)
    BY FS_Interval
  <2> QED
    BY <2>1, FS_Subset, FS_CardinalityType
<1>2. IsFiniteSet(Q) /\ Cardinality(Q) <= Cardinality(P) /\ Cardinality(Q) \in Nat
  BY <1>1, FS_Subset, FS_CardinalityType
<1>3. f \in Surjection(Q, T)
  BY DEF Surjection
<1>4. IsFiniteSet(T) /\ Cardinality(T) <= Cardinality(Q)
  <2> HIDE DEF f, T, Q
  <2> QED
    BY <1>2, <1>3, FS_Surjection
<1>5. Cardinality(T) \in Nat
  BY <1>4, FS_CardinalityType
<1>6. T \subseteq 1..(k - 1)
  <2>1. ASSUME NEW t \in Q
        PROVE  (IF t > s THEN t - 1 ELSE t) \in 1..(k - 1)
    <3>1. t \in 1..k /\ t # s
      OBVIOUS
    <3> HIDE DEF Q
    <3> QED
      BY <3>1
  <2> QED
    BY <2>1
<1>7. Cardinality(T) <= Limit
  <2> HIDE DEF T, Q
  <2> QED
    BY <1>1, <1>2, <1>4, <1>5, VerifierAssumption
<1> QED
  BY <1>6, <1>7

\* No snapshot, no run.
LEMMA VerifierInit == Init => TypeOK
<1> SUFFICES ASSUME Init
             PROVE  TypeOK
  OBVIOUS
<1>1. Cardinality(vsel) = 0
  BY FS_EmptySet, Zenon DEF Init
<1>2. snaps \in Seq(SnapRec)
  BY DEF Init
<1>3. vsel \subseteq DOMAIN snaps /\ Cardinality(vsel) <= Limit
  <2>1. 0 <= Limit
    BY VerifierAssumption
  <2> QED
    BY <1>1, <2>1, Zenon DEF Init
<1>4. made \in 0..MaxNew
  <2>1. 0 \in 0..MaxNew
    BY VerifierAssumption
  <2> QED
    BY <2>1, Zenon DEF Init
<1>5. vpc \in {"idle", "run"} /\ vlost \in BOOLEAN
  BY Zenon DEF Init
<1> QED
  BY <1>2, <1>3, <1>4, <1>5, Zenon DEF TypeOK

\* Writing an outcome and letting a day pass keep a row a row.
LEMMA RowTypes ==
  ASSUME TypeOK, NEW s \in DOMAIN snaps
  PROVE  /\ snaps[s] \in SnapRec
         /\ Aged(s) \in SnapRec
         /\ [snaps[s] EXCEPT !.status = Outcome(s), !.left = Days] \in SnapRec
         /\ [snaps[s] EXCEPT !.match = FALSE] \in SnapRec
<1> USE VerifierAssumption
<1>1. snaps[s] \in SnapRec
  BY DEF TypeOK
<1>2. Aged(s) \in SnapRec
  BY <1>1 DEF Aged, SnapRec
<1>3. [snaps[s] EXCEPT !.match = FALSE] \in SnapRec
  BY <1>1 DEF SnapRec
<1>4. [snaps[s] EXCEPT !.status = Outcome(s), !.left = Days] \in SnapRec
  <2> DEFINE d == [snaps[s] EXCEPT !.status = Outcome(s)]
  <2>1. Outcome(s) \in {"none", "passed", "failed"}
    BY DEF Outcome
  <2>2. d \in SnapRec
    BY <1>1, <2>1 DEF SnapRec
  <2>3. [d EXCEPT !.left = Days] \in SnapRec
    <3> HIDE DEF d
    <3> QED
      BY <2>2 DEF SnapRec
  <2> QED
    BY <2>3
<1> QED
  BY <1>1, <1>2, <1>3, <1>4

\* A function on the places of a table is a table of the same length.
LEMMA RowsAgain ==
  ASSUME NEW R, NEW q \in Seq(R), NEW g \in [DOMAIN q -> R]
  PROVE  g \in Seq(R) /\ DOMAIN g = DOMAIN q
<1>1. DOMAIN q = 1..Len(q) /\ Len(q) \in Nat
  OBVIOUS
<1>2. g \in [1..Len(q) -> R]
  BY <1>1
<1> QED
  BY <1>1, <1>2

\* Every step keeps the types.
LEMMA VerifierStep == TypeOK /\ [Next]_vars => TypeOK'
<1> SUFFICES ASSUME TypeOK, [Next]_vars
             PROVE  TypeOK'
  OBVIOUS
<1> USE VerifierAssumption
<1>q. snaps \in Seq(SnapRec) /\ DOMAIN snaps = 1..Len(snaps) /\ Len(snaps) \in Nat
  BY DEF TypeOK
<1>1. ASSUME NEW files \in BOOLEAN, Create(files)
      PROVE  TypeOK'
  <2> DEFINE r == [files |-> files, match |-> TRUE, status |-> "none", left |-> 0]
  <2>1. r \in SnapRec
    BY DEF SnapRec
  <2>2. snaps' = Append(snaps, r) /\ made' = made + 1 /\ made < MaxNew
        /\ UNCHANGED <<vpc, vsel, vlost>>
    BY <1>1 DEF Create
  <2> HIDE DEF r
  <2>3. snaps' \in Seq(SnapRec) /\ DOMAIN snaps \subseteq DOMAIN snaps'
    BY <1>q, <2>1, <2>2
  <2>4. made' \in 0..MaxNew
    BY <2>2 DEF TypeOK
  <2> QED
    BY <2>2, <2>3, <2>4 DEF TypeOK
<1>2. ASSUME NEW s \in DOMAIN snaps, DeleteSnapshot(s)
      PROVE  TypeOK'
  <2>1. snaps' \in Seq(SnapRec) /\ Len(snaps') = Len(snaps) - 1
    BY <1>2, <1>q, RemoveRow DEF DeleteSnapshot
  <2>2. DOMAIN snaps' = 1..(Len(snaps) - 1)
    BY <2>1
  <2>3. vsel' \subseteq 1..(Len(snaps) - 1) /\ Cardinality(vsel') <= Limit
    <3>1. vsel \subseteq 1..Len(snaps) /\ Cardinality(vsel) <= Limit
      BY <1>q DEF TypeOK
    <3>2. vsel' = {IF t > s THEN t - 1 ELSE t : t \in vsel \ {s}}
      BY <1>2 DEF DeleteSnapshot
    <3> DEFINE k == Len(snaps)
               P == vsel
    <3>3. k \in Nat /\ s \in 1..k /\ P \subseteq 1..k /\ Cardinality(P) <= Limit
      BY <1>q, <3>1
    <3> HIDE DEF k, P
    <3>4. LET T == {IF t > s THEN t - 1 ELSE t : t \in P \ {s}}
          IN  T \subseteq 1..(k - 1) /\ Cardinality(T) <= Limit
      BY <3>3, ShiftPlaces, Zenon
    <3> QED
      BY <3>2, <3>4, Zenon DEF k, P
  <2>4. vlost' \in BOOLEAN /\ UNCHANGED <<made, vpc>>
    <3>1. (s \in vsel /\ snaps[s].files) \in BOOLEAN
      BY <1>q DEF SnapRec
    <3> QED
      BY <1>2, <3>1 DEF DeleteSnapshot, TypeOK
  <2> QED
    BY <2>1, <2>2, <2>3, <2>4 DEF TypeOK
<1>3. ASSUME NEW s \in DOMAIN snaps, DamageManifest(s)
      PROVE  TypeOK'
  <2> DEFINE m == [snaps[s] EXCEPT !.match = FALSE]
  <2>1. m \in SnapRec
    BY RowTypes
  <2>2. snaps' = [snaps EXCEPT ![s] = m] /\ UNCHANGED <<made, vpc, vsel, vlost>>
    BY <1>3 DEF DamageManifest
  <2> HIDE DEF m
  <2>3. snaps' \in [DOMAIN snaps -> SnapRec]
    BY <1>q, <2>1, <2>2
  <2>4. snaps' \in Seq(SnapRec) /\ DOMAIN snaps' = DOMAIN snaps
    BY <1>q, <2>3, RowsAgain
  <2> QED
    BY <2>2, <2>4 DEF TypeOK
<1>4. CASE VerifierBegin
  <2>1. Due \subseteq DOMAIN snaps /\ Due \subseteq Nat
    BY <1>q DEF Due
  <2>2. IsFiniteSet(Due)
    <3>1. IsFiniteSet(1..Len(snaps))
      BY <1>q, FS_Interval
    <3> QED
      BY <1>q, <2>1, <3>1, FS_Subset
  <2>3. Cardinality(Newest(Due)) <= Limit
    BY <2>1, <2>2, NewestLimited
  <2>4. Newest(Due) \subseteq DOMAIN snaps
    BY <2>1 DEF Newest
  <2>5. vsel' = Newest(Due) /\ vpc' = "run" /\ made' = 0 /\ UNCHANGED <<snaps, vlost>>
    BY <1>4 DEF VerifierBegin
  <2> QED
    BY <2>3, <2>4, <2>5 DEF TypeOK
<1>5. CASE VerifierCommit \/ VerifierFail
  <2>1. snaps' \in [DOMAIN snaps -> SnapRec]
    BY <1>5, RowTypes DEF VerifierCommit, VerifierFail
  <2>2. snaps' \in Seq(SnapRec) /\ DOMAIN snaps' = DOMAIN snaps
    BY <1>q, <2>1, RowsAgain
  <2>3. vpc' = "idle" /\ vsel' = {} /\ made' = made /\ (vlost' = vlost \/ vlost' = FALSE)
    BY <1>5 DEF VerifierCommit, VerifierFail
  <2>4. vsel' \subseteq DOMAIN snaps' /\ Cardinality(vsel') <= Limit
    <3>1. 0 <= Limit
      OBVIOUS
    <3>2. Cardinality(vsel') = 0
      BY <2>3, FS_EmptySet, Zenon
    <3> QED
      BY <2>3, <3>1, <3>2, Zenon
  <2>5. vpc' \in {"idle", "run"} /\ made' \in 0..MaxNew /\ vlost' \in BOOLEAN
    BY <2>3 DEF TypeOK
  <2> QED
    BY <2>2, <2>4, <2>5 DEF TypeOK
<1>6. CASE UNCHANGED vars
  BY <1>6 DEF vars, TypeOK
<1> QED
  BY <1>1, <1>2, <1>3, <1>4, <1>5, <1>6 DEF Next

\* Whatever is created, deleted or damaged and however runs fail, a run of the
\* daily verification works on existing snapshots and on at most Limit of them,
\* also when rows are deleted under it.
THEOREM TypeCorrect == Spec => []TypeOK
  BY VerifierInit, VerifierStep, PTL DEF Spec
=============================================================================
