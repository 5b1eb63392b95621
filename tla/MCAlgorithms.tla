---------------------------- MODULE MCAlgorithms ----------------------------
(***************************************************************************)
(* The three pure algorithms side by side: a behaviour runs one of them,   *)
(* the variable part, and leaves the others in a fixed initial state.      *)
(***************************************************************************)
EXTENDS MerkleTree, CdcChunker, ComplianceScore

CONSTANTS
    c1, s1, s2, p1, p2,
    MaxData       \* bound: bytes chunked

VARIABLE part

\* Of a plain chunk, of the empty one, and of the one that spells these two digests.
ThreeDigests == {c1, EmptyRoot, NodeHash(c1, EmptyRoot)}
TwoBytes     == {0, 1}
TwoSources   == {s1, s2}
TwoPolicies  == {p1, p2}

\* Both sides of every threshold of the score, in every combination a source can
\* be judged by: only HIPAA reads dedup and only PCI the frequency, and no source is
\* under both, so one value stands for the two.
AllSettings ==
    {[retention |-> days, checksum |-> sum, rpo |-> m, dedup |-> b,
      frequency |-> IF b THEN 1440 ELSE 1441] :
        days \in {29, 30, 365}, sum \in BOOLEAN, m \in {1440, 1441}, b \in BOOLEAN}

\* One for each set of frameworks.
ThreeClasses == {"internal", "pii", "financial"}

ScoreIdle ==
    /\ class    = [s \in Sources |-> "internal"]
    /\ setting  = [p \in Policies |-> CHOOSE r \in Settings : TRUE]
    /\ attached = [s \in Sources |-> {}]
    /\ critical = {}

Init ==
    /\ MerkleInit
    /\ \/ part = "merkle" /\ CdcInit(<<>>) /\ ScoreIdle
       \/ part = "cdc" /\ ScoreIdle /\ \E d \in SeqOf(Bytes, MaxData) : CdcInit(d)
       \/ part = "score" /\ CdcInit(<<>>) /\ ScoreInit

Next ==
    /\ UNCHANGED part
    /\ \/ part = "merkle" /\ MerkleNext /\ UNCHANGED <<cdcVars, scoreVars>>
       \/ part = "cdc" /\ CdcNext /\ UNCHANGED <<treeVars, scoreVars>>
       \/ part = "score" /\ ScoreNext /\ UNCHANGED <<treeVars, cdcVars>>

Spec == Init /\ [][Next]_<<part, treeVars, cdcVars, scoreVars>>

Symm == Permutations(Sources) \cup Permutations(Policies)
=============================================================================
