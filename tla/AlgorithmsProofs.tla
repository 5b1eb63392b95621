-------------------------- MODULE AlgorithmsProofs --------------------------
(***************************************************************************)
(* Proofs about the pure algorithms.  CdcChunker, for every byte string,   *)
(* window, chunk sizes, polynomial and word: the chunks are those the      *)
(* definition from scratch asks for, and they join up to the data.         *)
(* ComplianceScore, for every set of sources, policies and settings: each  *)
(* violation shows in the score.  MerkleTree, for every two lists of       *)
(* digests: what diff() finds and what a root tells apart.                 *)
(***************************************************************************)
EXTENDS CdcChunker, MerkleTree, ComplianceScore, SequenceTheorems, FiniteSetTheorems, WellFoundedInduction, TLAPS

\* The loop, run on any byte string.
ChunkSpec == (\E d \in Seq(Bytes) : CdcInit(d)) /\ [][CdcNext]_cdcVars

-----------------------------------------------------------------------------
(* The inductive invariant.                                                *)

\* The chunks found so far lie end to end and reach to the one under way.
JoinInv ==
    /\ data \in Seq(Bytes)
    /\ pc \in {"outer", "forward", "scan", "done"}
    /\ start \in Nat /\ pos \in Nat /\ start <= pos /\ pos <= n
    /\ cuts \in Seq(Nat)
    /\ \A i \in 1..Len(cuts) : ChunkStart(i) <= cuts[i] /\ cuts[i] <= n
    /\ ChunkStart(Len(cuts) + 1) = IF pc \in {"outer", "done"} THEN pos ELSE start
    /\ pc = "done" => pos = n

\* Inside a chunk at least a window long, the ring buffer holds the last Window
\* bytes, the oldest at winPos, and the rolling hash is the one from scratch.
RollInv ==
    pc \in {"forward", "scan"} =>
        \/ pos = n /\ n < start + Window
        \/ /\ start + Window <= pos
           /\ winPos = pos - (start + Window)
           /\ window \in [0..(Window - 1) -> Bytes]
           /\ \A q \in (pos - Window)..(pos - 1) : window[(q - start) % Window] = data[q + 1]
           /\ h = WindowHash(pos)

\* The positions at which a chunk from there on may end.
Stops(from) ==
    {p \in (from + MinChunk + 1)..n :
        p = from + MaxChunk \/ (p < from + MaxChunk /\ WindowHash(p) % Modulus = 0)}

\* The scan has passed none.
ScanInv ==
    /\ pc = "forward" => pos <= start + MinChunk
    /\ pc = "scan" =>
          /\ pos = n \/ start + MinChunk <= pos
          /\ pos < start + MaxChunk
          /\ \A p \in Stops(start) : pos < p

CdcInv == JoinInv /\ RollInv /\ ScanInv /\ CutsContentDefined

-----------------------------------------------------------------------------
(* Induction over positions, in terms of sets.                             *)

Below == {ss \in Nat \X Nat : ss[1] < ss[2]}

\* A set that holds 0 and, with each number under m, the next one, holds 0..m.
LEMMA UpTo ==
  ASSUME NEW m \in Nat, NEW S, 0 \in S, \A k \in 0..(m - 1) : k \in S => k + 1 \in S
  PROVE  \A k \in 0..m : k \in S
<1> DEFINE Bad == {k \in 0..m : k \notin S}
<1>1. SUFFICES ASSUME Bad # {}
               PROVE  FALSE
  OBVIOUS
<1>2. Bad \subseteq Nat
  OBVIOUS
<1>3. PICK k \in Bad : \A y \in Bad : ~ (<<y, k>> \in Below)
  <2>1. IsWellFoundedOn(Below, Nat)
    BY NatLessThanWellFounded DEF Below, OpToRel
  <2> HIDE DEF Bad
  <2> QED
    BY <1>1, <1>2, <2>1, WFMin
<1>4. k \in 0..m /\ k \notin S /\ k # 0
  BY <1>3
<1>5. k - 1 \in 0..(m - 1) /\ k - 1 \in 0..m /\ <<k - 1, k>> \in Below /\ (k - 1) + 1 = k
  BY <1>4 DEF Below
<1>6. k - 1 \notin S
  BY <1>4, <1>5
<1>7. k - 1 \in Bad
  BY <1>5, <1>6
<1> QED
  BY <1>3, <1>5, <1>7

-----------------------------------------------------------------------------
(* Arithmetic modulo Word.                                                 *)

\* a and b leave the same remainder.
Cong(a, b) == \E q \in Int : a = b + q * Word

\* Division with remainder.
LEMMA Divide ==
  ASSUME NEW a \in Int, NEW m \in Nat, m > 0
  PROVE  a \div m \in Int /\ a % m \in 0..(m - 1) /\ a = m * (a \div m) + (a % m)
<1>1. a \div m \in Int
  OBVIOUS
<1>2. a % m \in 0..(m - 1)
  OBVIOUS
<1>3. a = m * (a \div m) + (a % m)
  OBVIOUS
<1> QED
  BY <1>1, <1>2, <1>3

\* The only multiple of m between -m and m is 0.
LEMMA SmallMultiple ==
  ASSUME NEW m \in Nat, m > 0, NEW q \in Int, q * m < m, - m < q * m
  PROVE  q = 0
<1>1. ASSUME q >= 1
      PROVE  FALSE
  <2>1. q - 1 \in Nat
    BY <1>1
  <2>2. (q - 1) * m >= 0
    BY <2>1
  <2>3. (q - 1) * m = q * m - m
    OBVIOUS
  <2> QED
    BY <2>2, <2>3
<1>2. ASSUME q <= -1
      PROVE  FALSE
  <2>1. (- q) - 1 \in Nat
    BY <1>2
  <2>2. ((- q) - 1) * m >= 0
    BY <2>1
  <2>3. ((- q) - 1) * m = - (q * m) - m
    OBVIOUS
  <2> QED
    BY <2>2, <2>3
<1> QED
  BY <1>1, <1>2

\* Slots of a ring buffer of m places: a place further by m is the same slot.
LEMMA RingSame ==
  ASSUME NEW a \in Nat, NEW m \in Nat, m > 0
  PROVE  (a + m) % m = a % m
<1> DEFINE q == a \div m
           r == a % m
           u == (a + m) \div m
           v == (a + m) % m
<1>1. q \in Int /\ r \in 0..(m - 1) /\ a = m * q + r
  BY Divide
<1>2. u \in Int /\ v \in 0..(m - 1) /\ a + m = m * u + v
  BY Divide, a + m \in Int
<1> HIDE DEF q, r, u, v
<1>3. v - r = (q + 1 - u) * m /\ q + 1 - u \in Int
  BY <1>1, <1>2
<1>4. v - r < m /\ - m < v - r
  BY <1>1, <1>2
<1>5. q + 1 - u = 0
  BY <1>3, <1>4, SmallMultiple
<1>6. v = r
  BY <1>1, <1>2, <1>3, <1>5
<1> QED
  BY <1>6 DEF v, r

\* Places less than m apart are different slots.
LEMMA RingApart ==
  ASSUME NEW a \in Nat, NEW b \in Nat, NEW m \in Nat, m > 0, a < b, b < a + m
  PROVE  a % m # b % m
<1> DEFINE q == a \div m
           r == a % m
           u == b \div m
           v == b % m
<1>1. q \in Int /\ r \in 0..(m - 1) /\ a = m * q + r
  BY Divide
<1>2. u \in Int /\ v \in 0..(m - 1) /\ b = m * u + v
  BY Divide
<1> HIDE DEF q, r, u, v
<1>3. ASSUME v = r
      PROVE  FALSE
  <2>1. b - a = (u - q) * m /\ u - q \in Int
    BY <1>1, <1>2, <1>3
  <2>2. u - q = 0
    BY <2>1, SmallMultiple
  <2> QED
    BY <2>1, <2>2
<1> QED
  BY <1>3 DEF v, r

\* The constants as integers.
LEMMA WordType == Word \in Nat /\ Word > 0 /\ Poly \in Nat /\ Window \in Nat /\ Window > 0
  BY ChunkerAssumption

\* A remainder is small and congruent to what it is the remainder of.
LEMMA ModCong ==
  ASSUME NEW a \in Int
  PROVE  a % Word \in 0..(Word - 1) /\ Cong(a % Word, a) /\ Cong(a, a % Word)
<1>1. a % Word \in 0..(Word - 1)
  BY WordType, Divide
<1>2. a \div Word \in Int /\ a = Word * (a \div Word) + (a % Word)
  BY WordType, Divide
<1>3. - (a \div Word) \in Int
  BY <1>2
<1>4. (a % Word) = a + (- (a \div Word)) * Word
  BY <1>1, <1>2, WordType
<1>5. a = (a % Word) + (a \div Word) * Word
  BY <1>1, <1>2, WordType
<1> QED
  BY <1>1, <1>2, <1>3, <1>4, <1>5 DEF Cong

\* Congruent remainders are equal.
LEMMA CongEq ==
  ASSUME NEW a \in 0..(Word - 1), NEW b \in 0..(Word - 1), Cong(a, b)
  PROVE  a = b
<1>1. PICK q \in Int : a = b + q * Word
  BY DEF Cong
<1>2. q * Word < Word /\ - Word < q * Word
  BY <1>1, WordType
<1>3. q = 0
  BY <1>2, WordType, SmallMultiple
<1> QED
  BY <1>1, <1>3, WordType

\* Congruence is an equivalence ...
LEMMA CongTrans ==
  ASSUME NEW a \in Int, NEW b \in Int, NEW c \in Int, Cong(a, b), Cong(b, c)
  PROVE  Cong(a, c)
<1>1. PICK q \in Int : a = b + q * Word
  BY DEF Cong
<1>2. PICK r \in Int : b = c + r * Word
  BY DEF Cong
<1>3. a = c + (q + r) * Word /\ q + r \in Int
  BY <1>1, <1>2, WordType
<1> QED
  BY <1>3 DEF Cong

\* ... reflexive ...
LEMMA CongRefl ==
  ASSUME NEW a \in Int
  PROVE  Cong(a, a)
<1>1. a = a + 0 * Word /\ 0 \in Int
  BY WordType
<1> QED
  BY <1>1 DEF Cong

\* ... and symmetric,
LEMMA CongSym ==
  ASSUME NEW a \in Int, NEW b \in Int, Cong(a, b)
  PROVE  Cong(b, a)
<1>1. PICK q \in Int : a = b + q * Word
  BY DEF Cong
<1>2. b = a + (- q) * Word /\ - q \in Int
  BY <1>1, WordType
<1> QED
  BY <1>2 DEF Cong

\* that sums and differences respect,
LEMMA CongAdd ==
  ASSUME NEW a \in Int, NEW b \in Int, NEW c \in Int, NEW d \in Int, Cong(a, b), Cong(c, d)
  PROVE  Cong(a + c, b + d) /\ Cong(a - c, b - d)
<1>1. PICK q \in Int : a = b + q * Word
  BY DEF Cong
<1>2. PICK r \in Int : c = d + r * Word
  BY DEF Cong
<1>3. a + c = (b + d) + (q + r) * Word /\ q + r \in Int
  BY <1>1, <1>2, WordType
<1>4. a - c = (b - d) + (q - r) * Word /\ q - r \in Int
  BY <1>1, <1>2, WordType
<1> QED
  BY <1>3, <1>4 DEF Cong

\* and products.
LEMMA CongMul ==
  ASSUME NEW a \in Int, NEW b \in Int, NEW c \in Int, Cong(a, b)
  PROVE  Cong(a * c, b * c) /\ Cong(c * a, c * b)
<1>1. PICK q \in Int : a = b + q * Word
  BY DEF Cong
<1>2. a * c = b * c + (q * c) * Word /\ q * c \in Int
  BY <1>1, WordType
<1>3. c * a = c * b + (q * c) * Word
  BY <1>1, WordType
<1> QED
  BY <1>2, <1>3 DEF Cong
-----------------------------------------------------------------------------
(* What the recursive definitions define.                                  *)

\* A recursion over 0..m over the numbers has a solution.
LEMMA RecursionExists ==
  ASSUME NEW m \in Nat, NEW a \in Nat, NEW F \in [(1..m) \X Nat -> Nat]
  PROVE  \E f \in [0..m -> Nat] : f[0] = a /\ \A k \in 1..m : f[k] = F[<<k, f[k - 1]>>]
<1> DEFINE Sol(j, f) == f[0] = a /\ \A k \in 1..j : f[k] = F[<<k, f[k - 1]>>]
           S == {j \in 0..m : \E f \in [0..j -> Nat] : Sol(j, f)}
<1>1. 0 \in S
  <2> DEFINE f == [k \in 0..0 |-> a]
  <2>1. f \in [0..0 -> Nat] /\ Sol(0, f)
    OBVIOUS
  <2>2. 0 \in 0..m
    OBVIOUS
  <2> HIDE DEF f, Sol
  <2> QED
    BY <2>1, <2>2
<1>2. ASSUME NEW j \in 0..(m - 1), j \in S
      PROVE  j + 1 \in S
  <2>1. PICK f \in [0..j -> Nat] : Sol(j, f)
    BY <1>2
  <2> DEFINE v == F[<<j + 1, f[j]>>]
             g == [k \in 0..(j + 1) |-> IF k = j + 1 THEN v ELSE f[k]]
  <2>2. v \in Nat
    BY <2>1
  <2>3. g \in [0..(j + 1) -> Nat]
    <3> HIDE DEF v
    <3> QED
      BY <2>2
  <2>4. \A k \in 0..j : g[k] = f[k]
    OBVIOUS
  <2>5. g[j + 1] = F[<<j + 1, g[j]>>]
    <3>1. g[j] = f[j] /\ g[j + 1] = v
      OBVIOUS
    <3> HIDE DEF g
    <3> QED
      BY <3>1
  <2>6. Sol(j + 1, g)
    <3>1. ASSUME NEW k \in 1..(j + 1)
          PROVE  g[k] = F[<<k, g[k - 1]>>]
      <4>1. CASE k = j + 1
        BY <2>5, <4>1
      <4>2. CASE k \in 1..j
        <5>1. g[k] = f[k] /\ g[k - 1] = f[k - 1]
          BY <2>4, <4>2
        <5> HIDE DEF g
        <5> QED
          BY <2>1, <4>2, <5>1
      <4> QED
        BY <4>1, <4>2
    <3>2. g[0] = a
      BY <2>1
    <3> HIDE DEF g
    <3> QED
      BY <3>1, <3>2
  <2>7. j + 1 \in 0..m
    OBVIOUS
  <2> HIDE DEF g, Sol
  <2> QED
    BY <2>3, <2>6, <2>7
<1>3. m \in S
  <2> HIDE DEF S
  <2> QED
    BY <1>1, <1>2, UpTo
<1> QED
  BY <1>3

\* H is the table WindowHash builds for the bytes of d before position p.
IsHash(d, p, H) ==
    H = [k \in 0..Window |-> IF k = 0 THEN 0 ELSE H[k - 1] * Poly + d[p - Window + k]]

\* The bytes of a string are numbers.
LEMMA ByteType ==
  ASSUME NEW d \in Seq(Bytes), NEW i \in 1..Len(d)
  PROVE  d[i] \in Bytes /\ d[i] \in Nat
<1>1. d[i] \in Bytes
  OBVIOUS
<1> QED
  BY <1>1, ChunkerAssumption

\* WindowHash is what its table ends with.
LEMMA WindowHashIs ==
  ASSUME data \in Seq(Bytes), NEW p \in Window..n
  PROVE  \E H : IsHash(data, p, H) /\ WindowHash(p) = H[Window] % Word
<1> DEFINE Table(H) == [k \in 0..Window |->
                          IF k = 0 THEN 0 ELSE H[k - 1] * Poly + data[p - Window + k]]
           F == [x \in (1..Window) \X Nat |-> x[2] * Poly + data[p - Window + x[1]]]
<1>0. n \in Nat /\ p \in Nat /\ p <= n
  BY WordType DEF n
<1>1. \A k \in 1..Window : data[p - Window + k] \in Nat
  <2>1. \A k \in 1..Window : p - Window + k \in 1..Len(data)
    BY <1>0, WordType DEF n
  <2> QED
    BY <2>1, ByteType
<1>2. F \in [(1..Window) \X Nat -> Nat]
  <2>1. ASSUME NEW x \in (1..Window) \X Nat
        PROVE  x[2] * Poly + data[p - Window + x[1]] \in Nat
    <3>1. x[1] \in 1..Window /\ x[2] \in Nat
      OBVIOUS
    <3>2. x[2] * Poly \in Nat
      BY <3>1, WordType
    <3>3. data[p - Window + x[1]] \in Nat
      BY <1>1, <3>1
    <3> QED
      BY <3>2, <3>3
  <2> QED
    BY <2>1
<1>3. PICK f \in [0..Window -> Nat] : f[0] = 0 /\ \A k \in 1..Window : f[k] = F[<<k, f[k - 1]>>]
  <2> HIDE DEF F
  <2>1. Window \in Nat /\ 0 \in Nat
    BY WordType
  <2> QED
    BY <1>2, <2>1, RecursionExists
<1>4. ASSUME NEW k \in 1..Window
      PROVE  f[k] = f[k - 1] * Poly + data[p - Window + k]
  <2>1. <<k, f[k - 1]>> \in (1..Window) \X Nat
    BY <1>3, WordType
  <2>2. F[<<k, f[k - 1]>>] = f[k - 1] * Poly + data[p - Window + k]
    BY <2>1
  <2> HIDE DEF F
  <2> QED
    BY <1>3, <2>2
<1>5. f = Table(f)
  <2> HIDE DEF F
  <2>1. \A k \in 0..Window : f[k] = Table(f)[k]
    BY <1>3, <1>4
  <2> QED
    BY <1>3, <2>1
<1> DEFINE g == CHOOSE H : H = Table(H)
<1>6. g = Table(g)
  <2> HIDE DEF Table
  <2> QED
    BY <1>5
<1>7. WindowHash(p) = g[Window] % Word
  BY DEF WindowHash
<1>8. IsHash(data, p, g)
  BY <1>6 DEF IsHash
<1> QED
  BY <1>7, <1>8

\* The entries of such a table, one by one; they are numbers.
LEMMA HashTable ==
  ASSUME NEW d \in Seq(Bytes), NEW p \in Window..Len(d), NEW H, IsHash(d, p, H)
  PROVE  /\ H[0] = 0
         /\ \A k \in 1..Window : H[k] = H[k - 1] * Poly + d[p - Window + k]
         /\ \A k \in 0..Window : H[k] \in Nat
<1>0. p \in Nat /\ p <= Len(d) /\ Len(d) \in Nat
  BY WordType
<1>1. H[0] = 0 /\ \A k \in 1..Window : H[k] = H[k - 1] * Poly + d[p - Window + k]
  BY WordType DEF IsHash
<1>2. \A k \in 1..Window : d[p - Window + k] \in Nat
  <2>1. \A k \in 1..Window : p - Window + k \in 1..Len(d)
    BY <1>0, WordType
  <2> QED
    BY <2>1, ByteType
<1> DEFINE S == {k \in 0..Window : H[k] \in Nat}
<1>3. 0 \in S
  BY <1>1, WordType
<1>4. ASSUME NEW k \in 0..(Window - 1), k \in S
      PROVE  k + 1 \in S
  <2>1. k + 1 \in 1..Window /\ k + 1 \in 0..Window /\ (k + 1) - 1 = k
    BY WordType
  <2>2. H[k + 1] = H[k] * Poly + d[p - Window + (k + 1)]
    BY <1>1, <2>1
  <2>3. d[p - Window + (k + 1)] \in Nat /\ H[k] \in Nat
    BY <1>2, <1>4, <2>1
  <2>4. H[k] * Poly \in Nat
    BY <2>3, WordType
  <2> QED
    BY <2>1, <2>2, <2>3, <2>4
<1>5. \A k \in 0..Window : k \in S
  <2> HIDE DEF S
  <2> QED
    BY <1>3, <1>4, WordType, UpTo
<1> QED
  BY <1>1, <1>5
\* The powers of the polynomial, reduced at each step.
LEMMA PowerTable ==
  /\ Power[0] = 1 % Word
  /\ \A k \in 1..Window : Power[k] = (Power[k - 1] * Poly) % Word
  /\ \A k \in 0..Window : Power[k] \in Nat
<1> DEFINE Table(P) == [k \in 0..Window |->
                          IF k = 0 THEN 1 % Word ELSE (P[k - 1] * Poly) % Word]
           F == [x \in (1..Window) \X Nat |-> (x[2] * Poly) % Word]
<1>r. \A a \in Nat : a % Word \in Nat
  BY WordType, Divide
<1>1. F \in [(1..Window) \X Nat -> Nat]
  <2>1. ASSUME NEW x \in (1..Window) \X Nat
        PROVE  (x[2] * Poly) % Word \in Nat
    <3>1. x[2] * Poly \in Nat
      BY WordType
    <3> QED
      BY <1>r, <3>1
  <2> QED
    BY <2>1
<1>2. 1 % Word \in Nat
  BY <1>r
<1>3. PICK f \in [0..Window -> Nat] :
         f[0] = 1 % Word /\ \A k \in 1..Window : f[k] = F[<<k, f[k - 1]>>]
  <2> HIDE DEF F
  <2> QED
    BY <1>1, <1>2, WordType, RecursionExists
<1>4. ASSUME NEW k \in 1..Window
      PROVE  f[k] = (f[k - 1] * Poly) % Word
  <2>1. <<k, f[k - 1]>> \in (1..Window) \X Nat
    BY <1>3, WordType
  <2>2. F[<<k, f[k - 1]>>] = (f[k - 1] * Poly) % Word
    BY <2>1
  <2> HIDE DEF F
  <2> QED
    BY <1>3, <2>2
<1>5. f = Table(f)
  <2> HIDE DEF F
  <2>1. \A k \in 0..Window : f[k] = Table(f)[k]
    BY <1>3, <1>4
  <2> QED
    BY <1>3, <2>1
<1>6. Power = Table(Power)
  <2>1. Power = CHOOSE P : P = Table(P)
    BY DEF Power
  <2> HIDE DEF Table
  <2> QED
    BY <1>5, <2>1
<1>7. Power[0] = 1 % Word /\ \A k \in 1..Window : Power[k] = (Power[k - 1] * Poly) % Word
  BY <1>6, WordType
<1> DEFINE S == {k \in 0..Window : Power[k] \in Nat}
<1>8. 0 \in S
  BY <1>2, <1>7, WordType
<1>9. ASSUME NEW k \in 0..(Window - 1), k \in S
      PROVE  k + 1 \in S
  <2>1. k + 1 \in 1..Window /\ k + 1 \in 0..Window /\ (k + 1) - 1 = k
    BY WordType
  <2>2. Power[k + 1] = (Power[k] * Poly) % Word
    BY <1>7, <2>1
  <2>3. Power[k] * Poly \in Nat
    BY <1>9, WordType
  <2> QED
    BY <1>r, <2>1, <2>2, <2>3
<1>10. \A k \in 0..Window : k \in S
  <2> HIDE DEF S
  <2> QED
    BY <1>8, <1>9, WordType, UpTo
<1> QED
  BY <1>7, <1>10

\* SeedHash, where there is a window to hash, ends its table; the entries.
LEMMA SeedHashIs ==
  ASSUME data \in Seq(Bytes), NEW p \in Nat, p + Window <= n
  PROVE  \E H : /\ SeedHash(p) = H[Window]
                /\ H[0] = 0
                /\ \A k \in 1..Window : H[k] = (H[k - 1] * Poly + data[p + k]) % Word
                /\ \A k \in 0..Window : H[k] \in 0..(Word - 1)
<1> DEFINE Table(H) == [k \in 0..Window |->
                          IF k = 0 THEN 0 ELSE (H[k - 1] * Poly + data[p + k]) % Word]
           F == [x \in (1..Window) \X Nat |-> (x[2] * Poly + data[p + x[1]]) % Word]
<1>0. n \in Nat
  BY DEF n
<1>r. \A a \in Nat : a % Word \in 0..(Word - 1) /\ a % Word \in Nat
  BY WordType, Divide
<1>1. \A k \in 1..Window : data[p + k] \in Nat
  <2>1. \A k \in 1..Window : p + k \in 1..Len(data)
    BY <1>0, WordType DEF n
  <2> QED
    BY <2>1, ByteType
<1>t. ASSUME NEW k \in 1..Window, NEW a \in Nat
      PROVE  a * Poly + data[p + k] \in Nat
  <2>1. a * Poly \in Nat
    BY WordType
  <2> QED
    BY <1>1, <2>1
<1>2. F \in [(1..Window) \X Nat -> Nat]
  <2>1. ASSUME NEW x \in (1..Window) \X Nat
        PROVE  (x[2] * Poly + data[p + x[1]]) % Word \in Nat
    <3>1. x[1] \in 1..Window /\ x[2] \in Nat
      OBVIOUS
    <3> QED
      BY <1>r, <1>t, <3>1
  <2> QED
    BY <2>1
<1>3. PICK f \in [0..Window -> Nat] : f[0] = 0 /\ \A k \in 1..Window : f[k] = F[<<k, f[k - 1]>>]
  <2> HIDE DEF F
  <2>1. Window \in Nat /\ 0 \in Nat
    BY WordType
  <2> QED
    BY <1>2, <2>1, RecursionExists
<1>4. ASSUME NEW k \in 1..Window
      PROVE  f[k] = (f[k - 1] * Poly + data[p + k]) % Word
  <2>1. <<k, f[k - 1]>> \in (1..Window) \X Nat
    BY <1>3, WordType
  <2>2. F[<<k, f[k - 1]>>] = (f[k - 1] * Poly + data[p + k]) % Word
    BY <2>1
  <2> HIDE DEF F
  <2> QED
    BY <1>3, <2>2
<1>5. f = Table(f)
  <2> HIDE DEF F
  <2>1. \A k \in 0..Window : f[k] = Table(f)[k]
    BY <1>3, <1>4
  <2> QED
    BY <1>3, <2>1
<1> DEFINE g == CHOOSE H : H = Table(H)
<1>6. g = Table(g)
  <2> HIDE DEF Table
  <2> QED
    BY <1>5
<1>7. SeedHash(p) = g[Window]
  <2>1. Smaller(Window, n - p) = Window
    BY <1>0, WordType DEF Smaller
  <2> QED
    BY <2>1 DEF SeedHash
<1> HIDE DEF g, F
<1>8. g[0] = 0 /\ \A k \in 1..Window : g[k] = (g[k - 1] * Poly + data[p + k]) % Word
  BY <1>6, WordType
<1> DEFINE S == {k \in 0..Window : g[k] \in 0..(Word - 1)}
<1>9. 0 \in S
  BY <1>8, WordType
<1>10. ASSUME NEW k \in 0..(Window - 1), k \in S
       PROVE  k + 1 \in S
  <2>1. k + 1 \in 1..Window /\ k + 1 \in 0..Window /\ (k + 1) - 1 = k
    BY WordType
  <2>2. g[k + 1] = (g[k] * Poly + data[p + (k + 1)]) % Word
    BY <1>8, <2>1
  <2>3. g[k] \in Nat
    BY <1>10, WordType
  <2> QED
    BY <1>r, <1>t, <2>1, <2>2, <2>3
<1>11. \A k \in 0..Window : k \in S
  <2> HIDE DEF S
  <2> QED
    BY <1>9, <1>10, WordType, UpTo
<1> QED
  BY <1>7, <1>8, <1>11
-----------------------------------------------------------------------------
(* The rolling hash.                                                       *)

\* A chunk begins with the hash of its first bytes.
LEMMA SeedIsWindow ==
  ASSUME data \in Seq(Bytes), NEW p \in Nat, p + Window <= n
  PROVE  SeedHash(p) = WindowHash(p + Window)
<1>0. n \in Nat /\ p + Window \in Window..n
  BY WordType DEF n
<1>1. PICK G : /\ SeedHash(p) = G[Window]
               /\ G[0] = 0
               /\ \A k \in 1..Window : G[k] = (G[k - 1] * Poly + data[p + k]) % Word
               /\ \A k \in 0..Window : G[k] \in 0..(Word - 1)
  BY SeedHashIs
<1>2. PICK H : IsHash(data, p + Window, H) /\ WindowHash(p + Window) = H[Window] % Word
  BY <1>0, WindowHashIs
<1>3. /\ H[0] = 0
      /\ \A k \in 1..Window : H[k] = H[k - 1] * Poly + data[(p + Window) - Window + k]
      /\ \A k \in 0..Window : H[k] \in Nat
  BY <1>0, <1>2, HashTable DEF n
<1>4. \A k \in 1..Window : data[p + k] \in Nat
  <2>1. \A k \in 1..Window : p + k \in 1..Len(data)
    BY <1>0, WordType DEF n
  <2> QED
    BY <2>1, ByteType
<1> DEFINE S == {k \in 0..Window : Cong(G[k], H[k])}
<1>5. 0 \in S
  BY <1>1, <1>3, CongRefl, WordType
<1>6. ASSUME NEW k \in 0..(Window - 1), k \in S
      PROVE  k + 1 \in S
  <2>1. k + 1 \in 1..Window /\ k + 1 \in 0..Window /\ (k + 1) - 1 = k /\ k \in 0..Window
    BY WordType
  <2> DEFINE b == data[p + (k + 1)]
             x == G[k] * Poly + b
             y == H[k] * Poly + b
  <2>2. G[k + 1] = x % Word
    BY <1>1, <2>1
  <2>3. H[k + 1] = y
    <3>1. (p + Window) - Window + (k + 1) = p + (k + 1)
      BY WordType
    <3> QED
      BY <1>3, <2>1, <3>1
  <2>4. b \in Int /\ G[k] \in Int /\ H[k] \in Int /\ Poly \in Int
    <3>1. b \in Nat
      BY <1>4, <2>1
    <3>2. G[k] \in 0..(Word - 1) /\ H[k] \in Nat
      BY <1>1, <1>3, <2>1
    <3> QED
      BY <3>1, <3>2, WordType
  <2>5. G[k] * Poly \in Int /\ H[k] * Poly \in Int
    BY <2>4
  <2> HIDE DEF b
  <2>6. Cong(G[k] * Poly, H[k] * Poly)
    BY <1>6, <2>4, CongMul
  <2>7. Cong(b, b)
    BY <2>4, CongRefl
  <2>8. Cong(x, y)
    BY <2>4, <2>5, <2>6, <2>7, CongAdd
  <2>9. x \in Int /\ y \in Int
    BY <2>4, <2>5
  <2> HIDE DEF x, y
  <2>10. Cong(x % Word, x) /\ x % Word \in Int
    BY <2>9, ModCong, WordType
  <2>11. Cong(x % Word, y)
    BY <2>8, <2>9, <2>10, CongTrans
  <2> QED
    BY <2>1, <2>2, <2>3, <2>11
<1>7. \A k \in 0..Window : k \in S
  <2> HIDE DEF S
  <2> QED
    BY <1>5, <1>6, WordType, UpTo
<1>8. Window \in 0..Window
  BY WordType
<1>9. Cong(G[Window], H[Window]) /\ G[Window] \in 0..(Word - 1) /\ H[Window] \in Nat
  BY <1>1, <1>3, <1>7, <1>8
<1>h. H[Window] \in Int
  BY <1>9
<1>10. H[Window] % Word \in 0..(Word - 1) /\ Cong(H[Window], H[Window] % Word)
  BY <1>h, ModCong
<1>11. Cong(G[Window], H[Window] % Word)
  BY <1>9, <1>10, CongTrans, WordType
<1>12. G[Window] = H[Window] % Word
  BY <1>9, <1>10, <1>11, CongEq
<1> QED
  BY <1>1, <1>2, <1>12

\* One byte further, the table of the window is the old one shifted, less the
\* byte that has left times a power of the polynomial.
LEMMA Shifted ==
  ASSUME NEW d \in Seq(Bytes), NEW p \in Window..(Len(d) - 1),
         NEW H, IsHash(d, p, H), NEW G, IsHash(d, p + 1, G)
  PROVE  \A k \in 0..(Window - 1) : Cong(G[k], H[k + 1] - d[p - Window + 1] * Power[k])
<1> DEFINE o == d[p - Window + 1]
<1>0. /\ p \in Nat /\ Len(d) \in Nat /\ p + 1 \in Window..Len(d) /\ p \in Window..Len(d)
      /\ p - Window + 1 \in 1..Len(d)
  BY WordType
<1>1. /\ H[0] = 0
      /\ \A k \in 1..Window : H[k] = H[k - 1] * Poly + d[p - Window + k]
      /\ \A k \in 0..Window : H[k] \in Nat
  BY <1>0, HashTable
<1>2. /\ G[0] = 0
      /\ \A k \in 1..Window : G[k] = G[k - 1] * Poly + d[(p + 1) - Window + k]
      /\ \A k \in 0..Window : G[k] \in Nat
  BY <1>0, HashTable
<1>3. o \in Int
  BY <1>0, ByteType
<1>b. \A k \in 1..Window : d[p - Window + k] \in Nat
  <2>1. \A k \in 1..Window : p - Window + k \in 1..Len(d)
    BY <1>0, WordType
  <2> QED
    BY <2>1, ByteType
<1> DEFINE S == {k \in 0..(Window - 1) : Cong(G[k], H[k + 1] - o * Power[k])}
<1>4. 0 \in S
  <2>1. H[1] = o
    <3>1. H[1] = H[0] * Poly + o /\ 0 * Poly = 0
      BY <1>1, WordType
    <3> QED
      BY <1>1, <1>3, <3>1
  <2>2. Cong(1, Power[0]) /\ Power[0] \in Int
    BY PowerTable, ModCong, WordType
  <2> DEFINE w == Power[0]
  <2> HIDE DEF o, w
  <2>3. Cong(o, o * w) /\ o * w \in Int
    <3>1. w \in Int /\ Cong(1, w)
      BY <2>2 DEF w
    <3>2. PICK q \in Int : 1 = w + q * Word
      BY <3>1 DEF Cong
    <3>3. o = o * w + (o * q) * Word /\ o * q \in Int /\ o * w \in Int
      <4>1. o * 1 = o * (w + q * Word)
        BY <3>2
      <4>2. o * (w + q * Word) = o * w + (o * q) * Word
        BY <1>3, <3>1, <3>2, WordType
      <4> QED
        BY <1>3, <3>1, <3>2, <4>1, <4>2
    <3> QED
      BY <3>3 DEF Cong
  <2>4. Cong(o, o)
    BY <1>3, CongRefl
  <2>5. Cong(o - o, o - o * w)
    BY <1>3, <2>3, <2>4, CongAdd
  <2>6. o - o = 0
    BY <1>3
  <2> QED
    BY <1>2, <2>1, <2>5, <2>6, WordType DEF o, w
<1>5. ASSUME NEW k \in 0..((Window - 1) - 1), k \in S
      PROVE  k + 1 \in S
  <2>1. /\ k \in 0..Window /\ k + 1 \in 1..Window /\ k + 2 \in 1..Window /\ k + 1 \in 0..Window
        /\ k + 1 \in 0..(Window - 1) /\ (k + 1) - 1 = k /\ (k + 2) - 1 = k + 1
        /\ (k + 1) + 1 = k + 2 /\ k + 2 \in 0..Window
    BY WordType
  <2> DEFINE b == d[p - Window + (k + 2)]
             u == H[k + 1]
             w == Power[k]
             z == Power[k + 1]
  <2>2. G[k + 1] = G[k] * Poly + b
    <3>1. (p + 1) - Window + (k + 1) = p - Window + (k + 2)
      BY <1>0, WordType
    <3> QED
      BY <1>2, <2>1, <3>1
  <2>3. H[k + 2] = u * Poly + b
    BY <1>1, <2>1
  <2>4. z = (w * Poly) % Word
    BY <2>1, PowerTable
  <2>5. /\ b \in Int /\ u \in Int /\ w \in Int /\ z \in Int /\ G[k] \in Int /\ Poly \in Int
        /\ o \in Int
    <3>1. b \in Nat /\ u \in Nat /\ G[k] \in Nat
      BY <1>1, <1>2, <1>b, <2>1
    <3>2. w \in Nat /\ z \in Nat
      BY <2>1, PowerTable
    <3> HIDE DEF b, u, w, z, o
    <3> QED
      BY <1>3, <3>1, <3>2, WordType
  <2>6. Cong(G[k], u - o * w)
    BY <1>5
  <2> HIDE DEF b, u, w, z, o
  <2>a. o * w \in Int /\ u - o * w \in Int /\ w * Poly \in Int /\ G[k] * Poly \in Int
    BY <2>5
  <2>b. (u - o * w) * Poly \in Int
    BY <2>5, <2>a
  <2>7. Cong(G[k] * Poly, (u - o * w) * Poly)
    BY <2>5, <2>6, <2>a, CongMul
  <2>8. Cong(G[k] * Poly + b, (u - o * w) * Poly + b)
    BY <2>5, <2>7, <2>a, <2>b, CongRefl, CongAdd
  <2>9. (u - o * w) * Poly + b = (u * Poly + b) - o * (w * Poly)
    BY <1>3, <2>5
  <2>10. Cong(w * Poly, z) /\ w * Poly \in Int
    BY <2>4, <2>a, ModCong
  <2>c. o * (w * Poly) \in Int /\ o * z \in Int
    BY <2>5, <2>a
  <2>11. Cong(o * (w * Poly), o * z) /\ o * (w * Poly) \in Int /\ o * z \in Int
    BY <2>5, <2>10, <2>c, CongMul
  <2>12. u * Poly + b \in Int /\ G[k] * Poly + b \in Int
    BY <2>5
  <2>13. Cong((u * Poly + b) - o * (w * Poly), (u * Poly + b) - o * z)
    BY <2>11, <2>12, CongRefl, CongAdd
  <2>14. Cong(G[k] * Poly + b, (u * Poly + b) - o * z)
    BY <2>8, <2>9, <2>11, <2>12, <2>13, CongTrans
  <2>15. Cong(G[k + 1], H[(k + 1) + 1] - o * Power[k + 1])
    BY <2>1, <2>2, <2>3, <2>14 DEF z
  <2> QED
    BY <2>1, <2>15 DEF o
<1>6. \A k \in 0..(Window - 1) : k \in S
  <2>1. Window - 1 \in Nat
    BY WordType
  <2> HIDE DEF S
  <2> QED
    BY <1>4, <1>5, <2>1, UpTo
<1> QED
  BY <1>6
\* Rolling the hash of a window over the next byte gives the hash of the window
\* one byte further, though every operation is reduced modulo Word.
LEMMA RolledHash ==
  ASSUME data \in Seq(Bytes), NEW p \in Window..(n - 1)
  PROVE  (WindowHash(p) * Poly - OutTable(data[p - Window + 1]) + data[p + 1]) % Word
            = WindowHash(p + 1)
<1>0. /\ n \in Nat /\ p \in Nat /\ p \in Window..n /\ p + 1 \in Window..n
      /\ p - Window + 1 \in 1..Len(data) /\ p + 1 \in 1..Len(data)
      /\ p \in Window..(Len(data) - 1) /\ n = Len(data)
  BY WordType DEF n
<1>1. PICK H : IsHash(data, p, H) /\ WindowHash(p) = H[Window] % Word
  BY <1>0, WindowHashIs
<1>2. PICK G : IsHash(data, p + 1, G) /\ WindowHash(p + 1) = G[Window] % Word
  BY <1>0, WindowHashIs
<1> DEFINE o  == data[p - Window + 1]
           in == data[p + 1]
           u  == H[Window]
           g  == G[Window - 1]
           w  == Power[Window - 1]
           z  == Power[Window]
<1>w. Window \in 1..Window /\ Window \in 0..Window /\ Window - 1 \in 0..Window
      /\ Window - 1 \in 0..(Window - 1) /\ (Window - 1) + 1 = Window
  BY WordType
<1>3. Cong(g, u - o * w)
  BY <1>0, <1>1, <1>2, <1>w, Shifted
<1>4. G[Window] = g * Poly + in
  <2>1. \A k \in 1..Window : G[k] = G[k - 1] * Poly + data[(p + 1) - Window + k]
    BY <1>0, <1>2, HashTable
  <2>2. (p + 1) - Window + Window = p + 1
    BY <1>0, WordType
  <2> QED
    BY <1>w, <2>1, <2>2
<1>5. z = (w * Poly) % Word
  BY <1>w, PowerTable
<1>6. u \in Nat /\ g \in Nat /\ w \in Nat /\ z \in Nat /\ o \in Nat /\ in \in Nat
  <2>1. u \in Nat
    BY <1>0, <1>1, <1>w, HashTable
  <2>2. g \in Nat
    BY <1>0, <1>2, <1>w, HashTable
  <2>3. o \in Nat /\ in \in Nat
    BY <1>0, ByteType
  <2> QED
    BY <1>w, <2>1, <2>2, <2>3, PowerTable
<1>7. OutTable(o) = (o * z) % Word
  BY DEF OutTable
<1> DEFINE hp == u % Word
           out == (o * z) % Word
           X == hp * Poly - out + in
           Y == (u * Poly - o * z) + in
<1> HIDE DEF o, in, u, g, w, z
<1>8. /\ u \in Int /\ g \in Int /\ w \in Int /\ z \in Int /\ o \in Int /\ in \in Int
      /\ Poly \in Int
  BY <1>6, WordType
<1>9. /\ o * w \in Int /\ o * z \in Int /\ w * Poly \in Int /\ u * Poly \in Int
      /\ g * Poly \in Int
  BY <1>8
<1>10. u - o * w \in Int /\ o * (w * Poly) \in Int /\ u * Poly - o * z \in Int /\ Y \in Int
  BY <1>8, <1>9
<1>11. (u - o * w) * Poly \in Int /\ g * Poly + in \in Int
  BY <1>8, <1>9, <1>10
<1>12. Cong(g * Poly + in, Y)
  <2>1. Cong(g * Poly, (u - o * w) * Poly)
    BY <1>3, <1>8, <1>10, CongMul
  <2>2. (u - o * w) * Poly = u * Poly - o * (w * Poly)
    BY <1>8
  <2>3. Cong(w * Poly, z)
    BY <1>5, <1>9, ModCong
  <2>4. Cong(o * (w * Poly), o * z)
    BY <1>8, <1>9, <2>3, CongMul
  <2>5. Cong(u * Poly - o * (w * Poly), u * Poly - o * z)
    BY <1>9, <1>10, <2>4, CongRefl, CongAdd
  <2>6. Cong(g * Poly, u * Poly - o * z)
    BY <1>9, <1>10, <1>11, <2>1, <2>2, <2>5, CongTrans
  <2> QED
    BY <1>8, <1>9, <1>10, <2>6, CongRefl, CongAdd
<1>13. hp \in Int /\ out \in Int /\ hp * Poly \in Int /\ hp * Poly - out \in Int /\ X \in Int
  <2>1. hp \in Int /\ out \in Int
    BY <1>8, <1>9, ModCong, WordType
  <2> HIDE DEF hp, out
  <2>2. hp * Poly \in Int
    BY <1>8, <2>1
  <2> QED
    BY <1>8, <2>1, <2>2
<1>14. Cong(X, Y)
  <2>1. Cong(hp, u)
    BY <1>8, ModCong
  <2>2. Cong(out, o * z)
    BY <1>9, ModCong
  <2> HIDE DEF hp, out
  <2>3. Cong(hp * Poly, u * Poly)
    BY <1>8, <1>13, <2>1, CongMul
  <2>4. Cong(hp * Poly - out, u * Poly - o * z)
    BY <1>9, <1>13, <2>2, <2>3, CongAdd
  <2> QED
    BY <1>8, <1>10, <1>13, <2>4, CongRefl, CongAdd
<1> DEFINE g1 == g * Poly + in
<1> HIDE DEF hp, out, X, Y, g1
<1>15. X % Word = g1 % Word
  <2>0. g1 \in Int /\ Cong(g1, Y)
    BY <1>11, <1>12 DEF g1
  <2>1. X % Word \in 0..(Word - 1) /\ Cong(X % Word, X)
    BY <1>13, ModCong
  <2>2. g1 % Word \in 0..(Word - 1) /\ Cong(g1, g1 % Word)
    BY <2>0, ModCong
  <2>3. X % Word \in Int /\ g1 % Word \in Int
    BY <2>1, <2>2, WordType
  <2>4. Cong(Y, g1)
    BY <1>10, <2>0, CongSym
  <2>5. Cong(X % Word, Y)
    BY <1>10, <1>13, <1>14, <2>1, <2>3, CongTrans
  <2>6. Cong(X % Word, g1)
    BY <1>10, <2>0, <2>3, <2>4, <2>5, CongTrans
  <2>7. Cong(X % Word, g1 % Word)
    BY <2>0, <2>2, <2>3, <2>6, CongTrans
  <2> QED
    BY <2>1, <2>2, <2>7, CongEq
<1> QED
  BY <1>1, <1>2, <1>4, <1>7, <1>15 DEF g1, X, hp, out, o, in, u
-----------------------------------------------------------------------------
(* The chunks lie end to end.                                              *)

\* Nothing is cut yet.
LEMMA JoinInit ==
  ASSUME NEW d \in Seq(Bytes), CdcInit(d)
  PROVE  JoinInv
<1>1. /\ data \in Seq(Bytes) /\ n \in Nat /\ pc = "outer" /\ start = 0 /\ pos = 0 /\ cuts = <<>>
      /\ Len(cuts) = 0 /\ cuts \in Seq(Nat)
  BY DEF CdcInit, n
<1> QED
  BY <1>1 DEF JoinInv, ChunkStart

\* A cut put at the end of a list of k.
LEMMA AppendCut ==
  ASSUME JoinInv, NEW e \in Nat, cuts' = Append(cuts, e), NEW k, k = Len(cuts)
  PROVE  /\ cuts' \in Seq(Nat) /\ k \in Nat /\ Len(cuts') = k + 1
         /\ \A i \in 1..k : cuts'[i] = cuts[i]
         /\ cuts'[k + 1] = e
         /\ \A i \in 1..(k + 1) : ChunkStart(i)' = ChunkStart(i)
         /\ ChunkStart(k + 2)' = e
<1>1. cuts \in Seq(Nat) /\ k \in Nat
  BY DEF JoinInv
<1>2. /\ cuts' \in Seq(Nat) /\ Len(cuts') = k + 1 /\ cuts'[k + 1] = e
      /\ \A i \in 1..k : cuts'[i] = cuts[i]
  BY <1>1
<1> QED
  BY <1>1, <1>2 DEF ChunkStart

\* A step that cuts nothing.
LEMMA NoCut ==
  ASSUME JoinInv, UNCHANGED <<data, cuts>>, start' \in Nat, pos' \in Nat, start' <= pos', pos' <= n,
         \/ pc = "outer" /\ pc' = "forward" /\ start' = pos
         \/ pc = "outer" /\ pc' = "done" /\ pos' = pos /\ pos = n
         \/ pc \in {"forward", "scan"} /\ pc' \in {"forward", "scan"} /\ start' = start
         \/ UNCHANGED <<pc, start, pos>>
  PROVE  JoinInv'
<1>1. n' = n /\ \A i : ChunkStart(i)' = ChunkStart(i)
  BY DEF n, ChunkStart
<1> QED
  BY <1>1 DEF JoinInv

\* A step that ends the chunk under way.
LEMMA OneCut ==
  ASSUME JoinInv, pc = "scan", pc' = "outer", UNCHANGED <<data, start>>, pos' \in Nat,
         start <= pos', pos' <= n, cuts' = Append(cuts, pos')
  PROVE  JoinInv'
<1>0. PICK j : j = Len(cuts)
  OBVIOUS
<1>1. /\ cuts' \in Seq(Nat) /\ j \in Nat /\ Len(cuts') = j + 1
      /\ \A i \in 1..j : cuts'[i] = cuts[i]
      /\ cuts'[j + 1] = pos'
      /\ \A i \in 1..(j + 1) : ChunkStart(i)' = ChunkStart(i)
      /\ ChunkStart(j + 2)' = pos'
  BY <1>0, AppendCut
<1>2. n' = n /\ n \in Nat
  BY DEF n, JoinInv
<1>3. ASSUME NEW i \in 1..(j + 1)
      PROVE  ChunkStart(i)' <= cuts'[i] /\ cuts'[i] <= n'
  <2>1. CASE i \in 1..j
    BY <1>0, <1>1, <1>2, <2>1 DEF JoinInv
  <2>2. CASE i = j + 1
    <3>1. ChunkStart(i) = start
      BY <1>0, <2>2 DEF JoinInv
    <3> QED
      BY <1>1, <1>2, <2>2, <3>1
  <2> QED
    BY <1>1, <2>1, <2>2
<1>4. (ChunkStart(Len(cuts) + 1))' = pos'
  BY <1>1 DEF ChunkStart
<1>5. start \in Nat /\ data \in Seq(Bytes)
  BY DEF JoinInv
<1> QED
  BY <1>1, <1>2, <1>3, <1>4, <1>5 DEF JoinInv
\* Every step of the loop.
LEMMA JoinStep == JoinInv /\ [CdcNext]_cdcVars => JoinInv'
<1> SUFFICES ASSUME JoinInv, [CdcNext]_cdcVars
             PROVE  JoinInv'
  OBVIOUS
<1>0. /\ n \in Nat /\ start \in Nat /\ pos \in Nat /\ start <= pos /\ pos <= n
      /\ Window \in Nat /\ MinChunk \in Nat
  BY ChunkerAssumption DEF JoinInv, n
<1>1. CASE ChunkBegin
  <2>1. pos' \in Nat /\ pos <= pos' /\ pos' <= n
    BY <1>0, <1>1 DEF ChunkBegin, Smaller
  <2> QED
    BY <1>0, <1>1, <2>1, NoCut DEF ChunkBegin
<1>2. CASE ForwardByte
  <2>1. pos' = pos + 1 /\ pos < n
    BY <1>0, <1>2 DEF ForwardByte, Roll, Smaller
  <2> QED
    BY <1>0, <1>2, <2>1, NoCut DEF ForwardByte
<1>3. CASE ForwardEnd
  BY <1>0, <1>3, NoCut DEF ForwardEnd
<1>4. CASE ScanByte
  <2>1. pos' = pos + 1 /\ pos < n
    BY <1>4 DEF ScanByte, Roll
  <2>2. CASE Boundary(h', pos' - start)
    BY <1>0, <1>4, <2>1, <2>2, OneCut DEF ScanByte
  <2>3. CASE ~ Boundary(h', pos' - start)
    BY <1>0, <1>4, <2>1, <2>3, NoCut DEF ScanByte
  <2> QED
    BY <2>2, <2>3
<1>5. CASE ScanEnd
  BY <1>0, <1>5, OneCut DEF ScanEnd
<1>6. CASE ChunkReturn
  BY <1>0, <1>6, NoCut DEF ChunkReturn
<1>7. CASE UNCHANGED cdcVars
  BY <1>0, <1>7, NoCut DEF cdcVars
<1> QED
  BY <1>1, <1>2, <1>3, <1>4, <1>5, <1>6, <1>7 DEF CdcNext

\* Chunks that lie end to end and reach the end of the data make up the data.
LEMMA JoinedIsData == JoinInv => ChunksConcatenate
<1> SUFFICES ASSUME JoinInv, pc = "done"
             PROVE  LET Joined[i \in 0..Len(cuts)] ==
                          IF i = 0 THEN <<>> ELSE Joined[i - 1] \o Chunk(i)
                    IN  Joined[Len(cuts)] = data
  BY DEF ChunksConcatenate
<1> DEFINE m == Len(cuts)
           Table(J) == [i \in 0..m |-> IF i = 0 THEN <<>> ELSE J[i - 1] \o Chunk(i)]
           f == [i \in 0..m |-> SubSeq(data, 1, ChunkStart(i + 1))]
           g == CHOOSE J : J = Table(J)
<1>0. /\ m \in Nat /\ n \in Nat /\ n = Len(data) /\ data \in Seq(Bytes)
      /\ ChunkStart(m + 1) = n
  BY DEF JoinInv, n
<1>1. ASSUME NEW i \in 1..m
      PROVE  /\ ChunkStart(i) \in Nat /\ ChunkStart(i) <= cuts[i] /\ cuts[i] <= n
             /\ cuts[i] \in Nat /\ ChunkStart(i + 1) = cuts[i]
  <2>1. cuts \in Seq(Nat) /\ cuts[i] \in Nat
    BY DEF JoinInv
  <2>2. ChunkStart(i) \in Nat
    BY <2>1 DEF ChunkStart
  <2>3. ChunkStart(i) <= cuts[i] /\ cuts[i] <= n
    BY DEF JoinInv
  <2>4. ChunkStart(i + 1) = cuts[i]
    BY DEF ChunkStart
  <2> QED
    BY <2>1, <2>2, <2>3, <2>4
<1>2. ASSUME NEW i \in 1..m
      PROVE  SubSeq(data, 1, ChunkStart(i)) \o Chunk(i) = SubSeq(data, 1, ChunkStart(i + 1))
  <2>1. /\ 1 \in 1..(Len(data) + 1) /\ ChunkStart(i) \in (1 - 1)..Len(data)
        /\ cuts[i] \in ChunkStart(i)..Len(data)
    BY <1>0, <1>1
  <2>2. SubSeq(data, 1, ChunkStart(i)) \o SubSeq(data, ChunkStart(i) + 1, cuts[i])
           = SubSeq(data, 1, cuts[i])
    BY <1>0, <2>1, ConcatAdjacentSubSeq
  <2> QED
    BY <1>1, <2>2 DEF Chunk
<1>3. SubSeq(data, 1, ChunkStart(1)) = <<>>
  BY SubSeqEmpty DEF ChunkStart
<1>4. f = Table(f)
  <2>1. ASSUME NEW i \in 0..m
        PROVE  f[i] = Table(f)[i]
    <3>1. CASE i = 0
      BY <1>3, <3>1
    <3>2. CASE i # 0
      <4>1. i \in 1..m /\ i - 1 \in 0..m /\ (i - 1) + 1 = i
        BY <1>0, <3>2
      <4>2. f[i - 1] = SubSeq(data, 1, ChunkStart(i)) /\ f[i] = SubSeq(data, 1, ChunkStart(i + 1))
        BY <4>1
      <4>3. Table(f)[i] = f[i - 1] \o Chunk(i)
        <5> HIDE DEF f
        <5> QED
          BY <3>2
      <4> HIDE DEF f, Table
      <4> QED
        BY <1>2, <4>1, <4>2, <4>3
    <3> QED
      BY <3>1, <3>2
  <2> QED
    BY <2>1
<1>5. g = Table(g)
  <2> HIDE DEF Table, f
  <2> QED
    BY <1>4
<1> HIDE DEF g
<1> DEFINE S == {i \in 0..m : g[i] = SubSeq(data, 1, ChunkStart(i + 1))}
<1>6. 0 \in S
  <2>1. 0 \in 0..m /\ 0 + 1 = 1
    BY <1>0
  <2>2. g[0] = <<>>
    <3> HIDE DEF m
    <3> QED
      BY <1>5, <2>1
  <2> QED
    BY <1>3, <2>1, <2>2
<1>7. ASSUME NEW i \in 0..(m - 1), i \in S
      PROVE  i + 1 \in S
  <2>1. i + 1 \in 1..m /\ i + 1 \in 0..m /\ (i + 1) - 1 = i
    BY <1>0
  <2>2. g[i + 1] = g[i] \o Chunk(i + 1)
    <3>1. i + 1 # 0
      BY <2>1
    <3> HIDE DEF m
    <3>2. g[i + 1] = g[(i + 1) - 1] \o Chunk(i + 1)
      BY <1>5, <2>1, <3>1
    <3> QED
      BY <2>1, <3>2
  <2>3. g[i] = SubSeq(data, 1, ChunkStart(i + 1))
    BY <1>7
  <2>4. g[i + 1] = SubSeq(data, 1, ChunkStart((i + 1) + 1))
    BY <1>2, <2>1, <2>2, <2>3
  <2> QED
    BY <2>1, <2>4
<1>8. m \in S
  <2> HIDE DEF S
  <2>1. \A i \in 0..m : i \in S
    BY <1>0, <1>6, <1>7, UpTo
  <2> QED
    BY <1>0, <2>1
<1>9. g[m] = data
  <2>1. g[m] = SubSeq(data, 1, Len(data))
    BY <1>0, <1>8
  <2> QED
    BY <1>0, <2>1, SubSeqFull
<1> QED
  BY <1>9 DEF g

\* The chunks chunk_data returns, joined, are the data it was given, whatever the
\* data and the sizes: nothing is lost or repeated at a boundary or at the end.
THEOREM ChunksJoin == ChunkSpec => []ChunksConcatenate
<1>1. (\E d \in Seq(Bytes) : CdcInit(d)) => JoinInv
  BY JoinInit
<1> QED
  BY <1>1, JoinStep, JoinedIsData, PTL DEF ChunkSpec
-----------------------------------------------------------------------------
(* The hash at every position of a chunk is the one from scratch.          *)

\* A byte's place in a ring that has not gone round.
LEMMA RingFirst ==
  ASSUME NEW m \in Nat, m > 0, NEW a \in 0..(m - 1)
  PROVE  a % m = a
<1> DEFINE q == a \div m
           r == a % m
<1>1. q \in Int /\ r \in 0..(m - 1) /\ a = m * q + r
  BY Divide
<1> HIDE DEF q, r
<1>2. a - r = q * m /\ a - r < m /\ - m < a - r
  BY <1>1
<1>3. q = 0
  BY <1>1, <1>2, SmallMultiple
<1>4. a = r
  BY <1>1, <1>2, <1>3
<1> QED
  BY <1>4 DEF r

\* The window and the hash at the head of a chunk.
LEMMA RollBegin ==
  ASSUME JoinInv, ChunkBegin
  PROVE  RollInv'
<1>0. /\ n \in Nat /\ pos \in Nat /\ pos <= n /\ data \in Seq(Bytes) /\ n = Len(data)
      /\ Window \in Nat /\ Window > 0
  BY WordType DEF JoinInv, n
<1>1. /\ data' = data /\ n' = n /\ start' = pos /\ winPos' = 0 /\ h' = SeedHash(pos)
      /\ window' = SeedWindow(pos) /\ pos' = Smaller(pos + Window, n)
  BY DEF ChunkBegin, n
<1>2. CASE n < pos + Window
  BY <1>0, <1>1, <1>2 DEF Smaller, RollInv
<1>3. CASE pos + Window <= n
  <2>1. pos' = pos + Window
    BY <1>0, <1>1, <1>3 DEF Smaller
  <2>2. WindowHash(pos + Window) = WindowHash(pos)'
    BY <1>1, <2>1 DEF WindowHash
  <2>3. h' = WindowHash(pos)'
    BY <1>0, <1>1, <1>3, <2>2, SeedIsWindow
  <2>4. \A k \in 0..(Window - 1) : window'[k] = data[pos + k + 1] /\ data[pos + k + 1] \in Bytes
    <3>1. \A k \in 0..(Window - 1) : pos + k < n /\ pos + k + 1 \in 1..Len(data)
      BY <1>0, <1>3
    <3> QED
      BY <1>0, <1>1, <3>1, ByteType DEF SeedWindow
  <2>5. window' \in [0..(Window - 1) -> Bytes]
    BY <1>1, <2>4 DEF SeedWindow
  <2>6. ASSUME NEW q \in pos..(pos + Window - 1)
        PROVE  window'[(q - pos) % Window] = data[q + 1]
    <3>1. q - pos \in 0..(Window - 1) /\ pos + (q - pos) + 1 = q + 1
      BY <1>0
    <3>2. (q - pos) % Window = q - pos
      BY <1>0, <3>1, RingFirst
    <3> QED
      BY <2>4, <3>1, <3>2
  <2>7. /\ start' + Window <= pos' /\ winPos' = pos' - (start' + Window)
        /\ pos' - Window = pos /\ pos' - 1 = pos + Window - 1
    BY <1>0, <1>1, <2>1
  <2>8. \A q \in (pos' - Window)..(pos' - 1) : window'[(q - start') % Window] = data'[q + 1]
    BY <1>1, <2>6, <2>7
  <2> QED
    BY <2>3, <2>5, <2>7, <2>8 DEF RollInv
<1> QED
  BY <1>0, <1>2, <1>3

\* A byte enters: the ring keeps the last Window bytes, for the slot it takes is
\* the oldest byte's, and the hash stays the one from scratch.
LEMMA RollByte ==
  ASSUME JoinInv, RollInv, pc \in {"forward", "scan"}, pos < n, Roll, UNCHANGED <<data, start>>
  PROVE  /\ h' = WindowHash(pos)'
         /\ RollInv'
<1>0. /\ n \in Nat /\ pos \in Nat /\ start \in Nat /\ data \in Seq(Bytes) /\ n = Len(data)
      /\ Window \in Nat /\ Window > 0
  BY WordType DEF JoinInv, n
<1>1. /\ start + Window <= pos
      /\ winPos = pos - (start + Window)
      /\ window \in [0..(Window - 1) -> Bytes]
      /\ \A q \in (pos - Window)..(pos - 1) : window[(q - start) % Window] = data[q + 1]
      /\ h = WindowHash(pos)
  BY <1>0 DEF RollInv
<1> DEFINE slot == winPos % Window
           in == data[pos + 1]
           out == window[slot]
<1>2. winPos \in Nat /\ slot \in 0..(Window - 1)
  BY <1>0, <1>1, Divide
<1>3. pos' = pos + 1 /\ winPos' = winPos + 1 /\ window' = [window EXCEPT ![slot] = in]
      /\ h' = (h * Poly - OutTable(out) + in) % Word
  BY DEF Roll
<1>4. in \in Bytes
  BY <1>0, ByteType
<1>5. out = data[pos - Window + 1]
  <2>1. pos - Window \in (pos - Window)..(pos - 1) /\ (pos - Window) - start = winPos
    BY <1>0, <1>1
  <2> QED
    BY <1>1, <2>1
<1>6. h' = WindowHash(pos)'
  <2>1. pos \in Window..(n - 1)
    BY <1>0, <1>1
  <2>2. h' = WindowHash(pos + 1)
    BY <1>0, <1>1, <1>3, <1>5, <2>1, RolledHash
  <2>3. WindowHash(pos)' = WindowHash(pos + 1)
    BY <1>3 DEF WindowHash
  <2> QED
    BY <2>2, <2>3
<1> HIDE DEF slot, in, out
<1>7. window' \in [0..(Window - 1) -> Bytes]
  BY <1>1, <1>2, <1>3, <1>4
<1>8. ASSUME NEW q \in (pos + 1 - Window)..pos
      PROVE  window'[(q - start) % Window] = data[q + 1]
  <2>1. CASE q = pos
    <3>1. q - start = winPos + Window
      BY <1>0, <1>1, <2>1
    <3>2. (q - start) % Window = slot
      BY <1>0, <1>2, <3>1, RingSame DEF slot
    <3> QED
      BY <1>1, <1>2, <1>3, <2>1, <3>2 DEF in
  <2>2. CASE q # pos
    <3>1. /\ q - start \in Nat /\ winPos < q - start /\ q - start < winPos + Window
          /\ q \in (pos - Window)..(pos - 1)
      BY <1>0, <1>1, <2>2
    <3>2. (q - start) % Window # slot
      BY <1>0, <1>2, <3>1, RingApart DEF slot
    <3>3. (q - start) % Window \in 0..(Window - 1)
      BY <1>0, <3>1, Divide
    <3>4. window'[(q - start) % Window] = window[(q - start) % Window]
      BY <1>1, <1>3, <3>2, <3>3
    <3> QED
      BY <1>1, <3>1, <3>4
  <2> QED
    BY <2>1, <2>2
<1>9. /\ start' + Window <= pos' /\ winPos' = pos' - (start' + Window)
      /\ pos' - Window = pos + 1 - Window /\ pos' - 1 = pos
  BY <1>0, <1>1, <1>3
<1>10. \A q \in (pos' - Window)..(pos' - 1) : window'[(q - start') % Window] = data'[q + 1]
  BY <1>8, <1>9
<1> QED
  BY <1>6, <1>7, <1>9, <1>10 DEF RollInv

\* Every step of the loop.
LEMMA RollStep == JoinInv /\ RollInv /\ [CdcNext]_cdcVars => RollInv'
<1> SUFFICES ASSUME JoinInv, RollInv, [CdcNext]_cdcVars
             PROVE  RollInv'
  OBVIOUS
<1>0. n \in Nat /\ start \in Nat /\ pos \in Nat /\ MinChunk \in Nat
  BY ChunkerAssumption DEF JoinInv, n
<1>1. CASE ChunkBegin
  BY <1>1, RollBegin
<1>2. CASE ForwardByte
  BY <1>0, <1>2, RollByte DEF ForwardByte, Smaller
<1>3. CASE ScanByte
  BY <1>3, RollByte DEF ScanByte
<1>4. CASE ForwardEnd \/ UNCHANGED cdcVars
  <2>1. UNCHANGED <<data, start, pos, h, window, winPos>> /\ (pc' \in {"forward", "scan"} =>
          pc \in {"forward", "scan"})
    BY <1>4 DEF ForwardEnd, cdcVars
  <2>2. n' = n /\ WindowHash(pos)' = WindowHash(pos)
    BY <2>1 DEF n, WindowHash
  <2> QED
    BY <2>1, <2>2 DEF RollInv
<1>5. CASE ScanEnd \/ ChunkReturn
  BY <1>5 DEF ScanEnd, ChunkReturn, RollInv
<1> QED
  BY <1>1, <1>2, <1>3, <1>4, <1>5 DEF CdcNext
-----------------------------------------------------------------------------
(* Chunks end at the first position that may end them.                     *)

\* The first stop, or the end of the data.
LEMMA FirstCutIs ==
  ASSUME JoinInv, NEW from \in Nat
  PROVE  /\ Stops(from) = {} => FirstCut(from) = n
         /\ \A p \in Stops(from) : (\A q \in Stops(from) : p <= q) => FirstCut(from) = p
<1>0. n \in Nat /\ MinChunk \in Nat
  BY ChunkerAssumption DEF JoinInv, n
<1>1. FirstCut(from) = IF Stops(from) = {} THEN n
                       ELSE CHOOSE p \in Stops(from) : \A q \in Stops(from) : p <= q
  BY DEF FirstCut, Stops
<1>2. Stops(from) \subseteq Int
  BY <1>0 DEF Stops
<1>3. ASSUME NEW p \in Stops(from), \A q \in Stops(from) : p <= q
      PROVE  FirstCut(from) = p
  <2> DEFINE c == CHOOSE x \in Stops(from) : \A q \in Stops(from) : x <= q
  <2>1. c \in Stops(from) /\ \A q \in Stops(from) : c <= q
    BY <1>3
  <2>2. FirstCut(from) = c
    BY <1>1, <1>3
  <2> HIDE DEF c
  <2>3. c <= p /\ p <= c /\ c \in Int /\ p \in Int
    BY <1>2, <1>3, <2>1
  <2> QED
    BY <2>2, <2>3
<1> QED
  BY <1>1, <1>3

\* Where a chunk must end depends on the data alone.
LEMMA CutsKept ==
  ASSUME UNCHANGED data
  PROVE  n' = n /\ \A from : FirstCut(from)' = FirstCut(from) /\ Stops(from)' = Stops(from)
<1>1. n' = n
  BY DEF n
<1>2. ASSUME NEW from
      PROVE  FirstCut(from)' = FirstCut(from)
  BY DEF FirstCut, WindowHash, n
<1>3. ASSUME NEW from
      PROVE  Stops(from)' = Stops(from)
  BY DEF Stops, WindowHash, n
<1> QED
  BY <1>1, <1>2, <1>3

\* The same for a chunk whose beginning stays.
LEMMA CutKept ==
  ASSUME UNCHANGED data, NEW i, ChunkStart(i)' = ChunkStart(i)
  PROVE  FirstCut(ChunkStart(i))' = FirstCut(ChunkStart(i))
<1>1. PICK from : from = ChunkStart(i)
  OBVIOUS
<1>2. FirstCut(ChunkStart(i))' = FirstCut(from)'
  <2>1. ChunkStart(i)' = from
    BY <1>1
  <2> QED
    BY <2>1 DEF FirstCut, WindowHash
<1> QED
  BY <1>1, <1>2, CutsKept

\* The byte the scan has consumed is a stop exactly when the loop cuts there.
LEMMA ScanTest ==
  ASSUME CdcInv, ScanByte
  PROVE  /\ pos + 1 \in Nat /\ pos' = pos + 1 /\ start \in Nat /\ pos \in Nat /\ n \in Nat
         /\ start <= pos /\ pos' <= n
         /\ Boundary(h', pos' - start) <=> pos + 1 \in Stops(start)
         /\ ~ Boundary(h', pos' - start) => pos + 1 < start + MaxChunk
         /\ \A p \in Stops(start) : pos + 1 <= p
<1>0. /\ n \in Nat /\ pos \in Nat /\ start \in Nat /\ MinChunk \in Nat /\ MaxChunk \in Nat
      /\ start <= pos
  BY ChunkerAssumption DEF CdcInv, JoinInv, n
<1>1. pc = "scan" /\ pos < n /\ pos' = pos + 1 /\ UNCHANGED <<data, start>> /\ Roll
  BY DEF ScanByte, Roll
<1>2. /\ start + MinChunk <= pos /\ pos < start + MaxChunk
      /\ \A p \in Stops(start) : pos < p
  BY <1>0, <1>1 DEF CdcInv, ScanInv
<1>3. h' = WindowHash(pos + 1)
  <2>1. h' = WindowHash(pos)'
    BY <1>1, RollByte DEF CdcInv
  <2>2. WindowHash(pos)' = WindowHash(pos + 1)
    BY <1>1 DEF WindowHash
  <2> QED
    BY <2>1, <2>2
<1>4. pos + 1 \in (start + MinChunk + 1)..n
  BY <1>0, <1>1, <1>2
<1>5. /\ pos' - start >= MaxChunk <=> pos + 1 = start + MaxChunk
      /\ pos' - start >= MinChunk
      /\ pos + 1 <= start + MaxChunk
  BY <1>0, <1>1, <1>2
<1>6. Boundary(h', pos' - start) <=> pos + 1 \in Stops(start)
  <2>1. Boundary(h', pos' - start) <=>
          (pos + 1 = start + MaxChunk \/ WindowHash(pos + 1) % Modulus = 0)
    BY <1>3, <1>5 DEF Boundary
  <2>2. pos + 1 \in Stops(start) <=>
          (pos + 1 = start + MaxChunk \/
             (pos + 1 < start + MaxChunk /\ WindowHash(pos + 1) % Modulus = 0))
    BY <1>4 DEF Stops
  <2>3. pos + 1 = start + MaxChunk \/ pos + 1 < start + MaxChunk
    BY <1>0, <1>5
  <2> QED
    BY <2>1, <2>2, <2>3
<1>7. ~ Boundary(h', pos' - start) => pos + 1 < start + MaxChunk
  BY <1>0, <1>5 DEF Boundary
<1>8. ASSUME NEW p \in Stops(start)
      PROVE  pos + 1 <= p
  <2>1. pos < p /\ p \in Int
    BY <1>0, <1>2 DEF Stops
  <2> QED
    BY <1>0, <2>1
<1> QED
  BY <1>0, <1>1, <1>6, <1>7, <1>8

\* Every step of the loop keeps ScanInv.
LEMMA ScanStep == CdcInv /\ [CdcNext]_cdcVars => ScanInv'
<1> SUFFICES ASSUME CdcInv, [CdcNext]_cdcVars
             PROVE  ScanInv'
  OBVIOUS
<1>0. /\ n \in Nat /\ pos \in Nat /\ start \in Nat /\ MinChunk \in Nat /\ MaxChunk \in Nat
      /\ start <= pos /\ pos <= n /\ Window \in Nat /\ Window <= MinChunk /\ MinChunk < MaxChunk
  BY ChunkerAssumption DEF CdcInv, JoinInv, n
<1>1. CASE ChunkBegin
  BY <1>0, <1>1 DEF ChunkBegin, Smaller, ScanInv
<1>2. CASE ForwardByte
  BY <1>0, <1>2 DEF ForwardByte, Roll, Smaller, ScanInv
<1>3. CASE ForwardEnd
  <2>1. UNCHANGED <<data, start, pos>> /\ pc = "forward" /\ pc' = "scan"
        /\ pos = Smaller(start + MinChunk, n)
    BY <1>3 DEF ForwardEnd
  <2>2. n' = n /\ Stops(start)' = Stops(start)
    BY <2>1, CutsKept
  <2>3. (pos = n \/ start + MinChunk <= pos) /\ pos <= start + MinChunk /\ pos < start + MaxChunk
    BY <1>0, <2>1 DEF Smaller
  <2>4. \A p \in Stops(start) : pos < p
    BY <1>0, <2>3 DEF Stops
  <2> QED
    BY <2>1, <2>2, <2>3, <2>4 DEF ScanInv
<1>4. CASE ScanByte
  <2>0. UNCHANGED <<data, start>> /\ pc = "scan"
    BY <1>4 DEF ScanByte
  <2>1. CASE Boundary(h', pos' - start)
    BY <1>4, <2>1 DEF ScanByte, ScanInv
  <2>2. CASE ~ Boundary(h', pos' - start)
    <3>1. /\ pos' = pos + 1 /\ pos + 1 < start + MaxChunk /\ pos + 1 \notin Stops(start)
          /\ \A p \in Stops(start) : pos + 1 <= p
      BY <1>4, <2>2, ScanTest
    <3>2. n' = n /\ Stops(start)' = Stops(start)
      BY <2>0, CutsKept
    <3>3. pc' = "scan"
      BY <1>4, <2>0, <2>2 DEF ScanByte
    <3>4. start + MinChunk <= pos
      BY <1>0, <1>4, <2>0 DEF CdcInv, ScanInv, ScanByte
    <3>5. ASSUME NEW p \in Stops(start)
          PROVE  pos + 1 < p
      <4>1. pos + 1 <= p /\ p # pos + 1 /\ p \in Int
        BY <1>0, <3>1 DEF Stops
      <4> QED
        BY <1>0, <4>1
    <3>6. start' + MinChunk <= pos' /\ pos' < start' + MaxChunk
      BY <1>0, <2>0, <3>1, <3>4
    <3> QED
      BY <3>1, <3>2, <3>3, <3>5, <3>6 DEF ScanInv
  <2> QED
    BY <2>1, <2>2
<1>5. CASE ScanEnd \/ ChunkReturn
  BY <1>5 DEF ScanEnd, ChunkReturn, ScanInv
<1>6. CASE UNCHANGED cdcVars
  <2>1. UNCHANGED <<data, pc, start, pos>>
    BY <1>6 DEF cdcVars
  <2>2. n' = n /\ Stops(start)' = Stops(start)
    BY <2>1, CutsKept
  <2> QED
    BY <2>1, <2>2 DEF CdcInv, ScanInv
<1> QED
  BY <1>1, <1>2, <1>3, <1>4, <1>5, <1>6 DEF CdcNext

\* A cut is added only at the first stop of its chunk.
LEMMA CutAdded ==
  ASSUME JoinInv, CutsContentDefined, UNCHANGED data, pc = "scan", NEW e \in Nat,
         cuts' = Append(cuts, e), e = FirstCut(start)
  PROVE  CutsContentDefined'
<1>0. PICK k : k = Len(cuts)
  OBVIOUS
<1>1. /\ cuts' \in Seq(Nat) /\ k \in Nat /\ Len(cuts') = k + 1
      /\ \A i \in 1..k : cuts'[i] = cuts[i]
      /\ cuts'[k + 1] = e
      /\ \A i \in 1..(k + 1) : ChunkStart(i)' = ChunkStart(i)
  BY <1>0, AppendCut
<1>2. ASSUME NEW i \in 1..(k + 1)
      PROVE  cuts'[i] = FirstCut(ChunkStart(i))'
  <2>1. FirstCut(ChunkStart(i))' = FirstCut(ChunkStart(i))
    BY <1>1, CutKept
  <2>2. CASE i \in 1..k
    BY <1>0, <1>1, <2>1, <2>2 DEF CutsContentDefined
  <2>3. CASE i = k + 1
    <3>1. ChunkStart(i) = start
      BY <1>0, <2>3 DEF JoinInv
    <3> QED
      BY <1>1, <2>1, <2>3, <3>1
  <2> QED
    BY <1>1, <2>2, <2>3
<1> QED
  BY <1>1, <1>2 DEF CutsContentDefined

\* Every step of the loop keeps the cuts content-defined.
LEMMA CutsStep == CdcInv /\ [CdcNext]_cdcVars => CutsContentDefined'
<1> SUFFICES ASSUME CdcInv, [CdcNext]_cdcVars
             PROVE  CutsContentDefined'
  OBVIOUS
<1>0. JoinInv /\ ScanInv /\ CutsContentDefined /\ start \in Nat /\ pos \in Nat /\ n \in Nat
  BY DEF CdcInv, JoinInv, n
<1>1. ASSUME UNCHANGED <<data, cuts>>
      PROVE  CutsContentDefined'
  <2>1. ASSUME NEW i \in 1..Len(cuts)
        PROVE  cuts[i] = FirstCut(ChunkStart(i))'
    <3>1. ChunkStart(i)' = ChunkStart(i)
      BY <1>1 DEF ChunkStart
    <3> QED
      BY <1>0, <1>1, <3>1, CutKept DEF CutsContentDefined
  <2> QED
    BY <1>1, <2>1 DEF CutsContentDefined
<1>2. CASE ScanByte
  <2>0. UNCHANGED <<data, start>> /\ pc = "scan"
    BY <1>2 DEF ScanByte
  <2>1. CASE Boundary(h', pos' - start)
    <3>1. /\ pos' = pos + 1 /\ pos' \in Nat /\ pos' \in Stops(start)
          /\ \A p \in Stops(start) : pos' <= p
      BY <1>2, <2>1, ScanTest
    <3>2. pos' = FirstCut(start)
      BY <1>0, <3>1, FirstCutIs
    <3>3. cuts' = Append(cuts, pos')
      BY <1>2, <2>1 DEF ScanByte
    <3> QED
      BY <1>0, <2>0, <3>1, <3>2, <3>3, CutAdded
  <2>2. CASE ~ Boundary(h', pos' - start)
    BY <1>1, <1>2, <2>0, <2>2 DEF ScanByte
  <2> QED
    BY <2>1, <2>2
<1>3. CASE ScanEnd
  <2>1. UNCHANGED data /\ pc = "scan" /\ pos = n /\ cuts' = Append(cuts, pos)
    BY <1>3 DEF ScanEnd
  <2>2. Stops(start) = {}
    <3>1. ASSUME NEW p \in Stops(start)
          PROVE  FALSE
      <4>1. pos < p
        BY <1>0, <2>1 DEF ScanInv
      <4>2. p <= n /\ p \in Int
        BY <1>0, ChunkerAssumption DEF Stops
      <4> QED
        BY <1>0, <2>1, <4>1, <4>2
    <3> QED
      BY <3>1
  <2>3. pos = FirstCut(start)
    BY <1>0, <2>1, <2>2, FirstCutIs
  <2> QED
    BY <1>0, <2>1, <2>3, CutAdded
<1>4. CASE ChunkBegin \/ ForwardByte \/ ForwardEnd \/ ChunkReturn \/ UNCHANGED cdcVars
  BY <1>1, <1>4 DEF ChunkBegin, ForwardByte, ForwardEnd, ChunkReturn, cdcVars
<1> QED
  BY <1>2, <1>3, <1>4 DEF CdcNext

\* Each chunk ends at the first position past the minimal length where the hash
\* of its own last Window bytes, computed from scratch, says so, at the maximal
\* length or at the end of the data: the rolling computation, its ring buffer
\* and its reductions, and all that came before the chunk, leave no trace.
THEOREM BoundariesContentDefined == ChunkSpec => []CutsContentDefined
<1>1. (\E d \in Seq(Bytes) : CdcInit(d)) => CdcInv
  <2> SUFFICES ASSUME NEW d \in Seq(Bytes), CdcInit(d)
               PROVE  CdcInv
    OBVIOUS
  <2>1. JoinInv /\ pc = "outer" /\ Len(cuts) = 0
    BY JoinInit DEF CdcInit
  <2> QED
    BY <2>1 DEF CdcInv, RollInv, ScanInv, CutsContentDefined
<1>2. CdcInv /\ [CdcNext]_cdcVars => CdcInv'
  BY JoinStep, RollStep, ScanStep, CutsStep DEF CdcInv
<1>3. CdcInv => CutsContentDefined
  BY DEF CdcInv
<1> QED
  BY <1>1, <1>2, <1>3, PTL DEF ChunkSpec

-----------------------------------------------------------------------------
(* Sums over finite sets.                                                  *)

\* The element a fold takes first, and what it leaves.
Picked(T) == CHOOSE x \in T : TRUE
Others(T) == T \ {Picked(T)}

\* f[T] is the sum of g over T as the fold adds it up, for every T within S.
Sums(g, S, f) ==
    \A T \in SUBSET S : f[T] = IF T = {} THEN 0 ELSE g[Picked(T)] + f[Others(T)]

\* Induction over the subsets of a finite set, in terms of sets.
LEMMA SubsetInduction ==
  ASSUME NEW S, IsFiniteSet(S), NEW G, {} \in G,
         \A T \in SUBSET S : T # {} /\ (\A x \in T : T \ {x} \in G) => T \in G
  PROVE  \A T \in SUBSET S : T \in G
<1> DEFINE m == Cardinality(S)
           K == {k \in 0..m : \A T \in SUBSET S : Cardinality(T) = k => T \in G}
<1>1. m \in Nat
  BY FS_CardinalityType
<1>2. ASSUME NEW T \in SUBSET S
      PROVE  IsFiniteSet(T) /\ Cardinality(T) \in 0..m
  BY <1>1, FS_Subset, FS_CardinalityType
<1>3. 0 \in K
  BY <1>1, <1>2, FS_EmptySet
<1>4. ASSUME NEW k \in 0..(m - 1), k \in K
      PROVE  k + 1 \in K
  <2>1. ASSUME NEW T \in SUBSET S, Cardinality(T) = k + 1
        PROVE  T \in G
    <3>1. T # {}
      <4>1. Cardinality(T) # 0
        BY <1>1, <2>1
      <4> QED
        BY <4>1, FS_EmptySet
    <3>2. ASSUME NEW x \in T
          PROVE  T \ {x} \in G
      <4>1. Cardinality(T \ {x}) = k
        BY <1>1, <1>2, <2>1, FS_RemoveElement
      <4> QED
        BY <1>4, <4>1
    <3> QED
      BY <3>1, <3>2
  <2> QED
    BY <1>1, <2>1
<1>5. \A k \in 0..m : k \in K
  <2> HIDE DEF K, m
  <2> QED
    BY <1>1, <1>3, <1>4, UpTo
<1> QED
  BY <1>2, <1>5

\* The fold picks an element of the set.
LEMMA PickedIn ==
  ASSUME NEW T, T # {}
  PROVE  Picked(T) \in T
BY DEF Picked

\* The fold is defined on every subset of a finite set.
LEMMA SumExists ==
  ASSUME NEW S, IsFiniteSet(S), NEW g \in [S -> Int]
  PROVE  \E f \in [SUBSET S -> Int] : Sums(g, S, f)
<1> DEFINE m == Cardinality(S)
           Eq(f, T) == f[T] = IF T = {} THEN 0 ELSE g[Picked(T)] + f[Others(T)]
           Upto(f, k) == \A T \in SUBSET S : Cardinality(T) <= k => Eq(f, T)
           K == {k \in 0..m : \E f \in [SUBSET S -> Int] : Upto(f, k)}
<1>1. m \in Nat
  BY FS_CardinalityType
<1>2. ASSUME NEW T \in SUBSET S
      PROVE  IsFiniteSet(T) /\ Cardinality(T) \in 0..m
  BY <1>1, FS_Subset, FS_CardinalityType
<1>3. ASSUME NEW T \in SUBSET S, T # {}
      PROVE  /\ Picked(T) \in S /\ Others(T) \in SUBSET S
             /\ Cardinality(Others(T)) = Cardinality(T) - 1
  BY <1>2, <1>3, PickedIn, FS_RemoveElement DEF Others
<1>4. 0 \in K
  <2> DEFINE f == [T \in SUBSET S |-> 0]
  <2>1. f \in [SUBSET S -> Int]
    OBVIOUS
  <2>2. ASSUME NEW T \in SUBSET S, Cardinality(T) <= 0
        PROVE  Eq(f, T)
    <3>1. Cardinality(T) = 0
      BY <1>2, <2>2
    <3>2. T = {}
      BY <1>2, <3>1, FS_EmptySet
    <3> QED
      BY <3>2
  <2> HIDE DEF f, Eq
  <2> QED
    BY <1>1, <2>1, <2>2
<1>5. ASSUME NEW k \in 0..(m - 1), k \in K
      PROVE  k + 1 \in K
  <2>1. PICK f \in [SUBSET S -> Int] : Upto(f, k)
    BY <1>5
  <2> DEFINE sum == [T \in SUBSET S |->
                     IF Cardinality(T) = k + 1 THEN g[Picked(T)] + f[Others(T)] ELSE f[T]]
  <2>2. ASSUME NEW T \in SUBSET S, Cardinality(T) = k + 1
        PROVE  T # {} /\ g[Picked(T)] + f[Others(T)] \in Int
    <3>1. T # {}
      <4>1. Cardinality(T) # 0
        BY <1>1, <2>2
      <4> QED
        BY <4>1, FS_EmptySet
    <3>2. g[Picked(T)] \in Int /\ f[Others(T)] \in Int
      BY <1>3, <3>1
    <3> QED
      BY <3>1, <3>2
  <2>3. sum \in [SUBSET S -> Int]
    BY <2>2
  <2>4. ASSUME NEW T \in SUBSET S, Cardinality(T) <= k
        PROVE  sum[T] = f[T]
    BY <1>2, <2>4
  <2>5. ASSUME NEW T \in SUBSET S, Cardinality(T) <= k + 1
        PROVE  Eq(sum, T)
    <3>1. CASE Cardinality(T) = k + 1
      <4>1. T # {} /\ Others(T) \in SUBSET S /\ Cardinality(Others(T)) <= k
        BY <1>3, <2>2, <3>1
      <4>2. sum[Others(T)] = f[Others(T)]
        BY <2>4, <4>1
      <4>3. sum[T] = g[Picked(T)] + f[Others(T)]
        BY <3>1
      <4> HIDE DEF sum
      <4> QED
        BY <4>1, <4>2, <4>3
    <3>2. CASE Cardinality(T) <= k
      <4>1. sum[T] = f[T] /\ Eq(f, T)
        BY <2>1, <2>4, <3>2
      <4>2. T # {} => sum[Others(T)] = f[Others(T)]
        <5>1. ASSUME T # {}
              PROVE  Others(T) \in SUBSET S /\ Cardinality(Others(T)) <= k
          BY <1>2, <1>3, <3>2, <5>1
        <5> HIDE DEF sum
        <5> QED
          BY <2>4, <5>1
      <4> HIDE DEF sum
      <4> QED
        BY <4>1, <4>2
    <3> QED
      BY <1>2, <2>5, <3>1, <3>2
  <2>6. k + 1 \in 0..m
    BY <1>1
  <2> HIDE DEF sum, Eq
  <2> QED
    BY <2>3, <2>5, <2>6
<1>6. \A k \in 0..m : k \in K
  <2> HIDE DEF K, m
  <2> QED
    BY <1>1, <1>4, <1>5, UpTo
<1>7. PICK f \in [SUBSET S -> Int] : Upto(f, m)
  <2>0. m \in 0..m
    BY <1>1
  <2>1. m \in K
    BY <2>0, <1>6
  <2> HIDE DEF Upto, m
  <2> QED
    BY <2>1
<1>8. ASSUME NEW T \in SUBSET S
      PROVE  Eq(f, T)
  BY <1>2, <1>7
<1> QED
  BY <1>8 DEF Sums

\* The sums of whole numbers are whole numbers.
LEMMA SumType ==
  ASSUME NEW S, IsFiniteSet(S), NEW g \in [S -> Int], NEW f, Sums(g, S, f)
  PROVE  \A T \in SUBSET S : f[T] \in Int
<1> DEFINE G == {T \in SUBSET S : f[T] \in Int}
<1>1. {} \in G
  BY DEF Sums
<1>2. ASSUME NEW T \in SUBSET S, T # {}, \A x \in T : T \ {x} \in G
      PROVE  T \in G
  <2>1. Picked(T) \in T
    BY <1>2, PickedIn
  <2>2. f[Others(T)] \in Int /\ g[Picked(T)] \in Int
    BY <1>2, <2>1 DEF Others
  <2>3. f[T] = g[Picked(T)] + f[Others(T)]
    BY <1>2 DEF Sums
  <2> QED
    BY <2>2, <2>3
<1>3. \A T \in SUBSET S : T \in G
  <2> HIDE DEF G
  <2> QED
    BY <1>1, <1>2, SubsetInduction
<1> QED
  BY <1>3

\* In a sum any element may be added last.
LEMMA SumAny ==
  ASSUME NEW S, IsFiniteSet(S), NEW g \in [S -> Int], NEW f, Sums(g, S, f)
  PROVE  \A T \in SUBSET S : \A x \in T : f[T] = g[x] + f[T \ {x}]
<1> DEFINE G == {T \in SUBSET S : \A x \in T : f[T] = g[x] + f[T \ {x}]}
<1>1. {} \in G
  OBVIOUS
<1>2. ASSUME NEW T \in SUBSET S, T # {}, \A x \in T : T \ {x} \in G
      PROVE  T \in G
  <2> DEFINE p == Picked(T)
  <2>1. p \in T
    BY <1>2, PickedIn
  <2>2. f[T] = g[p] + f[T \ {p}]
    BY <1>2 DEF Sums, Others
  <2> HIDE DEF p
  <2>3. ASSUME NEW x \in T, x # p
        PROVE  f[T] = g[x] + f[T \ {x}]
    <3> DEFINE R == (T \ {x}) \ {p}
               u == f[R]
    <3>1. (T \ {p}) \ {x} = R /\ R \in SUBSET S
      OBVIOUS
    <3>2. f[T \ {p}] = g[x] + u
      <4>1. f[T \ {p}] = g[x] + f[(T \ {p}) \ {x}]
        BY <1>2, <2>1, <2>3
      <4> QED
        BY <3>1, <4>1
    <3>3. f[T \ {x}] = g[p] + u
      BY <1>2, <2>1, <2>3
    <3>4. g[x] \in Int /\ g[p] \in Int
      BY <2>1
    <3>5. u \in Int
      BY <3>1, SumType
    <3> HIDE DEF u
    <3> QED
      BY <2>2, <3>2, <3>3, <3>4, <3>5
  <2>4. \A x \in T : f[T] = g[x] + f[T \ {x}]
    BY <2>2, <2>3
  <2> QED
    BY <2>4
<1>3. \A T \in SUBSET S : T \in G
  <2> HIDE DEF G
  <2> QED
    BY <1>1, <1>2, SubsetInduction
<1> QED
  BY <1>3

\* Adding one more element.
LEMMA SumAdd ==
  ASSUME NEW S, IsFiniteSet(S), NEW g \in [S -> Int], NEW f, Sums(g, S, f),
         NEW T \in SUBSET S, NEW x \in S, x \notin T
  PROVE  f[T \cup {x}] = g[x] + f[T]
<1>1. T \cup {x} \in SUBSET S /\ x \in T \cup {x} /\ (T \cup {x}) \ {x} = T
  OBVIOUS
<1> QED
  BY <1>1, SumAny

\* Nothing adds up to 0.
LEMMA SumNone ==
  ASSUME NEW S, NEW g, NEW f, Sums(g, S, f)
  PROVE  f[{}] = 0
BY DEF Sums

\* The fold has one value.
LEMMA SumUnique ==
  ASSUME NEW S, IsFiniteSet(S), NEW g, NEW f, Sums(g, S, f), NEW sum, Sums(g, S, sum)
  PROVE  \A T \in SUBSET S : f[T] = sum[T]
<1> DEFINE G == {T \in SUBSET S : f[T] = sum[T]}
<1>1. {} \in G
  BY DEF Sums
<1>2. ASSUME NEW T \in SUBSET S, T # {}, \A x \in T : T \ {x} \in G
      PROVE  T \in G
  <2>1. Picked(T) \in T
    BY <1>2, PickedIn
  <2>2. f[Others(T)] = sum[Others(T)]
    BY <1>2, <2>1 DEF Others
  <2>3. f[T] = g[Picked(T)] + f[Others(T)] /\ sum[T] = g[Picked(T)] + sum[Others(T)]
    BY <1>2 DEF Sums
  <2> QED
    BY <2>2, <2>3
<1>3. \A T \in SUBSET S : T \in G
  <2> HIDE DEF G
  <2> QED
    BY <1>1, <1>2, SubsetInduction
<1> QED
  BY <1>3

\* More elements, a greater sum.
LEMMA SumGrows ==
  ASSUME NEW S, IsFiniteSet(S), NEW g \in [S -> Nat \ {0}], NEW f, Sums(g, S, f)
  PROVE  \A T \in SUBSET S : \A R \in SUBSET T : R = T \/ f[R] < f[T]
<1> DEFINE G == {T \in SUBSET S : \A R \in SUBSET T : R = T \/ f[R] < f[T]}
<1>0. g \in [S -> Int]
  OBVIOUS
<1>1. {} \in G
  OBVIOUS
<1>2. ASSUME NEW T \in SUBSET S, T # {}, \A x \in T : T \ {x} \in G
      PROVE  T \in G
  <2>1. ASSUME NEW R \in SUBSET T, R # T
        PROVE  f[R] < f[T]
    <3>1. PICK x \in T : x \notin R
      BY <2>1
    <3> DEFINE Q == T \ {x}
    <3>2. Q \in G /\ R \in SUBSET Q /\ Q \in SUBSET S /\ R \in SUBSET S
      BY <1>2, <3>1
    <3>3. R = Q \/ f[R] < f[Q]
      BY <3>2
    <3>4. f[T] = g[x] + f[Q]
      BY <1>0, <3>1, SumAny
    <3>5. f[Q] \in Int /\ f[R] \in Int
      BY <1>0, <3>2, SumType
    <3>6. g[x] \in Nat /\ g[x] > 0
      BY <3>1
    <3> HIDE DEF Q
    <3> QED
      BY <3>3, <3>4, <3>5, <3>6
  <2> QED
    BY <2>1
<1>3. \A T \in SUBSET S : T \in G
  <2> HIDE DEF G
  <2> QED
    BY <1>1, <1>2, SubsetInduction
<1> QED
  BY <1>3

-----------------------------------------------------------------------------
(* The points of one framework.                                            *)

\* The sum of the points of deductions, as the fold computes it.
LEMMA DeductionSum ==
  ASSUME NEW U, IsFiniteSet(U), NEW g \in [U -> Int], \A d \in U : g[d] = d[2],
         NEW f, Sums(g, U, f), NEW D \in SUBSET U
  PROVE  MapThenSumSet(LAMBDA d : d[2], D) = f[D]
<1> DEFINE Fold(sum) == [T \in SUBSET D |-> IF T = {} THEN 0 ELSE Picked(T)[2] + sum[Others(T)]]
           part == [T \in SUBSET D |-> f[T]]
<1>1. ASSUME NEW T \in SUBSET D, T # {}
      PROVE  g[Picked(T)] = Picked(T)[2] /\ Others(T) \in SUBSET D
  BY <1>1, PickedIn DEF Others
<1>2. part = Fold(part)
  <2>1. ASSUME NEW T \in SUBSET D
        PROVE  f[T] = IF T = {} THEN 0 ELSE Picked(T)[2] + part[Others(T)]
    <3>1. f[T] = IF T = {} THEN 0 ELSE g[Picked(T)] + f[Others(T)]
      BY DEF Sums
    <3>2. T # {} => part[Others(T)] = f[Others(T)]
      BY <1>1
    <3> QED
      BY <1>1, <3>1, <3>2
  <2> HIDE DEF part
  <2>2. part = [T \in SUBSET D |-> f[T]]
    BY DEF part
  <2> QED
    BY <2>1, <2>2
<1> DEFINE sum == CHOOSE sum : sum = Fold(sum)
<1>3. sum = Fold(sum)
  <2> HIDE DEF Fold, part
  <2> QED
    BY <1>2
<1>4. MapThenSumSet(LAMBDA d : d[2], D) = sum[D]
  BY DEF MapThenSumSet, MapThenFoldSet, Picked, Others
<1>5. Sums(g, D, sum)
  <2> HIDE DEF sum
  <2> QED
    BY <1>1, <1>3 DEF Sums
<1>6. Sums(g, D, f)
  BY DEF Sums
<1>7. IsFiniteSet(D)
  BY FS_Subset
<1>8. f[D] = sum[D]
  <2> HIDE DEF sum
  <2> QED
    BY <1>5, <1>6, <1>7, SumUnique
<1> HIDE DEF sum
<1> QED
  BY <1>4, <1>8

\* The points of a set of deductions.
Deducted(D) == MapThenSumSet(LAMBDA d : d[2], D)

\* The deductions a framework can make: one for each control, of at least 25
\* points each and of at most 100 together.
Scale(U) ==
    /\ IsFiniteSet(U)
    /\ \A d \in U : d[2] \in 25..100
    /\ \A d, e \in U : d[1] = e[1] => d = e
    /\ Deducted(U) \in 0..100

\* On a scale max(0, .) changes nothing, each deduction shows, and a framework
\* with one keeps at most 75 points.
LEMMA ScalePoints ==
  ASSUME NEW U, Scale(U)
  PROVE  /\ \A D \in SUBSET U :
               /\ Points(D) \in 0..100
               /\ IF D = {} THEN Points(D) = 100 ELSE Points(D) <= 75
         /\ \A D \in SUBSET U : \A C \in SUBSET D : C = D \/ Points(C) > Points(D)
<1> DEFINE g == [d \in U |-> d[2]]
<1>1. IsFiniteSet(U) /\ \A d \in U : d[2] \in 25..100
  BY DEF Scale
<1>2. /\ g \in [U -> Int] /\ g \in [U -> Nat \ {0}]
      /\ \A d \in U : g[d] = d[2] /\ g[d] \in 25..100
  BY <1>1
<1> HIDE DEF g
<1>3. PICK f \in [SUBSET U -> Int] : Sums(g, U, f)
  BY <1>1, <1>2, SumExists
<1>4. ASSUME NEW D \in SUBSET U
      PROVE  Deducted(D) = f[D] /\ f[D] \in Int
  BY <1>1, <1>2, <1>3, DeductionSum DEF Deducted
<1>5. \A T \in SUBSET U : \A R \in SUBSET T : R = T \/ f[R] < f[T]
  BY <1>1, <1>2, <1>3, SumGrows
<1>6. f[U] <= 100 /\ f[{}] = 0
  BY <1>3, <1>4 DEF Scale, Sums
<1>7. ASSUME NEW D \in SUBSET U
      PROVE  f[D] \in 0..100 /\ (D # {} => f[D] >= 25)
  <2>1. f[D] <= 100
    BY <1>4, <1>5, <1>6
  <2>2. f[{}] <= f[D]
    BY <1>4, <1>5, <1>6
  <2>3. ASSUME D # {}
        PROVE  f[D] >= 25
    <3>1. PICK x \in D : TRUE
      BY <2>3
    <3>2. f[D] = g[x] + f[D \ {x}]
      BY <1>1, <1>2, <1>3, SumAny
    <3>3. D \ {x} \in SUBSET U
      OBVIOUS
    <3>4. f[{}] <= f[D \ {x}] /\ f[D \ {x}] \in Int
      BY <1>4, <1>5, <1>6, <3>3
    <3>5. g[x] \in 25..100
      BY <1>2
    <3> QED
      BY <1>6, <3>2, <3>4, <3>5
  <2> QED
    BY <1>4, <1>6, <2>1, <2>2, <2>3
<1>8. ASSUME NEW D \in SUBSET U
      PROVE  Points(D) = 100 - f[D]
  <2> DEFINE x == 100 - f[D]
  <2>1. x \in Nat
    BY <1>7
  <2>2. Points(D) = Max({0, x})
    BY <1>4 DEF Points, Deducted
  <2> HIDE DEF x
  <2>3. x \in {0, x} /\ \A y \in {0, x} : x >= y
    BY <2>1
  <2>4. \A z \in {0, x} : (\A y \in {0, x} : z >= y) => z = x
    BY <2>1
  <2>5. Max({0, x}) = x
    BY <2>3, <2>4 DEF Max
  <2> QED
    BY <2>2, <2>5 DEF x
<1>9. ASSUME NEW D \in SUBSET U
      PROVE  Points(D) \in 0..100 /\ IF D = {} THEN Points(D) = 100 ELSE Points(D) <= 75
  <2>1. D = {} => f[D] = 0
    BY <1>6
  <2>2. Points(D) = 100 - f[D] /\ f[D] \in 0..100 /\ (D # {} => f[D] >= 25)
    BY <1>7, <1>8
  <2> QED
    BY <2>1, <2>2
<1>10. ASSUME NEW D \in SUBSET U, NEW C \in SUBSET D
       PROVE  C = D \/ Points(C) > Points(D)
  <2>1. C \in SUBSET U
    OBVIOUS
  <2>2. Points(D) = 100 - f[D] /\ Points(C) = 100 - f[C]
    BY <1>8, <2>1
  <2>3. f[D] \in Int /\ f[C] \in Int
    BY <1>4, <2>1
  <2> QED
    BY <1>5, <2>2, <2>3
<1> QED
  BY <1>9, <1>10

\* Up to four deductions of 25 points or more, if they make 100 at most.
UpToFour(a, i, b, j, c, k, d, l) ==
    /\ i \in 25..100 /\ j \in 25..100 /\ k \in 25..100 /\ l \in 25..100
    /\ a # b /\ a # c /\ a # d /\ b # c /\ b # d /\ c # d
    => /\ Scale({<<a, i>>})
       /\ i + j <= 100 => Scale({<<a, i>>, <<b, j>>})
       /\ i + j + k <= 100 => Scale({<<a, i>>, <<b, j>>, <<c, k>>})
       /\ i + j + k + l <= 100 => Scale({<<a, i>>, <<b, j>>, <<c, k>>, <<d, l>>})

\* They are a scale.
LEMMA ScaleOf ==
  ASSUME NEW a, NEW i, NEW b, NEW j, NEW c, NEW k, NEW d, NEW l
  PROVE  UpToFour(a, i, b, j, c, k, d, l)
<1> SUFFICES ASSUME i \in 25..100, j \in 25..100, k \in 25..100, l \in 25..100,
                    a # b, a # c, a # d, b # c, b # d, c # d
             PROVE  /\ Scale({<<a, i>>})
                    /\ i + j <= 100 => Scale({<<a, i>>, <<b, j>>})
                    /\ i + j + k <= 100 => Scale({<<a, i>>, <<b, j>>, <<c, k>>})
                    /\ i + j + k + l <= 100 => Scale({<<a, i>>, <<b, j>>, <<c, k>>, <<d, l>>})
  BY DEF UpToFour
<1> DEFINE U == {<<a, i>>, <<b, j>>, <<c, k>>, <<d, l>>}
           g == [e \in U |-> e[2]]
<1>1. \A V \in SUBSET U : IsFiniteSet(V)
  <2>1. IsFiniteSet({<<a, i>>})
    BY FS_Singleton
  <2>2. IsFiniteSet({<<a, i>>} \cup {<<b, j>>})
    BY <2>1, FS_AddElement
  <2>3. IsFiniteSet(({<<a, i>>} \cup {<<b, j>>}) \cup {<<c, k>>})
    BY <2>2, FS_AddElement
  <2>4. IsFiniteSet((({<<a, i>>} \cup {<<b, j>>}) \cup {<<c, k>>}) \cup {<<d, l>>})
    BY <2>3, FS_AddElement
  <2>5. U = (({<<a, i>>} \cup {<<b, j>>}) \cup {<<c, k>>}) \cup {<<d, l>>}
    OBVIOUS
  <2> HIDE DEF U
  <2> QED
    BY <2>4, <2>5, FS_Subset
<1>f. IsFiniteSet(U)
  BY <1>1
<1>2. g \in [U -> Int] /\ \A e \in U : g[e] = e[2]
  OBVIOUS
<1>3. g[<<a, i>>] = i /\ g[<<b, j>>] = j /\ g[<<c, k>>] = k /\ g[<<d, l>>] = l
  OBVIOUS
<1> HIDE DEF g
<1>4. PICK f \in [SUBSET U -> Int] : Sums(g, U, f)
  <2> HIDE DEF U
  <2> QED
    BY <1>f, <1>2, SumExists
<1>5. \A T \in SUBSET U : \A x \in U : x \notin T => f[T \cup {x}] = g[x] + f[T]
  <2> HIDE DEF U
  <2> QED
    BY <1>f, <1>2, <1>4, SumAdd
<1>6. ASSUME NEW V \in SUBSET U
      PROVE  Deducted(V) = f[V]
  <2> HIDE DEF U
  <2> QED
    BY <1>f, <1>2, <1>4, DeductionSum DEF Deducted
<1>7. ASSUME NEW V \in SUBSET U, Deducted(V) \in 0..100
      PROVE  Scale(V)
  <2>1. \A e \in V : e[2] \in 25..100
    OBVIOUS
  <2>2. \A e, sum \in V : e[1] = sum[1] => e = sum
    OBVIOUS
  <2> QED
    BY <1>1, <1>7, <2>1, <2>2 DEF Scale
<1>8. f[{}] = 0
  BY <1>4 DEF Sums
<1> DEFINE V1 == {<<a, i>>}
           V2 == {<<a, i>>, <<b, j>>}
           V3 == {<<a, i>>, <<b, j>>, <<c, k>>}
<1>9. f[V1] = i
  <2>1. {} \cup {<<a, i>>} = V1
    OBVIOUS
  <2>2. <<a, i>> \in U /\ {} \in SUBSET U /\ <<a, i>> \notin {}
    OBVIOUS
  <2>3. f[{} \cup {<<a, i>>}] = g[<<a, i>>] + f[{}]
    BY <1>5, <2>2
  <2> QED
    BY <1>3, <1>8, <2>1, <2>3
<1>10. f[V2] = i + j
  <2>1. V1 \cup {<<b, j>>} = V2
    OBVIOUS
  <2>2. <<b, j>> \in U /\ V1 \in SUBSET U /\ <<b, j>> \notin V1
    OBVIOUS
  <2> HIDE DEF V1, V2, U
  <2>3. f[V1 \cup {<<b, j>>}] = g[<<b, j>>] + f[V1]
    BY <1>5, <2>2
  <2>4. f[V2] = g[<<b, j>>] + f[V1]
    BY <2>1, <2>3
  <2> QED
    BY <1>3, <1>9, <2>4
<1>11. f[V3] = i + j + k
  <2>1. V2 \cup {<<c, k>>} = V3
    OBVIOUS
  <2>2. <<c, k>> \in U /\ V2 \in SUBSET U /\ <<c, k>> \notin V2
    OBVIOUS
  <2> HIDE DEF V2, V3, U
  <2>3. f[V2 \cup {<<c, k>>}] = g[<<c, k>>] + f[V2]
    BY <1>5, <2>2
  <2>4. f[V3] = g[<<c, k>>] + f[V2]
    BY <2>1, <2>3
  <2> QED
    BY <1>3, <1>10, <2>4
<1>12. f[U] = i + j + k + l
  <2>1. V3 \cup {<<d, l>>} = U
    OBVIOUS
  <2>2. <<d, l>> \in U /\ V3 \in SUBSET U /\ <<d, l>> \notin V3
    OBVIOUS
  <2> HIDE DEF V3, U
  <2>3. f[V3 \cup {<<d, l>>}] = g[<<d, l>>] + f[V3]
    BY <1>5, <2>2
  <2>4. f[U] = g[<<d, l>>] + f[V3]
    BY <2>1, <2>3
  <2> QED
    BY <1>3, <1>11, <2>4
<1>13. V1 \in SUBSET U /\ V2 \in SUBSET U /\ V3 \in SUBSET U /\ U \in SUBSET U
  OBVIOUS
<1>14. i \in 0..100 /\ i + j \in Nat /\ i + j + k \in Nat /\ i + j + k + l \in Nat
  OBVIOUS
<1> HIDE DEF V1, V2, V3, U
<1>15. Scale(V1)
  BY <1>6, <1>7, <1>9, <1>13, <1>14
<1>16. i + j <= 100 => Scale(V2)
  BY <1>6, <1>7, <1>10, <1>13, <1>14
<1>17. i + j + k <= 100 => Scale(V3)
  BY <1>6, <1>7, <1>11, <1>13, <1>14
<1>18. i + j + k + l <= 100 => Scale(U)
  BY <1>6, <1>7, <1>12, <1>13, <1>14
<1> QED
  BY <1>15, <1>16, <1>17, <1>18 DEF V1, V2, V3, U

\* The deductions each framework can make of a source with or without a policy.
Soc2Scale(p) ==
    IF p = NoPolicy THEN {<<"alert", 25>>, <<"policy", 50>>}
    ELSE {<<"alert", 25>>, <<"retention", 25>>, <<"checksum", 25>>, <<"rpo", 25>>}

HipaaScale(p) ==
    IF p = NoPolicy THEN {<<"policy", 100>>}
    ELSE {<<"checksum", 33>>, <<"dedup", 33>>, <<"retention", 34>>}

PciScale(p) ==
    IF p = NoPolicy THEN {<<"policy", 100>>} ELSE {<<"retention", 50>>, <<"frequency", 50>>}

\* None of the three deducts more than the 100 points there are.
LEMMA Scales ==
  ASSUME NEW p
  PROVE  Scale(Soc2Scale(p)) /\ Scale(HipaaScale(p)) /\ Scale(PciScale(p))
<1>1. UpToFour("alert", 25, "policy", 50, "retention", 25, "rpo", 25)
  BY ScaleOf
<1>2. UpToFour("alert", 25, "retention", 25, "checksum", 25, "rpo", 25)
  BY ScaleOf
<1>3. UpToFour("policy", 100, "alert", 25, "retention", 25, "rpo", 25)
  BY ScaleOf
<1>4. UpToFour("checksum", 33, "dedup", 33, "retention", 34, "rpo", 25)
  BY ScaleOf
<1>5. UpToFour("retention", 50, "frequency", 50, "checksum", 25, "rpo", 25)
  BY ScaleOf
<1>6. /\ Scale({<<"alert", 25>>, <<"policy", 50>>})
      /\ Scale({<<"alert", 25>>, <<"retention", 25>>, <<"checksum", 25>>, <<"rpo", 25>>})
  BY <1>1, <1>2 DEF UpToFour
<1>7. Scale({<<"policy", 100>>})
  BY <1>3 DEF UpToFour
<1>8. Scale({<<"checksum", 33>>, <<"dedup", 33>>, <<"retention", 34>>})
  BY <1>4 DEF UpToFour
<1>9. Scale({<<"retention", 50>>, <<"frequency", 50>>})
  BY <1>5 DEF UpToFour
<1> QED
  BY <1>6, <1>7, <1>8, <1>9 DEF Soc2Scale, HipaaScale, PciScale

\* Before and after a step, a framework deducts from its scale only.
LEMMA OnScale ==
  ASSUME NEW s, NEW p
  PROVE  /\ Soc2(s, p) \in SUBSET Soc2Scale(p) /\ Soc2(s, p)' \in SUBSET Soc2Scale(p)
         /\ Hipaa(s, p) \in SUBSET HipaaScale(p) /\ Hipaa(s, p)' \in SUBSET HipaaScale(p)
         /\ Pci(s, p) \in SUBSET PciScale(p) /\ Pci(s, p)' \in SUBSET PciScale(p)
<1>1. Soc2(s, p) \in SUBSET Soc2Scale(p) /\ Soc2(s, p)' \in SUBSET Soc2Scale(p)
  BY DEF Soc2, Soc2Scale, Deduct
<1>2. Hipaa(s, p) \in SUBSET HipaaScale(p) /\ Hipaa(s, p)' \in SUBSET HipaaScale(p)
  BY DEF Hipaa, HipaaScale, Deduct
<1>3. Pci(s, p) \in SUBSET PciScale(p) /\ Pci(s, p)' \in SUBSET PciScale(p)
  BY DEF Pci, PciScale, Deduct
<1> QED
  BY <1>1, <1>2, <1>3

-----------------------------------------------------------------------------
(* The score of a source.                                                  *)

\* The points of a set of frameworks, as the fold adds them up.
LEMMA FrameworkSum ==
  ASSUME NEW F, IsFiniteSet(F), NEW g \in [F -> Int], \A x \in F : g[x] = Points(x[2])
  PROVE  \E sum : Sums(g, F, sum) /\ MapThenSumSet(LAMBDA x : Points(x[2]), F) = sum[F]
<1> DEFINE Fold(f) == [T \in SUBSET F |->
                         IF T = {} THEN 0 ELSE Points(Picked(T)[2]) + f[Others(T)]]
<1>1. PICK f \in [SUBSET F -> Int] : Sums(g, F, f)
  BY SumExists
<1>2. ASSUME NEW T \in SUBSET F, T # {}
      PROVE  g[Picked(T)] = Points(Picked(T)[2])
  BY <1>2, PickedIn
<1>3. f = Fold(f)
  BY <1>1, <1>2 DEF Sums
<1> DEFINE sum == CHOOSE sum : sum = Fold(sum)
<1>4. sum = Fold(sum)
  <2> HIDE DEF Fold
  <2> QED
    BY <1>3
<1>5. MapThenSumSet(LAMBDA x : Points(x[2]), F) = sum[F]
  BY DEF MapThenSumSet, MapThenFoldSet, Picked, Others
<1>6. Sums(g, F, sum)
  <2> HIDE DEF sum
  <2> QED
    BY <1>2, <1>4 DEF Sums
<1> QED
  BY <1>5, <1>6

\* OverallScore and Violations, of any set of frameworks.
MeanOf(F) == Average(MapThenSumSet(LAMBDA x : Points(x[2]), F), Cardinality(F))
Names(a, D) == {<<a, d[1]>> : d \in D}
ViolationsOf(F) == UNION {Names(x[1], x[2]) : x \in F}

\* Two frameworks with their deductions.
Both(a, A, b, B) == {<<a, A>>, <<b, B>>}

\* The mean of one framework.
LEMMA MeanOne ==
  ASSUME NEW a, NEW A, Points(A) \in Nat
  PROVE  MeanOf({<<a, A>>}) = 100 * Points(A)
<1> DEFINE u == <<a, A>>
           F == {u}
           g == [x \in F |-> Points(x[2])]
           y == Points(A)
<1>1. IsFiniteSet(F) /\ Cardinality(F) = 1
  BY FS_Singleton
<1>2. g \in [F -> Int] /\ (\A x \in F : g[x] = Points(x[2])) /\ g[u] = y
  OBVIOUS
<1>3. y \in Nat
  OBVIOUS
<1>u. u[2] = A
  OBVIOUS
<1> HIDE DEF g, u, y
<1>4. PICK sum : Sums(g, F, sum) /\ MapThenSumSet(LAMBDA x : Points(x[2]), F) = sum[F]
  <2> HIDE DEF F
  <2> QED
    BY <1>1, <1>2, FrameworkSum
<1>5. sum[F] = g[u] + sum[F \ {u}]
  BY <1>1, <1>2, <1>4, SumAny
<1>6. F \ {u} = {} /\ sum[{}] = 0
  BY <1>4 DEF Sums
<1>7. sum[F] = y
  BY <1>2, <1>3, <1>5, <1>6
<1>8. MeanOf(F) = Average(y, 1)
  BY <1>1, <1>4, <1>7 DEF MeanOf
<1>9. Average(y, 1) = 100 * y
  BY <1>3 DEF Average
<1> QED
  BY <1>8, <1>9 DEF y, u

\* The mean of two.
LEMMA MeanTwo ==
  ASSUME NEW a, NEW A, NEW b, NEW B, a # b, Points(A) \in Nat, Points(B) \in Nat
  PROVE  MeanOf(Both(a, A, b, B)) = 50 * (Points(A) + Points(B))
<1> DEFINE u == <<a, A>>
           v == <<b, B>>
           F == {u, v}
           g == [x \in F |-> Points(x[2])]
           m == Points(A)
           y == Points(B)
<1>1. IsFiniteSet(F) /\ Cardinality(F) = 2
  <2>1. u # v
    OBVIOUS
  <2>2. IsFiniteSet({u}) /\ Cardinality({u}) = 1
    BY FS_Singleton
  <2>3. F = {u} \cup {v} /\ v \notin {u}
    BY <2>1
  <2> HIDE DEF F, u, v
  <2> QED
    BY <2>2, <2>3, FS_AddElement
<1>2. g \in [F -> Int] /\ (\A x \in F : g[x] = Points(x[2])) /\ g[u] = m /\ g[v] = y
  OBVIOUS
<1>3. m \in Nat /\ y \in Nat /\ u # v
  OBVIOUS
<1> HIDE DEF g, u, v, y, m
<1>4. PICK sum : Sums(g, F, sum) /\ MapThenSumSet(LAMBDA x : Points(x[2]), F) = sum[F]
  <2> HIDE DEF F
  <2> QED
    BY <1>1, <1>2, FrameworkSum
<1>5. sum[F] = g[u] + sum[F \ {u}]
  <2>1. F \in SUBSET F /\ u \in F
    OBVIOUS
  <2> HIDE DEF F
  <2> QED
    BY <1>1, <1>2, <1>4, <2>1, SumAny
<1>6. F \ {u} = {v} /\ {v} \in SUBSET F /\ {v} \ {v} = {}
  BY <1>3
<1>7. sum[{v}] = g[v] + sum[{}]
  BY <1>1, <1>2, <1>4, <1>6, SumAny
<1>8. sum[{}] = 0
  BY <1>4 DEF Sums
<1>9. sum[F] = m + y
  <2>1. sum[F] = m + sum[{v}]
    BY <1>2, <1>5, <1>6
  <2>2. sum[{v}] = y + 0
    BY <1>2, <1>7, <1>8
  <2> QED
    BY <1>3, <2>1, <2>2
<1>10. MeanOf(F) = Average(m + y, 2)
  BY <1>1, <1>4, <1>9 DEF MeanOf
<1>11. Average(m + y, 2) = 50 * (m + y)
  BY <1>3 DEF Average
<1> QED
  BY <1>10, <1>11 DEF y, m, u, v, Both

\* What a source is charged with under one framework.
LEMMA OneViolations ==
  ASSUME NEW a, NEW A
  PROVE  ViolationsOf({<<a, A>>}) = Names(a, A)
BY DEF ViolationsOf

\* And under two.
LEMMA BothViolations ==
  ASSUME NEW a, NEW A, NEW b, NEW B
  PROVE  ViolationsOf(Both(a, A, b, B)) = Names(a, A) \cup Names(b, B)
<1> DEFINE u == <<a, A>>
           v == <<b, B>>
<1>1. u[1] = a /\ u[2] = A /\ v[1] = b /\ v[2] = B
  OBVIOUS
<1> HIDE DEF u, v
<1>2. ViolationsOf({u, v}) = Names(u[1], u[2]) \cup Names(v[1], v[2])
  BY DEF ViolationsOf
<1> QED
  BY <1>1, <1>2 DEF u, v, Both

\* A framework that is charged with less, by control, deducts less, by points.
LEMMA FewerControls ==
  ASSUME NEW a, NEW U, Scale(U), NEW A \in SUBSET U, NEW C \in SUBSET U,
         Names(a, C) \subseteq Names(a, A)
  PROVE  C \subseteq A /\ (C = A \/ Points(C) > Points(A))
<1>1. C \subseteq A
  <2> SUFFICES ASSUME NEW d \in C
               PROVE  d \in A
    OBVIOUS
  <2>1. <<a, d[1]>> \in Names(a, A)
    BY DEF Names
  <2>2. PICK e \in A : <<a, d[1]>> = <<a, e[1]>>
    BY <2>1 DEF Names
  <2>3. d[1] = e[1]
    BY <2>2
  <2> QED
    BY <2>3 DEF Scale
<1> QED
  BY <1>1, ScalePoints

\* The frameworks of a source: one, or two.
LEMMA FrameworksOf ==
  ASSUME NEW s, NEW p
  PROVE  /\ class[s] \notin {"pii", "financial"} => Frameworks(s, p) = {<<"soc2", Soc2(s, p)>>}
         /\ class[s] = "pii" =>
               Frameworks(s, p) = Both("soc2", Soc2(s, p), "hipaa", Hipaa(s, p))
         /\ class[s] = "financial" =>
               Frameworks(s, p) = Both("soc2", Soc2(s, p), "pci", Pci(s, p))
BY DEF Frameworks, Both

\* The same after a step.
LEMMA FrameworksAfter ==
  ASSUME NEW s, NEW p
  PROVE  /\ class'[s] \notin {"pii", "financial"} =>
               Frameworks(s, p)' = {<<"soc2", Soc2(s, p)'>>}
         /\ class'[s] = "pii" =>
               Frameworks(s, p)' = Both("soc2", Soc2(s, p)', "hipaa", Hipaa(s, p)')
         /\ class'[s] = "financial" =>
               Frameworks(s, p)' = Both("soc2", Soc2(s, p)', "pci", Pci(s, p)')
BY DEF Frameworks, Both

\* The score and the violations of a source are those of its frameworks.
LEMMA ScoreIs ==
  ASSUME NEW s, NEW p
  PROVE  /\ OverallScore(s, p) = MeanOf(Frameworks(s, p))
         /\ OverallScore(s, p)' = MeanOf(Frameworks(s, p)')
         /\ Violations(s, p) = ViolationsOf(Frameworks(s, p))
         /\ Violations(s, p)' = ViolationsOf(Frameworks(s, p)')
<1>1. OverallScore(s, p) = MeanOf(Frameworks(s, p))
  BY DEF OverallScore, MeanOf, MapThenSumSet, MapThenFoldSet
<1>2. OverallScore(s, p)' = MeanOf(Frameworks(s, p)')
  BY DEF OverallScore, MeanOf, MapThenSumSet, MapThenFoldSet
<1>3. Violations(s, p) = ViolationsOf(Frameworks(s, p))
  BY DEF Violations, ViolationsOf, Names
<1>4. Violations(s, p)' = ViolationsOf(Frameworks(s, p)')
  BY DEF Violations, ViolationsOf, Names
<1> QED
  BY <1>1, <1>2, <1>3, <1>4

-----------------------------------------------------------------------------
(* Every fix counts.                                                       *)

\* Between two sets of violations of one framework.
LEMMA OneFix ==
  ASSUME NEW a, NEW U, Scale(U), NEW A \in SUBSET U, NEW C \in SUBSET U,
         ViolationsOf({<<a, C>>}) \subseteq ViolationsOf({<<a, A>>}),
         ViolationsOf({<<a, C>>}) # ViolationsOf({<<a, A>>})
  PROVE  MeanOf({<<a, C>>}) > MeanOf({<<a, A>>})
<1>1. Points(A) \in Nat /\ Points(C) \in Nat
  <2>1. Points(A) \in 0..100 /\ Points(C) \in 0..100
    BY ScalePoints
  <2> QED
    BY <2>1
<1>2. MeanOf({<<a, A>>}) = 100 * Points(A) /\ MeanOf({<<a, C>>}) = 100 * Points(C)
  BY <1>1, MeanOne
<1>3. C = A \/ Points(C) > Points(A)
  <2>1. Names(a, C) \subseteq Names(a, A)
    BY OneViolations
  <2> QED
    BY <2>1, FewerControls
<1>4. C # A
  OBVIOUS
<1> QED
  BY <1>1, <1>2, <1>3, <1>4

\* And of two.
LEMMA TwoFix ==
  ASSUME NEW a, NEW b, a # b, NEW U, Scale(U), NEW V, Scale(V),
         NEW A \in SUBSET U, NEW C \in SUBSET U, NEW B \in SUBSET V, NEW D \in SUBSET V,
         ViolationsOf(Both(a, C, b, D)) \subseteq ViolationsOf(Both(a, A, b, B)),
         ViolationsOf(Both(a, C, b, D)) # ViolationsOf(Both(a, A, b, B))
  PROVE  MeanOf(Both(a, C, b, D)) > MeanOf(Both(a, A, b, B))
<1>1. /\ Points(A) \in Nat /\ Points(B) \in Nat
      /\ Points(C) \in Nat /\ Points(D) \in Nat
  <2>1. Points(A) \in 0..100 /\ Points(C) \in 0..100
    BY ScalePoints
  <2>2. Points(B) \in 0..100 /\ Points(D) \in 0..100
    BY ScalePoints
  <2> QED
    BY <2>1, <2>2
<1>2. /\ MeanOf(Both(a, A, b, B)) = 50 * (Points(A) + Points(B))
      /\ MeanOf(Both(a, C, b, D)) = 50 * (Points(C) + Points(D))
  BY <1>1, MeanTwo
<1>3. Names(a, C) \subseteq Names(a, A) /\ Names(b, D) \subseteq Names(b, B)
  <2>1. Names(a, C) \cup Names(b, D) \subseteq Names(a, A) \cup Names(b, B)
    BY BothViolations
  <2>2. \A x \in Names(a, C) : x \notin Names(b, B)
    BY DEF Names
  <2>3. \A x \in Names(b, D) : x \notin Names(a, A)
    BY DEF Names
  <2> QED
    BY <2>1, <2>2, <2>3
<1>4. C = A \/ Points(C) > Points(A)
  BY <1>3, FewerControls
<1>5. D = B \/ Points(D) > Points(B)
  BY <1>3, FewerControls
<1>6. C # A \/ D # B
  OBVIOUS
<1>7. Points(C) >= Points(A) /\ Points(D) >= Points(B)
  BY <1>1, <1>2, <1>4, <1>5
<1>8. Points(C) > Points(A) \/ Points(D) > Points(B)
  BY <1>4, <1>5, <1>6
<1> DEFINE x == Points(A)
           y == Points(B)
           z == Points(C)
           w == Points(D)
<1>9. x \in Nat /\ y \in Nat /\ z \in Nat /\ w \in Nat
  BY <1>1, <1>2
<1>10. z + w > x + y
  <2> HIDE DEF x, y, z, w
  <2>1. z >= x /\ w >= y /\ (z > x \/ w > y)
    BY <1>7, <1>8 DEF x, y, z, w
  <2> QED
    BY <1>9, <2>1
<1>11. 50 * (z + w) > 50 * (x + y)
  <2> HIDE DEF x, y, z, w
  <2> QED
    BY <1>9, <1>10
<1> QED
  BY <1>1, <1>2, <1>11

\* The changes of what the score reads.
ScoreSpec == ScoreInit /\ [][ScoreNext]_scoreVars

\* A source that is rid of a violation and has no new one scores more, for any
\* two states with the same classification.
LEMMA FixRaises ==
  ASSUME NEW s, NEW p, class'[s] = class[s],
         Violations(s, p)' \subseteq Violations(s, p), Violations(s, p)' # Violations(s, p)
  PROVE  OverallScore(s, p)' > OverallScore(s, p)
<1> DEFINE F == Frameworks(s, p)
           E == Frameworks(s, p)'
<1>1. ViolationsOf(E) \subseteq ViolationsOf(F) /\ ViolationsOf(E) # ViolationsOf(F)
  BY ScoreIs
<1>2. Scale(Soc2Scale(p)) /\ Scale(HipaaScale(p)) /\ Scale(PciScale(p))
  BY Scales
<1>3. MeanOf(E) > MeanOf(F)
  <2>1. CASE class[s] \notin {"pii", "financial"}
    <3>1. F = {<<"soc2", Soc2(s, p)>>} /\ E = {<<"soc2", Soc2(s, p)'>>}
      BY <2>1, FrameworksOf, FrameworksAfter
    <3> HIDE DEF E, F
    <3> QED
      BY <1>1, <1>2, <3>1, OnScale, OneFix
  <2>2. CASE class[s] = "pii"
    <3>1. /\ F = Both("soc2", Soc2(s, p), "hipaa", Hipaa(s, p))
          /\ E = Both("soc2", Soc2(s, p)', "hipaa", Hipaa(s, p)')
      BY <2>2, FrameworksOf, FrameworksAfter
    <3> HIDE DEF E, F
    <3> QED
      BY <1>1, <1>2, <3>1, OnScale, TwoFix
  <2>3. CASE class[s] = "financial"
    <3>1. /\ F = Both("soc2", Soc2(s, p), "pci", Pci(s, p))
          /\ E = Both("soc2", Soc2(s, p)', "pci", Pci(s, p)')
      BY <2>3, FrameworksOf, FrameworksAfter
    <3> HIDE DEF E, F
    <3> QED
      BY <1>1, <1>2, <3>1, OnScale, TwoFix
  <2> QED
    BY <2>1, <2>2, <2>3
<1> QED
  BY <1>3, ScoreIs

-----------------------------------------------------------------------------
(* A full score and a clean report.                                        *)

\* A finite set of deductions names finitely many controls.
LEMMA NamesFinite ==
  ASSUME NEW a, NEW A, IsFiniteSet(A)
  PROVE  IsFiniteSet(Names(a, A)) /\ (Names(a, A) = {} <=> A = {})
<1> DEFINE f == [d \in A |-> <<a, d[1]>>]
<1>1. f \in Surjection(A, Names(a, A))
  BY DEF Surjection, Names
<1>2. IsFiniteSet(Names(a, A))
  <2> HIDE DEF f
  <2> QED
    BY <1>1, FS_Surjection DEF ExistsSurjection
<1>3. Names(a, A) = {} <=> A = {}
  BY DEF Names
<1> QED
  BY <1>2, <1>3

\* Full marks are for a source without a violation; with one it is down by at
\* least 12.5 points.
LEMMA SourceScore ==
  ASSUME NEW s, NEW p
  PROVE  /\ IsFiniteSet(Violations(s, p))
         /\ OverallScore(s, p) \in Nat /\ OverallScore(s, p) <= 10000
         /\ IF Violations(s, p) = {} THEN OverallScore(s, p) = 10000
            ELSE OverallScore(s, p) <= 8750
<1> DEFINE A == Soc2(s, p)
           Good(D) == /\ IsFiniteSet(D)
                      /\ Points(D) \in 0..100
                      /\ IF D = {} THEN Points(D) = 100 ELSE Points(D) <= 75
<1>1. ASSUME NEW U, Scale(U), NEW D \in SUBSET U
      PROVE  Good(D)
  <2>1. IsFiniteSet(D)
    BY <1>1, FS_Subset DEF Scale
  <2> QED
    BY <1>1, <2>1, ScalePoints
<1>2. Good(Soc2(s, p)) /\ Good(Hipaa(s, p)) /\ Good(Pci(s, p))
  <2> HIDE DEF Good
  <2> QED
    BY <1>1, OnScale, Scales
<1>3. ASSUME class[s] \notin {"pii", "financial"}
      PROVE  /\ Violations(s, p) = Names("soc2", A)
             /\ OverallScore(s, p) = 100 * Points(A)
  <2>1. Frameworks(s, p) = {<<"soc2", A>>}
    BY <1>3, FrameworksOf
  <2>2. Points(A) \in Nat
    BY <1>2
  <2>3. Violations(s, p) = ViolationsOf({<<"soc2", A>>}) /\ OverallScore(s, p) = MeanOf({<<"soc2", A>>})
    BY <2>1, ScoreIs
  <2> HIDE DEF A
  <2> QED
    BY <2>2, <2>3, OneViolations, MeanOne
<1>4. ASSUME NEW b \in {"hipaa", "pci"}, NEW B, Good(B), Frameworks(s, p) = Both("soc2", A, b, B)
      PROVE  /\ Violations(s, p) = Names("soc2", A) \cup Names(b, B)
             /\ OverallScore(s, p) = 50 * (Points(A) + Points(B))
  <2>1. Points(A) \in Nat /\ Points(B) \in Nat /\ "soc2" # b
    BY <1>2, <1>4
  <2>2. Violations(s, p) = Names("soc2", A) \cup Names(b, B)
    BY <1>4, ScoreIs, BothViolations
  <2>3. OverallScore(s, p) = 50 * (Points(A) + Points(B))
    <3> HIDE DEF A
    <3> QED
      BY <1>4, <2>1, ScoreIs, MeanTwo
  <2> QED
    BY <2>2, <2>3
<1>5. ASSUME NEW b \in {"hipaa", "pci"}, NEW B, Good(B), Frameworks(s, p) = Both("soc2", A, b, B)
      PROVE  /\ IsFiniteSet(Violations(s, p))
             /\ OverallScore(s, p) \in Nat /\ OverallScore(s, p) <= 10000
             /\ IF Violations(s, p) = {} THEN OverallScore(s, p) = 10000
                ELSE OverallScore(s, p) <= 8750
  <2>1. /\ Violations(s, p) = Names("soc2", A) \cup Names(b, B)
        /\ OverallScore(s, p) = 50 * (Points(A) + Points(B))
    BY <1>4, <1>5
  <2>2. IsFiniteSet(Violations(s, p))
    <3>1. IsFiniteSet(Names("soc2", A)) /\ IsFiniteSet(Names(b, B))
      BY <1>2, <1>5, NamesFinite
    <3> QED
      BY <2>1, <3>1, FS_Union
  <2>3. Violations(s, p) = {} <=> A = {} /\ B = {}
    BY <1>2, <1>5, <2>1, NamesFinite
  <2>4. Points(A) \in 0..100 /\ Points(B) \in 0..100
    BY <1>2, <1>5
  <2>5. IF A = {} /\ B = {} THEN Points(A) = 100 /\ Points(B) = 100
        ELSE Points(A) <= 75 \/ Points(B) <= 75
    BY <1>2, <1>5
  <2> DEFINE x == Points(A)
             y == Points(B)
  <2>6. x \in 0..100 /\ y \in 0..100 /\ OverallScore(s, p) = 50 * (x + y)
    BY <2>1, <2>4
  <2>7. IF Violations(s, p) = {} THEN x = 100 /\ y = 100 ELSE x <= 75 \/ y <= 75
    BY <2>3, <2>5
  <2> HIDE DEF A, Good, x, y
  <2> QED
    BY <2>2, <2>6, <2>7
<1>6. CASE class[s] \notin {"pii", "financial"}
  <2>1. /\ Violations(s, p) = Names("soc2", A)
        /\ OverallScore(s, p) = 100 * Points(A)
    BY <1>3, <1>6
  <2>2. IsFiniteSet(Violations(s, p)) /\ (Violations(s, p) = {} <=> A = {})
    BY <1>2, <2>1, NamesFinite
  <2>3. Points(A) \in 0..100 /\ IF A = {} THEN Points(A) = 100 ELSE Points(A) <= 75
    BY <1>2
  <2> HIDE DEF A, Good
  <2> QED
    BY <2>1, <2>2, <2>3
<1>7. CASE class[s] = "pii"
  <2> HIDE DEF Good
  <2> QED
    BY <1>2, <1>5, <1>7, FrameworksOf
<1>8. CASE class[s] = "financial"
  <2> HIDE DEF Good
  <2> QED
    BY <1>2, <1>5, <1>8, FrameworksOf
<1> QED
  BY <1>6, <1>7, <1>8

\* The scores of sources, and how many violations they have, added up.
TotalScore(S, policy) == MapThenSumSet(LAMBDA s : OverallScore(s, policy[s]), S)

\* The sum of the scores of sources, as the fold computes it.
LEMMA ScoreSum ==
  ASSUME NEW S, IsFiniteSet(S), NEW policy, NEW g \in [S -> Int],
         \A s \in S : g[s] = OverallScore(s, policy[s])
  PROVE  \E sum : Sums(g, S, sum) /\ TotalScore(S, policy) = sum[S]
<1> DEFINE Value(s) == OverallScore(s, policy[s])
           Fold(f) == [T \in SUBSET S |-> IF T = {} THEN 0 ELSE Value(Picked(T)) + f[Others(T)]]
<1>1. PICK f \in [SUBSET S -> Int] : Sums(g, S, f)
  BY SumExists
<1>2. ASSUME NEW T \in SUBSET S, T # {}
      PROVE  g[Picked(T)] = Value(Picked(T))
  BY <1>2, PickedIn
<1> HIDE DEF Value
<1>3. f = Fold(f)
  BY <1>1, <1>2 DEF Sums
<1> DEFINE sum == CHOOSE sum : sum = Fold(sum)
<1>4. sum = Fold(sum)
  <2> HIDE DEF Fold
  <2> QED
    BY <1>3
<1>5. TotalScore(S, policy) = sum[S]
  BY DEF TotalScore, MapThenSumSet, MapThenFoldSet, Picked, Others, Value
<1>6. Sums(g, S, sum)
  <2> HIDE DEF sum
  <2> QED
    BY <1>2, <1>4 DEF Sums
<1> QED
  BY <1>5, <1>6

TotalViolations(S, policy) == MapThenSumSet(LAMBDA s : Cardinality(Violations(s, policy[s])), S)

\* The number of their violations.
LEMMA CountSum ==
  ASSUME NEW S, IsFiniteSet(S), NEW policy, NEW g \in [S -> Int],
         \A s \in S : g[s] = Cardinality(Violations(s, policy[s]))
  PROVE  \E sum : Sums(g, S, sum) /\ TotalViolations(S, policy) = sum[S]
<1> DEFINE Value(s) == Cardinality(Violations(s, policy[s]))
           Fold(f) == [T \in SUBSET S |-> IF T = {} THEN 0 ELSE Value(Picked(T)) + f[Others(T)]]
<1>1. PICK f \in [SUBSET S -> Int] : Sums(g, S, f)
  BY SumExists
<1>2. ASSUME NEW T \in SUBSET S, T # {}
      PROVE  g[Picked(T)] = Value(Picked(T))
  BY <1>2, PickedIn
<1> HIDE DEF Value
<1>3. f = Fold(f)
  BY <1>1, <1>2 DEF Sums
<1> DEFINE sum == CHOOSE sum : sum = Fold(sum)
<1>4. sum = Fold(sum)
  <2> HIDE DEF Fold
  <2> QED
    BY <1>3
<1>5. TotalViolations(S, policy) = sum[S]
  BY DEF TotalViolations, MapThenSumSet, MapThenFoldSet, Picked, Others, Value
<1>6. Sums(g, S, sum)
  <2> HIDE DEF sum
  <2> QED
    BY <1>2, <1>4 DEF Sums
<1> QED
  BY <1>5, <1>6

\* Scores of at most 10000 add up to the full score of all of them exactly when
\* each is full; one at 8750 or below costs the sum 1250.
LEMMA ScoresBound ==
  ASSUME NEW S, IsFiniteSet(S), NEW g \in [S -> Nat], \A x \in S : g[x] <= 10000,
         NEW f, Sums(g, S, f)
  PROVE  /\ f[S] \in Nat
         /\ (\A x \in S : g[x] = 10000) => f[S] = 10000 * Cardinality(S)
         /\ (\E x \in S : g[x] <= 8750) => f[S] <= 10000 * Cardinality(S) - 1250
<1> DEFINE Bound(T) == /\ f[T] \in Nat /\ f[T] <= 10000 * Cardinality(T)
                       /\ (\A x \in T : g[x] = 10000) => f[T] = 10000 * Cardinality(T)
           G == {T \in SUBSET S : Bound(T)}
<1>0. g \in [S -> Int]
  OBVIOUS
<1>1. ASSUME NEW T \in SUBSET S, NEW x \in T
      PROVE  /\ f[T] = g[x] + f[T \ {x}] /\ g[x] \in Nat /\ g[x] <= 10000
             /\ Cardinality(T) \in Nat /\ Cardinality(T \ {x}) = Cardinality(T) - 1
  <2>1. IsFiniteSet(T)
    BY FS_Subset
  <2>2. f[T] = g[x] + f[T \ {x}]
    BY <1>0, SumAny
  <2>3. Cardinality(T) \in Nat /\ Cardinality(T \ {x}) = Cardinality(T) - 1
    BY <2>1, FS_RemoveElement, FS_CardinalityType
  <2> QED
    BY <2>2, <2>3
<1>2. {} \in G
  <2>1. f[{}] = 0
    BY SumNone
  <2>2. Cardinality({}) = 0
    BY FS_EmptySet
  <2>3. Bound({})
    BY <2>1, <2>2
  <2> HIDE DEF Bound
  <2> QED
    BY <2>3
<1>3. ASSUME NEW T \in SUBSET S, T # {}, \A x \in T : T \ {x} \in G
      PROVE  T \in G
  <2>1. PICK x \in T : TRUE
    BY <1>3
  <2> DEFINE k == Cardinality(T)
             v == f[T \ {x}]
             w == g[x]
  <2>2. f[T] = w + v /\ w \in Nat /\ w <= 10000 /\ k \in Nat /\ Cardinality(T \ {x}) = k - 1
    BY <1>1
  <2>3. /\ v \in Nat /\ v <= 10000 * (k - 1)
        /\ (\A y \in T \ {x} : g[y] = 10000) => v = 10000 * (k - 1)
    BY <1>3, <2>2
  <2>4. (\A y \in T : g[y] = 10000) => w = 10000 /\ v = 10000 * (k - 1)
    BY <2>3
  <2> HIDE DEF k, v, w
  <2>5. f[T] \in Nat /\ f[T] <= 10000 * k
    BY <2>2, <2>3
  <2>6. (\A y \in T : g[y] = 10000) => f[T] = 10000 * k
    BY <2>2, <2>4
  <2> QED
    BY <2>5, <2>6 DEF k
<1>4. \A T \in SUBSET S : T \in G
  <2> HIDE DEF G
  <2> QED
    BY <1>2, <1>3, SubsetInduction
<1>5. ASSUME NEW x \in S, g[x] <= 8750
      PROVE  f[S] <= 10000 * Cardinality(S) - 1250
  <2> DEFINE k == Cardinality(S)
             v == f[S \ {x}]
             w == g[x]
  <2>1. f[S] = w + v /\ w \in Nat /\ w <= 10000 /\ k \in Nat /\ Cardinality(S \ {x}) = k - 1
    <3>1. S \in SUBSET S
      OBVIOUS
    <3> QED
      BY <1>1, <3>1
  <2>2. v \in Nat /\ v <= 10000 * (k - 1) /\ w <= 8750
    BY <1>4, <1>5, <2>1
  <2> HIDE DEF k, v, w
  <2>3. f[S] <= 10000 * k - 1250
    BY <2>1, <2>2
  <2> QED
    BY <2>3 DEF k
<1>6. Bound(S)
  BY <1>4
<1> QED
  BY <1>5, <1>6

\* A sum of counts is zero when each of them is.
LEMMA CountsZero ==
  ASSUME NEW S, IsFiniteSet(S), NEW g \in [S -> Nat], NEW f, Sums(g, S, f)
  PROVE  f[S] = 0 <=> \A x \in S : g[x] = 0
<1> DEFINE G == {T \in SUBSET S : f[T] \in Nat /\ (f[T] = 0 <=> \A x \in T : g[x] = 0)}
<1>0. g \in [S -> Int]
  OBVIOUS
<1>1. {} \in G
  BY DEF Sums
<1>2. ASSUME NEW T \in SUBSET S, T # {}, \A x \in T : T \ {x} \in G
      PROVE  T \in G
  <2>1. PICK x \in T : TRUE
    BY <1>2
  <2>2. f[T] = g[x] + f[T \ {x}]
    BY <1>0, SumAny
  <2>3. g[x] \in Nat /\ f[T \ {x}] \in Nat
    BY <1>2
  <2>4. f[T \ {x}] = 0 <=> \A y \in T \ {x} : g[y] = 0
    BY <1>2
  <2>5. f[T] \in Nat /\ (f[T] = 0 <=> g[x] = 0 /\ f[T \ {x}] = 0)
    BY <2>2, <2>3
  <2>6. (\A y \in T : g[y] = 0) <=> g[x] = 0 /\ \A y \in T \ {x} : g[y] = 0
    OBVIOUS
  <2> QED
    BY <2>4, <2>5, <2>6
<1>3. \A T \in SUBSET S : T \in G
  <2> HIDE DEF G
  <2> QED
    BY <1>1, <1>2, SubsetInduction
<1> QED
  BY <1>3

\* Half up to the nearest whole number, of a total within half a unit of the
\* full one, and of a total further from it.
LEMMA Rounded ==
  ASSUME NEW k \in Nat, k > 0, NEW total \in Nat
  PROVE  /\ total = 10000 * k => (2 * total + k) \div (2 * k) = 10000
         /\ 2 * total + k < 20000 * k => (2 * total + k) \div (2 * k) # 10000
<1> DEFINE m == 2 * k
           a == 2 * total + k
           q == a \div m
           r == a % m
<1>1. m \in Nat /\ m > 0 /\ a \in Int
  OBVIOUS
<1>2. q \in Int /\ r \in 0..(m - 1) /\ a = m * q + r
  <2> HIDE DEF m, a
  <2> QED
    BY <1>1, Divide
<1>3. ASSUME total = 10000 * k
      PROVE  q = 10000
  <2>1. a = m * 10000 + k
    BY <1>3
  <2>2. r \in Int /\ 0 <= r /\ r < m /\ 0 <= k /\ k < m
    BY <1>1, <1>2
  <2> HIDE DEF m, a, q, r
  <2>3. (q - 10000) * m = k - r
    <3>1. (q - 10000) * m = m * q - m * 10000
      BY <1>1, <1>2
    <3> DEFINE z == m * q
    <3>2. z \in Int /\ m * 10000 \in Int
      BY <1>1, <1>2
    <3> HIDE DEF z
    <3>3. z + r = m * 10000 + k
      BY <1>2, <2>1 DEF z
    <3>4. z - m * 10000 = k - r
      BY <2>2, <3>2, <3>3
    <3> QED
      BY <3>1, <3>4 DEF z
  <2> DEFINE x == q - 10000
  <2>4. x * m < m /\ - m < x * m
    BY <1>1, <2>2, <2>3
  <2>5. x \in Int
    BY <1>2
  <2>6. x = 0
    <3> HIDE DEF x
    <3> QED
      BY <1>1, <2>4, <2>5, SmallMultiple
  <2> QED
    BY <1>2, <2>6
<1>4. ASSUME 2 * total + k < 20000 * k, q = 10000
      PROVE  FALSE
  <2>1. a < 10000 * m
    BY <1>4
  <2>2. a = m * 10000 + r /\ r \in Int /\ r >= 0
    BY <1>1, <1>2, <1>4
  <2> HIDE DEF m, a, q, r
  <2> QED
    BY <1>1, <2>1, <2>2
<1> QED
  BY <1>3, <1>4

\* A tenant of fewer than 2500 sources has the score 100 exactly when no source
\* violates anything; with 2500 one violation can round away.
LEMMA ReportExact ==
  ASSUME NEW tenant, IsFiniteSet(tenant), Cardinality(tenant) < 2500, NEW policy
  PROVE  Report(tenant, policy).overall_score = 10000
            <=> Report(tenant, policy).total_violations = 0
<1> DEFINE g == [s \in tenant |-> OverallScore(s, policy[s])]
           c == [s \in tenant |-> Cardinality(Violations(s, policy[s]))]
           k == Cardinality(tenant)
           total == TotalScore(tenant, policy)
           count == TotalViolations(tenant, policy)
<1>1. ASSUME NEW s \in tenant
      PROVE  /\ g[s] = OverallScore(s, policy[s]) /\ g[s] \in Nat /\ g[s] <= 10000
             /\ c[s] = Cardinality(Violations(s, policy[s])) /\ c[s] \in Nat
             /\ IF c[s] = 0 THEN g[s] = 10000 ELSE g[s] <= 8750
  <2> DEFINE V == Violations(s, policy[s])
             x == OverallScore(s, policy[s])
  <2>1. /\ IsFiniteSet(V) /\ x \in Nat /\ x <= 10000
        /\ IF V = {} THEN x = 10000 ELSE x <= 8750
    BY SourceScore
  <2>2. Cardinality(V) \in Nat /\ (Cardinality(V) = 0 <=> V = {})
    BY <2>1, FS_EmptySet, FS_CardinalityType
  <2>3. g[s] = x /\ c[s] = Cardinality(V)
    OBVIOUS
  <2>4. g[s] = OverallScore(s, policy[s]) /\ c[s] = Cardinality(Violations(s, policy[s]))
    OBVIOUS
  <2>5. g[s] \in Nat /\ g[s] <= 10000 /\ c[s] \in Nat
    <3> HIDE DEF g, c, V, x
    <3> QED
      BY <2>1, <2>2, <2>3
  <2>6. IF c[s] = 0 THEN g[s] = 10000 ELSE g[s] <= 8750
    <3> HIDE DEF g, c, V, x
    <3> QED
      BY <2>1, <2>2, <2>3
  <2> HIDE DEF g, c
  <2> QED
    BY <2>4, <2>5, <2>6
<1>2. g \in [tenant -> Nat] /\ c \in [tenant -> Nat] /\ g \in [tenant -> Int] /\ c \in [tenant -> Int]
  BY <1>1
<1> HIDE DEF g, c
<1>3. PICK sum : Sums(g, tenant, sum) /\ total = sum[tenant]
  BY <1>1, <1>2, ScoreSum
<1>4. PICK e : Sums(c, tenant, e) /\ count = e[tenant]
  BY <1>1, <1>2, CountSum
<1>5. /\ total \in Nat
      /\ (\A x \in tenant : g[x] = 10000) => total = 10000 * k
      /\ (\E x \in tenant : g[x] <= 8750) => total <= 10000 * k - 1250
  <2> HIDE DEF total
  <2> QED
    BY <1>1, <1>2, <1>3, ScoresBound
<1>6. count = 0 <=> \A x \in tenant : c[x] = 0
  <2> HIDE DEF count
  <2> QED
    BY <1>2, <1>4, CountsZero
<1>7. /\ Report(tenant, policy).overall_score =
             IF tenant = {} THEN 10000 ELSE (2 * total + k) \div (2 * k)
      /\ Report(tenant, policy).total_violations = count
  BY DEF Report, TotalScore, TotalViolations
<1>8. k \in Nat /\ (tenant = {} <=> k = 0) /\ k < 2500
  BY FS_EmptySet, FS_CardinalityType
<1> HIDE DEF total, count, k
<1>9. ASSUME count = 0
      PROVE  Report(tenant, policy).overall_score = 10000
  <2>1. total = 10000 * k
    BY <1>1, <1>5, <1>6, <1>9
  <2> QED
    BY <1>5, <1>7, <1>8, <2>1, Rounded
<1>10. ASSUME count # 0
       PROVE  Report(tenant, policy).overall_score # 10000
  <2>1. PICK x \in tenant : c[x] # 0
    BY <1>6, <1>10
  <2>2. total <= 10000 * k - 1250
    BY <1>1, <1>5, <2>1
  <2>3. k > 0 /\ tenant # {}
    BY <1>8, <2>1
  <2>4. 2 * total + k < 20000 * k
    BY <1>5, <1>8, <2>2
  <2> QED
    BY <1>5, <1>7, <1>8, <2>3, <2>4, Rounded
<1> QED
  BY <1>7, <1>9, <1>10

\* README.md 327: a tenant's score is 100 exactly when its report lists no
\* violation, whatever its sources, classes, policies and alerts are, as long as
\* it has fewer than 2500 sources.
THEOREM FullScoreExact ==
  ASSUME IsFiniteSet(Sources), Cardinality(Sources) < 2500
  PROVE  ScoreSpec => []FullScoreIffClean
<1>1. FullScoreIffClean
  <2> SUFFICES ASSUME NEW tenant \in SUBSET Sources, NEW report \in ComplianceReports(tenant)
               PROVE  report.overall_score = 10000 <=> report.total_violations = 0
    BY DEF FullScoreIffClean
  <2>1. PICK policy : report = Report(tenant, policy)
    BY DEF ComplianceReports
  <2>2. IsFiniteSet(tenant) /\ Cardinality(tenant) < 2500
    <3>1. IsFiniteSet(tenant) /\ Cardinality(tenant) <= Cardinality(Sources)
      BY FS_Subset
    <3>2. Cardinality(tenant) \in Nat /\ Cardinality(Sources) \in Nat
      BY <3>1, FS_CardinalityType
    <3> QED
      BY <3>1, <3>2
  <2> QED
    BY <2>1, <2>2, ReportExact
<1> QED
  BY <1>1, PTL

\* compliance_service.py 76, 98, 119: a change that rids a source of a violation
\* and adds none raises its score, whatever the policies and the alerts are.
THEOREM FixesCount == ScoreSpec => EveryFixCounts
<1>1. [\A s \in {t \in Sources : class'[t] = class[t]} :
       \A p \in PolicyChoices(s) \cap PolicyChoices(s)' :
          LET before == Violations(s, p)  after == Violations(s, p)' IN
          after \subseteq before /\ after # before => OverallScore(s, p)' > OverallScore(s, p)
      ]_scoreVars
  BY FixRaises
<1> QED
  BY <1>1, PTL DEF EveryFixCounts

-----------------------------------------------------------------------------
(* Layers of a Merkle tree.                                                *)

\* A function on 1..m is a list of m elements.
LEMMA ListOf ==
  ASSUME NEW m \in Nat, NEW S, NEW f \in [1..m -> S]
  PROVE  f \in Seq(S) /\ Len(f) = m
<1>1. f \in Seq(S)
  BY SeqDef
<1>2. DOMAIN f = 1..m /\ DOMAIN f = 1..Len(f) /\ Len(f) \in Nat
  BY <1>1, LenProperties
<1> QED
  BY <1>1, <1>2

\* What is read of the two kinds of nodes.
LEMMA LeafIs ==
  ASSUME NEW d
  PROVE  Leaf(d).hash = d /\ Leaf(d).is_leaf
BY DEF Leaf

LEMMA ParentIs ==
  ASSUME NEW x, NEW y
  PROVE  /\ Parent(x, y).left = x /\ Parent(x, y).right = y
         /\ Parent(x, y).hash = NodeHash(x.hash, y.hash)
         /\ ~ Parent(x, y).is_leaf
BY DEF Parent

\* The hash of an inner node tells those of its children, and is not that of an
\* empty tree.
LEMMA HashPair ==
  /\ \A a, b, c, d : NodeHash(a, b) = NodeHash(c, d) => a = c /\ b = d
  /\ \A a, b : NodeHash(a, b) # EmptyRoot
<1>1. ASSUME NEW a, NEW b, NEW c, NEW d, NodeHash(a, b) = NodeHash(c, d)
      PROVE  a = c /\ b = d
  BY <1>1 DEF NodeHash
<1>2. ASSUME NEW a, NEW b, NodeHash(a, b) = EmptyRoot
      PROVE  FALSE
  <2>1. Len(<<a, b>>) = 2 /\ Len(<<>>) = 0
    OBVIOUS
  <2>2. <<a, b>> = <<>>
    BY <1>2 DEF NodeHash, EmptyRoot
  <2>3. 2 = 0
    BY <2>1, <2>2, Zenon
  <2> QED
    BY <2>3
<1> QED
  BY <1>1, <1>2

\* The inner nodes over two nodes of S.
Parents(S) == {Parent(x, y) : x \in S, y \in S}

\* The nodes of the next layer: parents of neighbours, an odd last one with itself.
LEMMA Paired ==
  ASSUME NEW S, NEW nodes \in Seq(S), Len(nodes) >= 1
  PROVE  /\ NextLayer(nodes) \in Seq(Parents(S))
         /\ Len(NextLayer(nodes)) = (Len(nodes) + 1) \div 2
         /\ \A i \in 1..((Len(nodes) + 1) \div 2) :
               NextLayer(nodes)[i] =
                   Parent(nodes[2 * i - 1], nodes[IF 2 * i <= Len(nodes) THEN 2 * i ELSE 2 * i - 1])
<1> DEFINE m == Len(nodes)
           w == (m + 1) \div 2
           even == Pad(nodes)
           pair(i) == Parent(nodes[2 * i - 1], nodes[IF 2 * i <= m THEN 2 * i ELSE 2 * i - 1])
           next == [i \in 1..w |-> pair(i)]
<1>1. m \in Nat /\ w \in Nat
  OBVIOUS
<1>2. ASSUME m % 2 = 1 PROVE NextLayer(nodes) = next
  <2>1. even = Append(nodes, nodes[m])
    BY <1>2 DEF Pad, Last
  <2>2. Len(even) = m + 1 /\ 2 * w = m + 1
    BY <1>2, <2>1
  <2>3. \A j \in 1..m : even[j] = nodes[j]
    BY <2>1
  <2>4. even[m + 1] = nodes[m]
    BY <2>1
  <2>5. Len(even) \div 2 = w
    BY <2>2
  <2> HIDE DEF even
  <2>6. ASSUME NEW i \in 1..w
        PROVE  Parent(even[2 * i - 1], even[2 * i]) = pair(i)
    <3>1. 2 * i - 1 \in 1..m /\ (2 * i <= m \/ 2 * i = m + 1)
      BY <1>1, <2>2
    <3>2. even[2 * i - 1] = nodes[2 * i - 1]
      BY <2>3, <3>1
    <3>3. CASE 2 * i <= m
      <4>1. 2 * i \in 1..m
        BY <1>1, <3>3
      <4> QED
        BY <2>3, <3>2, <3>3, <4>1
    <3>4. CASE 2 * i = m + 1
      <4>1. ~(2 * i <= m) /\ 2 * i - 1 = m
        BY <1>1, <3>4
      <4> QED
        BY <2>4, <3>2, <3>4, <4>1
    <3> QED
      BY <3>1, <3>3, <3>4
  <2>7. NextLayer(nodes) = [i \in 1..w |-> Parent(even[2 * i - 1], even[2 * i])]
    BY <2>5 DEF NextLayer, even
  <2> HIDE DEF w, pair
  <2> QED
    BY <2>6, <2>7
<1>3. ASSUME m % 2 # 1 PROVE NextLayer(nodes) = next
  <2>1. even = nodes /\ Len(even) = m /\ 2 * w = m /\ Len(even) \div 2 = w
    BY <1>3 DEF Pad
  <2>2. ASSUME NEW i \in 1..w
        PROVE  Parent(even[2 * i - 1], even[2 * i]) = pair(i)
    BY <1>1, <2>1
  <2>3. NextLayer(nodes) = [i \in 1..w |-> Parent(even[2 * i - 1], even[2 * i])]
    BY <2>1 DEF NextLayer, even
  <2> HIDE DEF w, pair, even
  <2> QED
    BY <2>2, <2>3
<1>4. NextLayer(nodes) = next
  BY <1>2, <1>3
<1>5. ASSUME NEW i \in 1..w
      PROVE  pair(i) \in Parents(S)
  <2>1. 2 * i - 1 \in 1..m /\ (IF 2 * i <= m THEN 2 * i ELSE 2 * i - 1) \in 1..m
    BY <1>1
  <2> DEFINE x == nodes[2 * i - 1]
             y == nodes[IF 2 * i <= m THEN 2 * i ELSE 2 * i - 1]
  <2>2. x \in S /\ y \in S
    BY <2>1
  <2> HIDE DEF x, y
  <2>3. Parent(x, y) \in Parents(S)
    BY <2>2 DEF Parents
  <2> QED
    BY <2>3 DEF x, y
<1>6. next \in [1..w -> Parents(S)] /\ \A i \in 1..w : next[i] = pair(i)
  <2> HIDE DEF pair, w
  <2> QED
    BY <1>5
<1>7. next \in Seq(Parents(S)) /\ Len(next) = w
  <2> HIDE DEF next, w
  <2> QED
    BY <1>1, <1>6, ListOf
<1> HIDE DEF next
<1> QED
  BY <1>4, <1>6, <1>7

\* One pass of the loop, and the leaves it starts from.
Pass(nodes) == IF Len(nodes) > 1 THEN NextLayer(nodes) ELSE nodes
LeafLayer(hs) == [i \in 1..Len(hs) |-> Leaf(hs[i])]

\* The layers are those the loop makes.
LEMMA LayersAre ==
  ASSUME NEW hs, Len(hs) \in Nat
  PROVE  /\ DOMAIN Layers(hs) = 0..Len(hs)
         /\ Layers(hs)[0] = LeafLayer(hs)
         /\ \A k \in 0..(Len(hs) - 1) : Layers(hs)[k + 1] = Pass(Layers(hs)[k])
<1> DEFINE m == Len(hs)
           leaves == LeafLayer(hs)
           Loop(f, j) == [k \in 0..j |-> IF k = 0 THEN leaves ELSE Pass(f[k - 1])]
           K == {j \in 0..m : \E f : f = Loop(f, j)}
<1>0. m \in Nat
  OBVIOUS
<1> HIDE DEF m, leaves
<1>1. 0 \in K
  <2> DEFINE f == [k \in 0..0 |-> leaves]
  <2>1. f = Loop(f, 0)
    OBVIOUS
  <2> HIDE DEF f, Loop
  <2> QED
    BY <1>0, <2>1
<1>2. ASSUME NEW j \in 0..(m - 1), j \in K
      PROVE  j + 1 \in K
  <2>1. PICK f : f = Loop(f, j)
    BY <1>2
  <2> DEFINE g == [k \in 0..(j + 1) |-> IF k = 0 THEN leaves ELSE Pass(f[k - 1])]
  <2>2. ASSUME NEW k \in 0..j
        PROVE  g[k] = f[k]
    <3>1. f[k] = IF k = 0 THEN leaves ELSE Pass(f[k - 1])
      BY <2>1
    <3> QED
      BY <3>1
  <2>3. ASSUME NEW k \in 0..(j + 1)
        PROVE  g[k] = IF k = 0 THEN leaves ELSE Pass(g[k - 1])
    <3>1. g[k] = IF k = 0 THEN leaves ELSE Pass(f[k - 1])
      OBVIOUS
    <3>2. k # 0 => k - 1 \in 0..j
      OBVIOUS
    <3> HIDE DEF g
    <3> QED
      BY <2>2, <3>1, <3>2
  <2>4. g = Loop(g, j + 1)
    <3>1. g = [k \in 0..(j + 1) |-> g[k]]
      OBVIOUS
    <3> HIDE DEF g
    <3> QED
      BY <2>3, <3>1
  <2>5. j + 1 \in 0..m
    BY <1>0
  <2> HIDE DEF g, Loop
  <2> QED
    BY <2>4, <2>5
<1>3. m \in K
  <2>1. \A j \in 0..m : j \in K
    <3> HIDE DEF K
    <3> QED
      BY <1>0, <1>1, <1>2, UpTo
  <2>2. m \in 0..m
    BY <1>0
  <2> HIDE DEF K
  <2> QED
    BY <2>1, <2>2
<1>4. PICK g : g = Loop(g, m)
  <2> HIDE DEF Loop
  <2> QED
    BY <1>3
<1> DEFINE L == CHOOSE f : f = Loop(f, m)
<1>5. L = Loop(L, m)
  <2> HIDE DEF Loop
  <2> QED
    BY <1>4
<1>6. Layers(hs) = L
  BY DEF Layers, Pass, LeafLayer, m, leaves
<1> HIDE DEF L
<1>7. DOMAIN L = 0..m /\ L[0] = leaves
  BY <1>0, <1>5
<1>8. ASSUME NEW k \in 0..(m - 1)
      PROVE  L[k + 1] = Pass(L[k])
  <2>1. k + 1 \in 0..m /\ k + 1 # 0 /\ (k + 1) - 1 = k
    BY <1>0
  <2>2. L[k + 1] = Pass(L[(k + 1) - 1])
    BY <1>5, <2>1
  <2> QED
    BY <2>1, <2>2
<1> QED
  BY <1>6, <1>7, <1>8 DEF m, leaves

\* y is the parent of x and of another node.
Above(y, x) == ~ y.is_leaf /\ (x = y.left \/ x = y.right)

\* y is the parent of two nodes of S.
Joins(y, S) ==
    /\ ~ y.is_leaf /\ y.left \in S /\ y.right \in S
    /\ y.hash = NodeHash(y.left.hash, y.right.hash)

\* What a pass does to a list of nodes: each of the new ones is an old one or the
\* parent of two, and each old one is kept or has a parent.
LEMMA PassNodes ==
  ASSUME NEW S, NEW nodes \in Seq(S), Len(nodes) >= 1
  PROVE  /\ \E T : Pass(nodes) \in Seq(T)
         /\ Len(Pass(nodes)) = IF Len(nodes) > 1 THEN (Len(nodes) + 1) \div 2 ELSE 1
         /\ \A y \in ToSet(Pass(nodes)) :
               \/ y \in ToSet(nodes)
               \/ Joins(y, ToSet(nodes))
         /\ \A x \in ToSet(nodes) : \E y \in ToSet(Pass(nodes)) : y = x \/ Above(y, x)
<1>1. CASE Len(nodes) > 1
  <2> DEFINE m == Len(nodes)
             w == (m + 1) \div 2
             P == NextLayer(nodes)
             right(i) == IF 2 * i <= m THEN 2 * i ELSE 2 * i - 1
  <2>0. m \in Nat /\ w \in Nat /\ Pass(nodes) = P /\ DOMAIN nodes = 1..m
    BY <1>1, LenProperties DEF Pass
  <2>1. /\ P \in Seq(Parents(S)) /\ Len(P) = w
        /\ \A i \in 1..w :
            P[i] = Parent(nodes[2 * i - 1], nodes[right(i)])
    BY <1>1, Paired
  <2> HIDE DEF P
  <2>2. DOMAIN P = 1..w
    BY <2>1, LenProperties
  <2>3. ASSUME NEW i \in 1..w
        PROVE  2 * i - 1 \in 1..m /\ right(i) \in 1..m
    BY <2>0
  <2> HIDE DEF right
  <2>4. ASSUME NEW y \in ToSet(P)
        PROVE  Joins(y, ToSet(nodes))
    <3>1. PICK i \in 1..w : y = P[i]
      BY <2>2 DEF ToSet
    <3>2. y = Parent(nodes[2 * i - 1], nodes[right(i)])
      BY <2>1, <3>1
    <3>3. nodes[2 * i - 1] \in ToSet(nodes) /\ nodes[right(i)] \in ToSet(nodes)
      BY <2>0, <2>3 DEF ToSet
    <3> QED
      BY <3>2, <3>3, ParentIs DEF Joins
  <2>5. ASSUME NEW x \in ToSet(nodes)
        PROVE  \E y \in ToSet(P) : Above(y, x)
    <3>1. PICK i \in 1..m : x = nodes[i]
      BY <2>0 DEF ToSet
    <3> DEFINE j == (i + 1) \div 2
    <3>2. j \in 1..w /\ (i = 2 * j - 1 \/ i = right(j))
      BY <2>0, <3>1 DEF right
    <3> HIDE DEF j
    <3>3. P[j] = Parent(nodes[2 * j - 1], nodes[right(j)])
      BY <2>1, <3>2
    <3>4. Above(P[j], x)
      BY <3>1, <3>2, <3>3, ParentIs DEF Above
    <3>5. P[j] \in ToSet(P)
      BY <2>2, <3>2 DEF ToSet
    <3> QED
      BY <3>4, <3>5
  <2> HIDE DEF w, m
  <2> QED
    BY <1>1, <2>0, <2>1, <2>4, <2>5 DEF w, m
<1>2. CASE ~(Len(nodes) > 1)
  <2>0. Len(nodes) \in Nat
    BY LenProperties
  <2>1. Len(nodes) = 1 /\ Pass(nodes) = nodes
    BY <1>2, <2>0 DEF Pass
  <2> QED
    BY <1>2, <2>1
<1> QED
  BY <1>1, <1>2

\* The nodes of the k-th layer.
Level(hs, k) == ToSet(Layers(hs)[k])

\* The lists of the layers are lists, none is empty, and the last has one node.
LEMMA LayerLists ==
  ASSUME NEW D, NEW hs \in Seq(D), Len(hs) >= 1
  PROVE  /\ \A k \in 0..Len(hs) : (\E S : Layers(hs)[k] \in Seq(S)) /\ Len(Layers(hs)[k]) >= 1
         /\ Len(Layers(hs)[Len(hs)]) = 1
<1> DEFINE m == Len(hs)
           L == Layers(hs)
           Shape(k) == /\ \E S : L[k] \in Seq(S)
                       /\ Len(L[k]) \in Nat /\ Len(L[k]) >= 1
                       /\ Len(L[k]) = 1 \/ Len(L[k]) <= m - k
           K == {k \in 0..m : Shape(k)}
<1>0. m \in Nat /\ m >= 1
  OBVIOUS
<1>1. L[0] = LeafLayer(hs) /\ \A k \in 0..(m - 1) : L[k + 1] = Pass(L[k])
  BY <1>0, LayersAre
<1> HIDE DEF L
<1>2. Shape(0)
  <2> DEFINE T == {Leaf(d) : d \in D}
             leaves == LeafLayer(hs)
  <2>1. leaves \in [1..m -> T]
    BY DEF LeafLayer
  <2> HIDE DEF leaves, T
  <2>2. leaves \in Seq(T) /\ Len(leaves) = m
    BY <1>0, <2>1, ListOf
  <2>3. L[0] = leaves
    BY <1>1 DEF leaves
  <2> HIDE DEF m
  <2> QED
    BY <1>0, <2>2, <2>3
<1>3. ASSUME NEW k \in 0..(m - 1), Shape(k)
      PROVE  Shape(k + 1)
  <2>1. PICK S : L[k] \in Seq(S)
    BY <1>3
  <2>2. L[k + 1] = Pass(L[k])
    BY <1>1
  <2>3. /\ \E T : Pass(L[k]) \in Seq(T)
        /\ Len(Pass(L[k])) = IF Len(L[k]) > 1 THEN (Len(L[k]) + 1) \div 2 ELSE 1
    BY <1>3, <2>1, PassNodes
  <2> DEFINE a == Len(L[k])
             b == Len(L[k + 1])
  <2>4. a \in Nat /\ a >= 1 /\ (a = 1 \/ a <= m - k) /\ b = IF a > 1 THEN (a + 1) \div 2 ELSE 1
    BY <1>3, <2>2, <2>3
  <2>5. \E T : L[k + 1] \in Seq(T)
    BY <2>2, <2>3
  <2>6. b \in Nat /\ b >= 1 /\ (b = 1 \/ b <= m - (k + 1))
    <3> HIDE DEF a, b, m
    <3> QED
      BY <1>0, <2>4
  <2> QED
    BY <2>5, <2>6
<1>4. \A k \in 0..m : k \in K
  <2>1. 0 \in K
    BY <1>0, <1>2
  <2>2. ASSUME NEW k \in 0..(m - 1), k \in K
        PROVE  k + 1 \in K
    <3>1. k + 1 \in 0..m
      BY <1>0
    <3> HIDE DEF Shape, m
    <3> QED
      BY <1>3, <2>2, <3>1
  <2> HIDE DEF K, m
  <2> QED
    BY <1>0, <2>1, <2>2, UpTo
<1>5. Shape(m)
  BY <1>0, <1>4
<1>6. Len(L[m]) = 1
  BY <1>0, <1>5
<1> QED
  BY <1>4, <1>6 DEF L

\* The levels of a tree, from the leaves to the root.
LEMMA Levels ==
  ASSUME NEW D, NEW hs \in Seq(D), Len(hs) >= 1
  PROVE  /\ Level(hs, 0) = {Leaf(d) : d \in ToSet(hs)}
         /\ Level(hs, Len(hs)) = {Root(hs)}
         /\ \A k \in 0..(Len(hs) - 1) :
               /\ \A y \in Level(hs, k + 1) :
                     \/ y \in Level(hs, k)
                     \/ Joins(y, Level(hs, k))
               /\ \A x \in Level(hs, k) : \E y \in Level(hs, k + 1) : y = x \/ Above(y, x)
<1> DEFINE m == Len(hs)
           L == Layers(hs)
<1>0. m \in Nat /\ m >= 1
  OBVIOUS
<1>1. L[0] = LeafLayer(hs) /\ \A k \in 0..(m - 1) : L[k + 1] = Pass(L[k])
  BY <1>0, LayersAre
<1>2. /\ \A k \in 0..m : (\E S : L[k] \in Seq(S)) /\ Len(L[k]) >= 1
      /\ Len(L[m]) = 1
  BY LayerLists
<1> HIDE DEF L
<1>3. ToSet(L[0]) = {Leaf(d) : d \in ToSet(hs)}
  <2>1. DOMAIN hs = 1..m
    BY LenProperties
  <2>2. L[0] = [i \in 1..m |-> Leaf(hs[i])]
    BY <1>1 DEF LeafLayer
  <2> HIDE DEF m
  <2> QED
    BY <2>1, <2>2 DEF ToSet
<1>4. ToSet(L[m]) = {Root(hs)}
  <2>1. m \in 0..m
    BY <1>0
  <2>2. PICK S : L[m] \in Seq(S)
    BY <1>2, <2>1
  <2>3. DOMAIN L[m] = 1..1
    BY <1>2, <2>2, LenProperties
  <2>4. Root(hs) = L[m][1]
    BY DEF Root, L
  <2> QED
    BY <2>3, <2>4 DEF ToSet
<1>5. ASSUME NEW k \in 0..(m - 1)
      PROVE  /\ \A y \in ToSet(L[k + 1]) :
                   \/ y \in ToSet(L[k])
                   \/ Joins(y, ToSet(L[k]))
             /\ \A x \in ToSet(L[k]) : \E y \in ToSet(L[k + 1]) : y = x \/ Above(y, x)
  <2>1. k \in 0..m
    BY <1>0
  <2>2. PICK S : L[k] \in Seq(S)
    BY <1>2, <2>1
  <2>3. Len(L[k]) >= 1 /\ L[k + 1] = Pass(L[k])
    BY <1>1, <1>2, <2>1
  <2> QED
    BY <2>2, <2>3, PassNodes
<1> QED
  BY <1>3, <1>4, <1>5 DEF Level, L

\* The nodes of a tree are those of its levels.
LEMMA NodesAre ==
  ASSUME NEW D, NEW hs \in Seq(D)
  PROVE  /\ AllNodes(hs) = UNION {Level(hs, k) : k \in 0..Len(hs)}
         /\ hs = <<>> => AllNodes(hs) = {}
<1>1. DOMAIN Layers(hs) = 0..Len(hs) /\ Layers(hs)[0] = LeafLayer(hs)
  BY LayersAre
<1>2. AllNodes(hs) = UNION {Level(hs, k) : k \in 0..Len(hs)}
  BY <1>1 DEF AllNodes, Level
<1>3. ASSUME hs = <<>>
      PROVE  AllNodes(hs) = {}
  <2>1. Len(hs) = 0
    BY <1>3
  <2>2. Level(hs, 0) = {}
    BY <1>1, <2>1 DEF Level, LeafLayer, ToSet
  <2> QED
    BY <1>2, <2>1, <2>2
<1> QED
  BY <1>2, <1>3

\* The nodes of the first levels.
UpToLevel(hs, k) == UNION {Level(hs, j) : j \in 0..k}

\* A node has both its children on lower levels, or is a leaf of the list.
LEMMA NodeKinds ==
  ASSUME NEW D, NEW hs \in Seq(D), Len(hs) >= 1
  PROVE  /\ \A k \in 0..Len(hs) : \A x \in UpToLevel(hs, k) :
               \/ \E d \in ToSet(hs) : x = Leaf(d)
               \/ k > 0 /\ Joins(x, UpToLevel(hs, k - 1))
         /\ AllNodes(hs) = UpToLevel(hs, Len(hs))
<1> DEFINE m == Len(hs)
           Kind(k) == \A x \in UpToLevel(hs, k) :
               \/ \E d \in ToSet(hs) : x = Leaf(d)
               \/ k > 0 /\ Joins(x, UpToLevel(hs, k - 1))
           K == {k \in 0..m : Kind(k)}
<1>0. m \in Nat
  OBVIOUS
<1>1. 0 \in K
  <2>1. UpToLevel(hs, 0) = Level(hs, 0)
    BY DEF UpToLevel
  <2>2. Level(hs, 0) = {Leaf(d) : d \in ToSet(hs)}
    BY Levels
  <2> QED
    BY <1>0, <2>1, <2>2
<1>2. ASSUME NEW k \in 0..(m - 1), k \in K
      PROVE  k + 1 \in K
  <2>1. ASSUME NEW x \in UpToLevel(hs, k + 1)
        PROVE  \/ \E d \in ToSet(hs) : x = Leaf(d)
               \/ Joins(x, UpToLevel(hs, k))
    <3>1. CASE x \in UpToLevel(hs, k)
      <4>1. \/ \E d \in ToSet(hs) : x = Leaf(d)
            \/ k > 0 /\ Joins(x, UpToLevel(hs, k - 1))
        BY <1>2, <3>1
      <4>2. UpToLevel(hs, k - 1) \subseteq UpToLevel(hs, k)
        BY DEF UpToLevel
      <4> QED
        BY <4>1, <4>2 DEF Joins
    <3>2. CASE x \notin UpToLevel(hs, k)
      <4>1. x \in Level(hs, k + 1)
        <5>1. PICK j \in 0..(k + 1) : x \in Level(hs, j)
          BY <2>1 DEF UpToLevel
        <5>2. j \notin 0..k
          BY <3>2, <5>1 DEF UpToLevel
        <5>3. j = k + 1
          BY <5>2
        <5> QED
          BY <5>1, <5>3
      <4>2. Level(hs, k) \subseteq UpToLevel(hs, k)
        BY DEF UpToLevel
      <4>3. \/ x \in Level(hs, k)
            \/ Joins(x, Level(hs, k))
        BY <4>1, Levels
      <4> QED
        BY <3>2, <4>2, <4>3 DEF Joins
    <3> QED
      BY <3>1, <3>2
  <2>2. k + 1 > 0 /\ (k + 1) - 1 = k /\ k + 1 \in 0..m
    BY <1>0
  <2>3. Kind(k + 1)
    BY <2>1, <2>2
  <2> HIDE DEF Kind, m
  <2> QED
    BY <2>2, <2>3
<1>3. \A k \in 0..m : k \in K
  <2> HIDE DEF K, m
  <2> QED
    BY <1>0, <1>1, <1>2, UpTo
<1>4. AllNodes(hs) = UpToLevel(hs, m)
  BY NodesAre DEF UpToLevel
<1> QED
  BY <1>3, <1>4

-----------------------------------------------------------------------------
(* The traversal.                                                          *)

\* What the traversal returns for a node, from what it returns for the children.
Collected(f, x, others) ==
    IF x.hash \in others THEN <<>>
    ELSE IF x.is_leaf THEN <<x.hash>>
    ELSE f[x.left] \o f[x.right]

\* The recursion of the traversal is well founded: it defines a function on the nodes.
LEMMA CollectIs ==
  ASSUME NEW D, NEW hs \in Seq(D), Len(hs) >= 1, NEW others
  PROVE  CollectNewChunks(hs, others) =
             [x \in AllNodes(hs) |-> Collected(CollectNewChunks(hs, others), x, others)]
<1> DEFINE m == Len(hs)
           U(k) == UpToLevel(hs, k)
           Rec(f, k) == [x \in U(k) |-> Collected(f, x, others)]
           K == {k \in 0..m : \E f : f = Rec(f, k)}
<1>0. m \in Nat
  OBVIOUS
<1>1. /\ \A k \in 0..m : \A x \in U(k) :
            \/ \E d \in ToSet(hs) : x = Leaf(d)
            \/ k > 0 /\ Joins(x, U(k - 1))
      /\ AllNodes(hs) = U(m)
  BY NodeKinds
<1> HIDE DEF m, U
<1>2. 0 \in K
  <2> DEFINE f == [x \in U(0) |-> IF x.hash \in others THEN <<>> ELSE <<x.hash>>]
  <2>1. ASSUME NEW x \in U(0)
        PROVE  f[x] = Collected(f, x, others)
    <3>1. PICK d : x = Leaf(d)
      BY <1>0, <1>1
    <3>2. x.is_leaf
      BY <3>1, LeafIs
    <3> QED
      BY <3>2 DEF Collected
  <2>2. f = [x \in U(0) |-> f[x]]
    OBVIOUS
  <2>3. f = Rec(f, 0)
    <3> HIDE DEF f
    <3> QED
      BY <2>1, <2>2
  <2> HIDE DEF f, Rec
  <2> QED
    BY <1>0, <2>3
<1>3. ASSUME NEW k \in 0..(m - 1), k \in K
      PROVE  k + 1 \in K
  <2>1. PICK f : f = Rec(f, k)
    BY <1>3
  <2> DEFINE g == [x \in U(k + 1) |-> Collected(f, x, others)]
  <2>2. U(k) \subseteq U(k + 1) /\ k + 1 \in 0..m /\ (k + 1) - 1 = k
    BY <1>0 DEF U, UpToLevel
  <2>3. ASSUME NEW x \in U(k)
        PROVE  g[x] = f[x]
    <3>1. f[x] = Collected(f, x, others)
      BY <2>1
    <3> QED
      BY <2>2, <3>1
  <2>4. ASSUME NEW x \in U(k + 1)
        PROVE  Collected(f, x, others) = Collected(g, x, others)
    <3>1. CASE \E d : x = Leaf(d)
      <4>1. x.is_leaf
        BY <3>1, LeafIs
      <4> QED
        BY <4>1 DEF Collected
    <3>2. CASE ~ \E d : x = Leaf(d)
      <4>1. x.left \in U(k) /\ x.right \in U(k)
        BY <1>1, <2>2, <3>2 DEF Joins
      <4> HIDE DEF g
      <4> QED
        BY <2>3, <4>1 DEF Collected
    <3> QED
      BY <3>1, <3>2
  <2>5. g = Rec(g, k + 1)
    BY <2>4
  <2> HIDE DEF g, Rec
  <2> QED
    BY <2>2, <2>5
<1>4. m \in K
  <2>1. \A k \in 0..m : k \in K
    <3> HIDE DEF K
    <3> QED
      BY <1>0, <1>2, <1>3, UpTo
  <2>2. m \in 0..m
    BY <1>0
  <2> HIDE DEF K
  <2> QED
    BY <2>1, <2>2
<1> DEFINE c == CHOOSE f : f = Rec(f, m)
<1>5. c = Rec(c, m)
  <2> HIDE DEF Rec
  <2> QED
    BY <1>4
<1>6. CollectNewChunks(hs, others) = c
  BY <1>1 DEF CollectNewChunks, Collected
<1> QED
  BY <1>1, <1>5, <1>6

\* The elements of two lists, one after the other.
LEMMA JoinedSet ==
  ASSUME NEW S, NEW s \in Seq(S), NEW t \in Seq(S)
  PROVE  ToSet(s \o t) = ToSet(s) \cup ToSet(t)
<1>1. /\ Len(s) \in Nat /\ Len(t) \in Nat /\ DOMAIN s = 1..Len(s) /\ DOMAIN t = 1..Len(t)
      /\ s \o t \in Seq(S) /\ Len(s \o t) = Len(s) + Len(t)
      /\ \A i \in 1..(Len(s) + Len(t)) :
            (s \o t)[i] = IF i <= Len(s) THEN s[i] ELSE t[i - Len(s)]
  BY LenProperties, ConcatProperties
<1>2. DOMAIN (s \o t) = 1..(Len(s) + Len(t))
  BY <1>1, LenProperties
<1> DEFINE a == Len(s)
           b == Len(t)
           j == s \o t
<1>3. /\ a \in Nat /\ b \in Nat /\ DOMAIN s = 1..a /\ DOMAIN t = 1..b /\ DOMAIN j = 1..(a + b)
      /\ \A i \in 1..(a + b) : j[i] = IF i <= a THEN s[i] ELSE t[i - a]
  BY <1>1, <1>2
<1> HIDE DEF a, b, j
<1>4. ASSUME NEW x \in ToSet(j)
      PROVE  x \in ToSet(s) \cup ToSet(t)
  <2>1. PICK i \in 1..(a + b) : x = j[i]
    BY <1>3 DEF ToSet
  <2>2. i \in 1..a \/ (i - a \in 1..b /\ ~(i <= a))
    <3>1. a \in Nat /\ b \in Nat /\ i \in 1..(a + b)
      BY <1>3
    <3> QED
      BY <3>1
  <2> QED
    BY <1>3, <2>1, <2>2 DEF ToSet
<1>5. ASSUME NEW x \in ToSet(s)
      PROVE  x \in ToSet(j)
  <2>1. PICK i \in 1..a : x = s[i]
    BY <1>3 DEF ToSet
  <2>2. i \in 1..(a + b) /\ i <= a
    BY <1>3
  <2> QED
    BY <1>3, <2>1, <2>2 DEF ToSet
<1>6. ASSUME NEW x \in ToSet(t)
      PROVE  x \in ToSet(j)
  <2>1. PICK i \in 1..b : x = t[i]
    BY <1>3 DEF ToSet
  <2>2. i + a \in 1..(a + b) /\ ~(i + a <= a) /\ (i + a) - a = i
    BY <1>3
  <2> QED
    BY <1>3, <2>1, <2>2 DEF ToSet
<1> QED
  BY <1>4, <1>5, <1>6 DEF j

\* Of a node whose hash the other tree does not have, the traversal returns the chunk,
\* or what it returns for both children.
LeafKept(c, x, others) ==
    x.hash \notin others /\ x.is_leaf => c[x] = <<x.hash>>
Whole(c, x, others) ==
    x.hash \notin others /\ ~ x.is_leaf =>
        ToSet(c[x]) = ToSet(c[x.left]) \cup ToSet(c[x.right])

\* The traversal returns chunks of the list, none of them a hash of the other tree, and
\* leaves nothing out at a node whose hash the other tree does not have.
LEMMA CollectSound ==
  ASSUME NEW D, NEW hs \in Seq(D), Len(hs) >= 1, NEW others, NEW c,
         c = CollectNewChunks(hs, others)
  PROVE  \A x \in AllNodes(hs) :
            /\ c[x] \in Seq(ToSet(hs))
            /\ \A d \in ToSet(c[x]) : d \notin others
            /\ LeafKept(c, x, others) /\ Whole(c, x, others)
<1> DEFINE m == Len(hs)
           U(k) == UpToLevel(hs, k)
           T == ToSet(hs)
           Fine(x) == c[x] \in Seq(T) /\ \A d \in ToSet(c[x]) : d \notin others
           K == {k \in 0..m : \A x \in U(k) : Fine(x) /\ Whole(c, x, others)}
<1>0. m \in Nat
  OBVIOUS
<1>1. /\ \A k \in 0..m : \A x \in U(k) :
            \/ \E d \in T : x = Leaf(d)
            \/ k > 0 /\ Joins(x, U(k - 1))
      /\ AllNodes(hs) = U(m)
  BY NodeKinds
<1>2. ASSUME NEW k \in 0..m, NEW x \in U(k)
      PROVE  c[x] = Collected(c, x, others)
  <2>1. x \in U(m)
    BY <1>0 DEF UpToLevel
  <2>2. c = [y \in AllNodes(hs) |-> Collected(c, y, others)]
    BY CollectIs
  <2> QED
    BY <1>1, <2>1, <2>2
<1> HIDE DEF m, U, T
<1>3. ASSUME NEW x, x.hash \in others, c[x] = Collected(c, x, others)
      PROVE  Fine(x) /\ Whole(c, x, others)
  <2>1. c[x] = <<>>
    BY <1>3 DEF Collected
  <2> QED
    BY <1>3, <2>1 DEF ToSet, Whole
<1>4. ASSUME NEW d \in T, NEW x, x = Leaf(d), c[x] = Collected(c, x, others)
      PROVE  Fine(x) /\ Whole(c, x, others)
  <2>1. CASE x.hash \notin others
    <3>0. x.is_leaf /\ x.hash = d
      BY <1>4, LeafIs
    <3>1. c[x] = <<d>>
      BY <1>4, <2>1, <3>0 DEF Collected
    <3>2. <<d>> \in Seq(T) /\ ToSet(<<d>>) = {d}
      BY <1>4 DEF ToSet
    <3>3. Fine(x)
      BY <2>1, <3>0, <3>1, <3>2
    <3> QED
      BY <3>0, <3>3 DEF Whole
  <2> QED
    BY <1>3, <1>4, <2>1
<1>5. 0 \in K
  <2>1. ASSUME NEW x \in U(0)
        PROVE  Fine(x) /\ Whole(c, x, others)
    <3>1. 0 \in 0..m
      BY <1>0
    <3>2. PICK d \in T : x = Leaf(d)
      BY <1>1, <3>1
    <3>3. c[x] = Collected(c, x, others)
      BY <1>2, <3>1
    <3> HIDE DEF Fine
    <3> QED
      BY <1>4, <3>2, <3>3
  <2> HIDE DEF Fine
  <2> QED
    BY <1>0, <2>1
<1>6. ASSUME NEW k \in 0..(m - 1), k \in K
      PROVE  k + 1 \in K
  <2>0. k + 1 \in 0..m /\ (k + 1) - 1 = k
    BY <1>0
  <2>1. ASSUME NEW x \in U(k + 1)
        PROVE  Fine(x) /\ Whole(c, x, others)
    <3>1. c[x] = Collected(c, x, others)
      BY <1>2, <2>0
    <3>2. CASE x.hash \in others
      <4> HIDE DEF Fine
      <4> QED
        BY <1>3, <3>1, <3>2
    <3>3. CASE \E d \in T : x = Leaf(d)
      <4> HIDE DEF Fine
      <4> QED
        BY <1>4, <3>1, <3>3
    <3>4. CASE x.hash \notin others /\ ~ \E d \in T : x = Leaf(d)
      <4>1. ~ x.is_leaf /\ x.left \in U(k) /\ x.right \in U(k)
        BY <1>1, <2>0, <3>4 DEF Joins
      <4>2. Fine(x.left) /\ Fine(x.right)
        <5> HIDE DEF Fine
        <5> QED
          BY <1>6, <4>1
      <4>3. c[x] = c[x.left] \o c[x.right]
        <5>1. ~ x.is_leaf
          BY <4>1
        <5>2. x.hash \notin others
          BY <3>4
        <5> QED
          BY <3>1, <5>1, <5>2 DEF Collected
      <4> DEFINE p == c[x.left]
                 q == c[x.right]
      <4>4. p \in Seq(T) /\ q \in Seq(T)
        BY <4>2
      <4> HIDE DEF p, q
      <4>5. ToSet(p \o q) = ToSet(p) \cup ToSet(q) /\ p \o q \in Seq(T)
        BY <4>4, JoinedSet, ConcatProperties
      <4>6. c[x] = p \o q
        BY <4>3 DEF p, q
      <4>7. Whole(c, x, others)
        BY <4>5, <4>6 DEF p, q, Whole
      <4>8. \A d \in ToSet(p) \cup ToSet(q) : d \notin others
        BY <4>2 DEF p, q
      <4>9. Fine(x)
        BY <4>5, <4>6, <4>8
      <4> QED
        BY <4>7, <4>9
    <3> QED
      BY <3>2, <3>3, <3>4
  <2> HIDE DEF Fine
  <2> QED
    BY <2>0, <2>1
<1>7. \A k \in 0..m : k \in K
  <2> HIDE DEF K
  <2> QED
    BY <1>0, <1>5, <1>6, UpTo
<1>8. ASSUME NEW x \in U(m)
      PROVE  Fine(x) /\ Whole(c, x, others) /\ LeafKept(c, x, others)
  <2>1. m \in 0..m
    BY <1>0
  <2>2. c[x] = Collected(c, x, others)
    BY <1>2, <2>1
  <2>3. LeafKept(c, x, others)
    BY <2>2 DEF Collected, LeafKept
  <2> HIDE DEF Fine
  <2> QED
    BY <1>7, <2>1, <2>3
<1> SUFFICES ASSUME NEW x \in AllNodes(hs)
             PROVE  Fine(x) /\ Whole(c, x, others) /\ LeafKept(c, x, others)
  BY DEF T
<1>9. x \in U(m)
  BY <1>1
<1> HIDE DEF Fine
<1> QED
  BY <1>8, <1>9

\* The hashes of a tree: each is that of a leaf, and a chunk of the list, or that of an
\* inner node, made of two others; and all chunks of the list are there.
LEMMA HashKinds ==
  ASSUME NEW D, NEW hs \in Seq(D)
  PROVE  /\ ToSet(hs) \subseteq AllNodeHashes(hs)
         /\ \A x \in AllNodes(hs) :
               \/ x.is_leaf /\ x.hash \in ToSet(hs)
               \/ x.hash \in InnerHashes(hs) /\ Joins(x, AllNodes(hs))
<1>1. CASE hs = <<>>
  <2>1. AllNodes(hs) = {}
    BY <1>1, NodesAre
  <2>2. ToSet(hs) = {}
    BY <1>1 DEF ToSet
  <2> QED
    BY <2>1, <2>2
<1>2. CASE hs # <<>>
  <2> DEFINE m == Len(hs)
             U(k) == UpToLevel(hs, k)
  <2>0. m \in Nat /\ m >= 1
    BY <1>2, EmptySeq
  <2>1. /\ \A k \in 0..m : \A x \in U(k) :
              \/ \E d \in ToSet(hs) : x = Leaf(d)
              \/ k > 0 /\ Joins(x, U(k - 1))
        /\ AllNodes(hs) = U(m)
    BY <2>0, NodeKinds
  <2>2. Level(hs, 0) = {Leaf(d) : d \in ToSet(hs)}
    BY <2>0, Levels
  <2>3. Level(hs, 0) \subseteq U(m) /\ U(m - 1) \subseteq U(m) /\ m \in 0..m
    BY <2>0 DEF UpToLevel
  <2> HIDE DEF m, U
  <2>4. ASSUME NEW d \in ToSet(hs)
        PROVE  d \in AllNodeHashes(hs)
    <3>1. Leaf(d) \in AllNodes(hs)
      BY <2>1, <2>2, <2>3
    <3> QED
      BY <3>1, LeafIs DEF AllNodeHashes
  <2>5. ASSUME NEW x \in AllNodes(hs)
        PROVE  \/ x.is_leaf /\ x.hash \in ToSet(hs)
               \/ x.hash \in InnerHashes(hs) /\ Joins(x, AllNodes(hs))
    <3>1. CASE \E d \in ToSet(hs) : x = Leaf(d)
      BY <3>1, LeafIs
    <3>2. CASE Joins(x, U(m - 1))
      <4>1. Joins(x, AllNodes(hs))
        BY <2>1, <2>3, <3>2 DEF Joins
      <4>2. x.hash \in InnerHashes(hs)
        BY <4>1 DEF Joins, InnerHashes
      <4> QED
        BY <4>1, <4>2
    <3> QED
      BY <2>1, <2>3, <2>5, <3>1, <3>2
  <2> QED
    BY <2>4, <2>5
<1> QED
  BY <1>1, <1>2

\* Where two lists are separated, a hash that both trees have is a chunk of both or has
\* the hashes below it in both.
LEMMA HashDown ==
  ASSUME NEW D, NEW a \in Seq(D), NEW b \in Seq(D), Separated(a, b),
         NEW x \in AllNodes(a), x.hash \in AllNodeHashes(b)
  PROVE  /\ x.is_leaf => x.hash \in ToSet(b)
         /\ ~ x.is_leaf => x.left.hash \in AllNodeHashes(b) /\ x.right.hash \in AllNodeHashes(b)
<1>1. PICK y \in AllNodes(b) : x.hash = y.hash
  BY DEF AllNodeHashes
<1>2. /\ \/ x.is_leaf /\ x.hash \in ToSet(a)
         \/ x.hash \in InnerHashes(a) /\ Joins(x, AllNodes(a))
      /\ \/ y.is_leaf /\ y.hash \in ToSet(b)
         \/ y.hash \in InnerHashes(b) /\ Joins(y, AllNodes(b))
  BY HashKinds
<1>3. \A g : (g \in ToSet(a) => g \notin InnerHashes(b)) /\ (g \in ToSet(b) => g \notin InnerHashes(a))
  BY DEF Separated
<1>4. ASSUME x.is_leaf PROVE x.hash \in ToSet(b)
  <2>1. x.hash \in ToSet(a)
    BY <1>2, <1>4 DEF Joins
  <2> QED
    BY <1>1, <1>2, <1>3, <2>1
<1>5. ASSUME ~ x.is_leaf
      PROVE  x.left.hash \in AllNodeHashes(b) /\ x.right.hash \in AllNodeHashes(b)
  <2>1. x.hash \in InnerHashes(a) /\ x.hash = NodeHash(x.left.hash, x.right.hash)
    BY <1>2, <1>5 DEF Joins
  <2>2. /\ y.left \in AllNodes(b) /\ y.right \in AllNodes(b)
        /\ y.hash = NodeHash(y.left.hash, y.right.hash)
    BY <1>1, <1>2, <1>3, <2>1 DEF Joins
  <2>3. x.left.hash = y.left.hash /\ x.right.hash = y.right.hash
    <3>1. NodeHash(x.left.hash, x.right.hash) = NodeHash(y.left.hash, y.right.hash)
      BY <1>1, <2>1, <2>2
    <3> DEFINE xl == x.left.hash
               xr == x.right.hash
               yl == y.left.hash
               yr == y.right.hash
    <3> HIDE DEF xl, xr, yl, yr
    <3>2. NodeHash(xl, xr) = NodeHash(yl, yr)
      BY <3>1 DEF xl, xr, yl, yr
    <3>3. xl = yl /\ xr = yr
      BY <3>2, HashPair
    <3> QED
      BY <3>3 DEF xl, xr, yl, yr
  <2> QED
    BY <2>2, <2>3 DEF AllNodeHashes
<1> QED
  BY <1>4, <1>5

\* The traversal from the root misses no chunk that is not a hash of the other tree,
\* where the other tree has, with a node's hash, those of the nodes below: then the
\* nodes above that chunk, up to the root, are not in the other tree either.
LEMMA CollectComplete ==
  ASSUME NEW D, NEW hs \in Seq(D), Len(hs) >= 1, NEW others, NEW c,
         c = CollectNewChunks(hs, others),
         \A x \in AllNodes(hs) :
            x.hash \in others /\ ~ x.is_leaf => x.left.hash \in others /\ x.right.hash \in others,
         NEW d \in ToSet(hs), d \notin others
  PROVE  d \in ToSet(c[Root(hs)])
<1> DEFINE m == Len(hs)
           Reached(x) == x.hash \notin others /\ d \in ToSet(c[x])
           K == {k \in 0..m : \E x \in Level(hs, k) : Reached(x)}
<1>0. m \in Nat
  OBVIOUS
<1>1. \A x \in AllNodes(hs) :
         /\ x.hash \notin others /\ x.is_leaf => c[x] = <<x.hash>>
         /\ x.hash \notin others /\ ~ x.is_leaf =>
               ToSet(c[x]) = ToSet(c[x.left]) \cup ToSet(c[x.right])
  <2>1. \A x \in AllNodes(hs) : LeafKept(c, x, others) /\ Whole(c, x, others)
    BY CollectSound
  <2> QED
    BY <2>1 DEF LeafKept, Whole
<1>2. /\ Level(hs, 0) = {Leaf(e) : e \in ToSet(hs)}
      /\ Level(hs, m) = {Root(hs)}
      /\ \A k \in 0..(m - 1) :
            \A x \in Level(hs, k) : \E y \in Level(hs, k + 1) : y = x \/ Above(y, x)
  BY Levels
<1>3. \A k \in 0..m : Level(hs, k) \subseteq AllNodes(hs)
  BY NodesAre
<1> HIDE DEF m
<1>4. 0 \in K
  <2> DEFINE x == Leaf(d)
  <2>1. x \in Level(hs, 0) /\ 0 \in 0..m /\ x.is_leaf /\ x.hash = d
    BY <1>0, <1>2, LeafIs
  <2> HIDE DEF x
  <2>2. c[x] = <<d>>
    BY <1>1, <1>3, <2>1
  <2>3. d \in ToSet(c[x])
    BY <2>2 DEF ToSet
  <2> QED
    BY <2>1, <2>3
<1>5. ASSUME NEW k \in 0..(m - 1), k \in K
      PROVE  k + 1 \in K
  <2>0. k + 1 \in 0..m
    BY <1>0
  <2>1. PICK x \in Level(hs, k) : Reached(x)
    BY <1>5
  <2>2. PICK y \in Level(hs, k + 1) : y = x \/ Above(y, x)
    BY <1>2
  <2>3. CASE y = x
    BY <2>0, <2>1, <2>2, <2>3
  <2>4. CASE Above(y, x)
    <3>1. ~ y.is_leaf /\ (x = y.left \/ x = y.right) /\ y \in AllNodes(hs)
      BY <1>3, <2>0, <2>4 DEF Above
    <3>2. y.hash \notin others
      BY <2>1, <3>1
    <3>3. ToSet(c[y]) = ToSet(c[y.left]) \cup ToSet(c[y.right])
      BY <1>1, <3>1, <3>2
    <3>4. d \in ToSet(c[y])
      BY <2>1, <3>1, <3>3
    <3> QED
      BY <2>0, <2>2, <3>2, <3>4
  <2> QED
    BY <2>2, <2>3, <2>4
<1>6. \A k \in 0..m : k \in K
  <2> HIDE DEF K
  <2> QED
    BY <1>0, <1>4, <1>5, UpTo
<1>7. m \in K
  <2>1. m \in 0..m
    BY <1>0
  <2> HIDE DEF K
  <2> QED
    BY <1>6, <2>1
<1> QED
  BY <1>2, <1>7

\* diff() lists chunks of the one list that the other does not have, and all of them
\* where the lists are separated.
LEMMA DiffSet ==
  ASSUME NEW D, NEW mine \in Seq(D), NEW other \in Seq(D)
  PROVE  /\ ToSet(Diff(mine, other)) \subseteq ToSet(mine) \ ToSet(other)
         /\ Separated(mine, other) =>
               ToSet(mine) \ ToSet(other) \subseteq ToSet(Diff(mine, other))
<1>1. CASE mine = <<>>
  BY <1>1 DEF Diff, ToSet
<1>2. CASE mine # <<>>
  <2> DEFINE others == AllNodeHashes(other)
             c == CollectNewChunks(mine, others)
             r == Root(mine)
  <2>0. Len(mine) \in Nat /\ Len(mine) >= 1 /\ Len(mine) \in 0..Len(mine)
    BY <1>2, EmptySeq
  <2>1. ToSet(other) \subseteq others
    BY HashKinds
  <2>2. r \in AllNodes(mine)
    BY <2>0, Levels, NodesAre
  <2>3. Separated(mine, other) =>
           \A x \in AllNodes(mine) : x.hash \in others =>
              /\ x.is_leaf => x.hash \in ToSet(other)
              /\ ~ x.is_leaf => x.left.hash \in others /\ x.right.hash \in others
    BY HashDown
  <2>4. Diff(mine, other) = c[r]
    BY <1>2 DEF Diff
  <2> HIDE DEF others, r
  <2>5. c[r] \in Seq(ToSet(mine)) /\ \A d \in ToSet(c[r]) : d \notin others
    BY <2>0, <2>2, CollectSound
  <2>6. ASSUME Separated(mine, other), NEW d \in ToSet(mine), d \notin ToSet(other)
        PROVE  d \in ToSet(c[r])
    <3>1. ASSUME d \in others PROVE FALSE
      <4>1. Leaf(d) \in Level(mine, 0) /\ 0 \in 0..Len(mine)
        BY <2>0, <2>6, Levels
      <4>2. Leaf(d) \in AllNodes(mine)
        BY <4>1, NodesAre
      <4>3. Leaf(d).hash = d /\ Leaf(d).is_leaf
        BY LeafIs
      <4> QED
        BY <2>3, <2>6, <3>1, <4>2, <4>3
    <3>2. \A x \in AllNodes(mine) :
             x.hash \in others /\ ~ x.is_leaf => x.left.hash \in others /\ x.right.hash \in others
      BY <2>3, <2>6
    <3> QED
      BY <2>0, <2>6, <3>1, <3>2, CollectComplete DEF r
  <2> HIDE DEF c
  <2>7. ToSet(c[r]) \subseteq ToSet(mine)
    <3> DEFINE s == c[r]
    <3>1. s \in Seq(ToSet(mine))
      BY <2>5
    <3> HIDE DEF s
    <3>2. DOMAIN s = 1..Len(s) /\ \A i \in 1..Len(s) : s[i] \in ToSet(mine)
      BY <3>1, LenProperties
    <3>3. ToSet(s) \subseteq ToSet(mine)
      BY <3>2 DEF ToSet
    <3> QED
      BY <3>3 DEF s
  <2> QED
    BY <2>1, <2>4, <2>5, <2>6, <2>7
<1> QED
  BY <1>1, <1>2

-----------------------------------------------------------------------------
(* Roots.                                                                  *)

\* A list with the root of another, where the two are separated and the first is not
\* the empty chunk, has no chunk the other does not have: from the root down, the
\* hashes of its tree are hashes of the other tree.
LEMMA RootChunks ==
  ASSUME NEW D, NEW a \in Seq(D), NEW b \in Seq(D), RootHash(a) = RootHash(b),
         Separated(a, b), EmptyRoot \notin ToSet(a)
  PROVE  ToSet(a) \subseteq ToSet(b)
<1>1. CASE a = <<>>
  BY <1>1 DEF ToSet
<1>2. CASE a # <<>>
  <2> DEFINE m == Len(a)
             r == Root(a)
             others == AllNodeHashes(b)
             K == {k \in 0..m : \A x \in Level(a, m - k) : x.hash \in others}
  <2>0. m \in Nat /\ m >= 1
    BY <1>2, EmptySeq
  <2>1. /\ Level(a, 0) = {Leaf(d) : d \in ToSet(a)}
        /\ Level(a, m) = {r}
        /\ \A k \in 0..(m - 1) :
              \A x \in Level(a, k) : \E y \in Level(a, k + 1) : y = x \/ Above(y, x)
    BY <2>0, Levels
  <2>2. \A k \in 0..m : Level(a, k) \subseteq AllNodes(a)
    BY NodesAre
  <2>3. r.hash = RootHash(b)
    BY <1>2 DEF RootHash
  <2>4. r.hash # EmptyRoot
    <3>1. r \in AllNodes(a)
      BY <2>0, <2>1, <2>2
    <3>2. r.hash \in ToSet(a) \/ Joins(r, AllNodes(a))
      <4> HIDE DEF r
      <4> QED
        BY <3>1, HashKinds
    <3> HIDE DEF r
    <3> QED
      BY <3>2, HashPair DEF Joins
  <2>5. r.hash \in others
    <3>1. b # <<>>
      BY <2>3, <2>4 DEF RootHash
    <3>2. Len(b) \in Nat /\ Len(b) >= 1 /\ Len(b) \in 0..Len(b)
      BY <3>1, EmptySeq
    <3>3. Root(b) \in AllNodes(b)
      BY <3>2, Levels, NodesAre
    <3>4. r.hash = Root(b).hash
      BY <2>3, <3>1 DEF RootHash
    <3> HIDE DEF r
    <3> QED
      BY <3>3, <3>4 DEF AllNodeHashes
  <2>6. \A x \in AllNodes(a) : x.hash \in others =>
           /\ x.is_leaf => x.hash \in ToSet(b)
           /\ ~ x.is_leaf => x.left.hash \in others /\ x.right.hash \in others
    BY HashDown
  <2> HIDE DEF others, m, r
  <2>7. 0 \in K
    <3>1. m - 0 = m /\ 0 \in 0..m
      BY <2>0
    <3> QED
      BY <2>1, <2>5, <3>1
  <2>8. ASSUME NEW k \in 0..(m - 1), k \in K
        PROVE  k + 1 \in K
    <3> DEFINE j == m - (k + 1)
    <3>1. j \in 0..(m - 1) /\ j + 1 = m - k /\ k + 1 \in 0..m /\ j + 1 \in 0..m
      BY <2>0
    <3>2. \A y \in Level(a, j + 1) : y.hash \in others
      BY <2>8, <3>1
    <3> HIDE DEF j
    <3>3. ASSUME NEW x \in Level(a, j)
          PROVE  x.hash \in others
      <4>1. PICK y \in Level(a, j + 1) : y = x \/ Above(y, x)
        BY <2>1, <3>1
      <4>2. y.hash \in others /\ y \in AllNodes(a)
        BY <2>2, <3>1, <3>2
      <4> QED
        BY <2>6, <4>1, <4>2 DEF Above
    <3> QED
      BY <3>1, <3>3 DEF j
  <2>9. m \in K
    <3>1. \A k \in 0..m : k \in K
      <4> HIDE DEF K
      <4> QED
        BY <2>0, <2>7, <2>8, UpTo
    <3>2. m \in 0..m
      BY <2>0
    <3> HIDE DEF K
    <3> QED
      BY <3>1, <3>2
  <2>10. m - m = 0 /\ 0 \in 0..m
    BY <2>0
  <2>11. \A x \in Level(a, 0) : x.hash \in others /\ x \in AllNodes(a)
    BY <2>2, <2>9, <2>10
  <2>12. ASSUME NEW d \in ToSet(a)
         PROVE  d \in ToSet(b)
    <3>1. Leaf(d) \in Level(a, 0) /\ Leaf(d).hash = d /\ Leaf(d).is_leaf
      BY <2>1, LeafIs
    <3> QED
      BY <2>6, <2>11, <3>1
  <2> QED
    BY <2>12
<1> QED
  BY <1>1, <1>2

\* Lists of the same length with the same elements at the same places are the same.
LEMMA SameList ==
  ASSUME NEW S, NEW T, NEW s \in Seq(S), NEW t \in Seq(T), Len(s) = Len(t),
         \A i \in 1..Len(s) : s[i] = t[i]
  PROVE  s = t
<1>1. s \in Seq(S \cup T) /\ t \in Seq(S \cup T)
  OBVIOUS
<1> QED
  BY <1>1, SeqEqual

\* Two lists of nodes with the same hashes at the same places.
SameHashes(s, t) == \A i \in 1..Len(s) : s[i].hash = t[i].hash

\* A pass loses none of the hashes of a list whose length is known.
LEMMA PassInjective ==
  ASSUME NEW S, NEW T, NEW s \in Seq(S), NEW t \in Seq(T), Len(s) = Len(t), Len(s) >= 1,
         SameHashes(Pass(s), Pass(t))
  PROVE  SameHashes(s, t)
<1> DEFINE m == Len(s)
           w == (m + 1) \div 2
           right(i) == IF 2 * i <= m THEN 2 * i ELSE 2 * i - 1
<1>0. m \in Nat /\ w \in Nat
  OBVIOUS
<1>1. CASE m > 1
  <2>1. Pass(s) = NextLayer(s) /\ Pass(t) = NextLayer(t)
    BY <1>1 DEF Pass
  <2>2. /\ \A j \in 1..w : NextLayer(s)[j] = Parent(s[2 * j - 1], s[right(j)])
        /\ \A j \in 1..w : NextLayer(t)[j] = Parent(t[2 * j - 1], t[right(j)])
        /\ Len(NextLayer(s)) = w
    BY Paired
  <2>3. ASSUME NEW i \in 1..m
        PROVE  s[i].hash = t[i].hash
    <3> DEFINE j == (i + 1) \div 2
               sl == s[2 * j - 1]
               sr == s[right(j)]
               tl == t[2 * j - 1]
               tr == t[right(j)]
    <3>1. j \in 1..w /\ (i = 2 * j - 1 \/ i = right(j))
      BY <1>0
    <3> HIDE DEF j, w, right, m
    <3>2. Parent(sl, sr).hash = Parent(tl, tr).hash
      BY <2>1, <2>2, <3>1 DEF SameHashes
    <3>3. (s[i] = sl /\ t[i] = tl) \/ (s[i] = sr /\ t[i] = tr)
      BY <3>1
    <3> HIDE DEF sl, sr, tl, tr
    <3>4. NodeHash(sl.hash, sr.hash) = NodeHash(tl.hash, tr.hash)
      BY <3>2, ParentIs
    <3>5. sl.hash = tl.hash /\ sr.hash = tr.hash
      BY <3>4 DEF NodeHash
    <3> QED
      BY <3>3, <3>5
  <2> QED
    BY <2>3 DEF SameHashes
<1>2. CASE ~(m > 1)
  BY <1>2 DEF Pass
<1> QED
  BY <1>1, <1>2

\* Among lists of one length, the root belongs to one: the layers have the same lengths
\* from the leaves up, and then the same hashes from the root down.
LEMMA RootOfOne ==
  ASSUME NEW D, NEW a \in Seq(D), NEW b \in Seq(D), Len(a) = Len(b), RootHash(a) = RootHash(b)
  PROVE  a = b
<1>1. CASE Len(a) = 0
  BY <1>1, EmptySeq
<1>2. CASE Len(a) # 0
  <2> DEFINE m == Len(a)
             A == Layers(a)
             B == Layers(b)
             J == {k \in 0..m : Len(A[k]) = Len(B[k])}
             K == {k \in 0..m : SameHashes(A[m - k], B[m - k])}
  <2>0. m \in Nat /\ m >= 1 /\ m = Len(b) /\ a # <<>> /\ b # <<>>
    BY <1>2, EmptySeq
  <2>1. /\ A[0] = LeafLayer(a) /\ B[0] = LeafLayer(b)
        /\ \A k \in 0..(m - 1) : A[k + 1] = Pass(A[k]) /\ B[k + 1] = Pass(B[k])
    BY <2>0, LayersAre
  <2>2. /\ \A k \in 0..m : (\E S : A[k] \in Seq(S)) /\ Len(A[k]) >= 1
        /\ \A k \in 0..m : (\E S : B[k] \in Seq(S)) /\ Len(B[k]) >= 1
        /\ Len(A[m]) = 1 /\ Len(B[m]) = 1
    BY <2>0, LayerLists
  <2>3. A[m][1].hash = B[m][1].hash
    BY <2>0 DEF RootHash, Root
  <2>4. Len(A[0]) = m /\ Len(B[0]) = m
    <3>1. LeafLayer(a) \in [1..m -> {Leaf(d) : d \in D}] /\ LeafLayer(b) \in [1..m -> {Leaf(d) : d \in D}]
      BY <2>0 DEF LeafLayer
    <3> DEFINE T == {Leaf(d) : d \in D}
               x == LeafLayer(a)
               y == LeafLayer(b)
    <3> HIDE DEF T, m, x, y
    <3>2. x \in [1..m -> T] /\ y \in [1..m -> T]
      BY <3>1 DEF T, x, y
    <3>3. Len(x) = m /\ Len(y) = m
      BY <2>0, <3>2, ListOf
    <3> QED
      BY <2>1, <3>3 DEF x, y
  <2> HIDE DEF m, A, B
  <2>5. ASSUME NEW k \in 0..(m - 1), k \in J
        PROVE  k + 1 \in J
    <3>0. k \in 0..m /\ k + 1 \in 0..m
      BY <2>0
    <3>1. PICK S : A[k] \in Seq(S)
      BY <2>2, <3>0
    <3>2. PICK T : B[k] \in Seq(T)
      BY <2>2, <3>0
    <3>3. Len(Pass(A[k])) = IF Len(A[k]) > 1 THEN (Len(A[k]) + 1) \div 2 ELSE 1
      BY <2>2, <3>0, <3>1, PassNodes
    <3>4. Len(Pass(B[k])) = IF Len(B[k]) > 1 THEN (Len(B[k]) + 1) \div 2 ELSE 1
      BY <2>2, <3>0, <3>2, PassNodes
    <3>5. Len(A[k]) = Len(B[k])
      BY <2>5
    <3>6. Len(Pass(A[k])) = Len(Pass(B[k]))
      BY <3>3, <3>4, <3>5
    <3> QED
      BY <2>1, <3>0, <3>6
  <2>6. \A k \in 0..m : k \in J
    <3>1. 0 \in J
      BY <2>0, <2>4
    <3> HIDE DEF J
    <3> QED
      BY <2>0, <2>5, <3>1, UpTo
  <2>7. 0 \in K
    <3>1. m - 0 = m /\ 0 \in 0..m
      BY <2>0
    <3> DEFINE x == A[m]
               y == B[m]
    <3>2. Len(x) = 1 /\ x[1].hash = y[1].hash
      BY <2>2, <2>3
    <3> HIDE DEF x, y
    <3>3. SameHashes(x, y)
      BY <3>2 DEF SameHashes
    <3> QED
      BY <3>1, <3>3 DEF x, y
  <2>8. ASSUME NEW k \in 0..(m - 1), k \in K
        PROVE  k + 1 \in K
    <3> DEFINE j == m - (k + 1)
    <3>0. j \in 0..(m - 1) /\ j \in 0..m /\ j + 1 = m - k /\ k + 1 \in 0..m
      BY <2>0
    <3>1. SameHashes(A[j + 1], B[j + 1])
      BY <2>8, <3>0
    <3> HIDE DEF j
    <3>2. PICK S : A[j] \in Seq(S)
      BY <2>2, <3>0
    <3>3. PICK T : B[j] \in Seq(T)
      BY <2>2, <3>0
    <3>4. SameHashes(Pass(A[j]), Pass(B[j])) /\ Len(A[j]) = Len(B[j]) /\ Len(A[j]) >= 1
      BY <2>1, <2>2, <2>6, <3>0, <3>1
    <3>5. SameHashes(A[j], B[j])
      BY <3>2, <3>3, <3>4, PassInjective
    <3> QED
      BY <3>0, <3>5 DEF j
  <2>9. SameHashes(A[0], B[0])
    <3>1. \A k \in 0..m : k \in K
      <4> HIDE DEF K
      <4> QED
        BY <2>0, <2>7, <2>8, UpTo
    <3>2. m \in 0..m /\ m - m = 0
      BY <2>0
    <3>3. m \in K
      <4> HIDE DEF K
      <4> QED
        BY <3>1, <3>2
    <3> QED
      BY <3>2, <3>3
  <2>10. ASSUME NEW i \in 1..m
         PROVE  a[i] = b[i]
    <3>1. A[0][i].hash = B[0][i].hash
      BY <2>4, <2>9 DEF SameHashes
    <3>2. A[0][i] = Leaf(a[i]) /\ B[0][i] = Leaf(b[i])
      BY <2>0, <2>1 DEF LeafLayer, m
    <3> QED
      BY <3>1, <3>2, LeafIs
  <2> QED
    BY <2>10, SameList DEF m
<1> QED
  BY <1>1, <1>2

-----------------------------------------------------------------------------
(* MerkleTree.                                                             *)

\* Two lists of chunks, of any lengths up to MaxLen.
MerkleSpec == MerkleInit /\ [][MerkleNext]_treeVars

\* The state is two lists of digests.
LEMMA ListsType == MerkleSpec => [](old \in Seq(Digests) /\ new \in Seq(Digests))
<1> DEFINE Lists == old \in Seq(Digests) /\ new \in Seq(Digests)
<1>1. MerkleInit => Lists
  BY DEF MerkleInit
<1>2. ASSUME Lists, [MerkleNext]_treeVars
      PROVE  Lists'
  <2>1. CASE UNCHANGED treeVars
    BY <1>2, <2>1 DEF treeVars
  <2>2. ASSUME NEW x \in Digests, GrowOld(x)
        PROVE  Lists'
    BY <1>2, <2>2, AppendProperties DEF GrowOld
  <2>3. ASSUME NEW x \in Digests, GrowNew(x)
        PROVE  Lists'
    BY <1>2, <2>3, AppendProperties DEF GrowNew
  <2> QED
    BY <1>2, <2>1, <2>2, <2>3 DEF MerkleNext
<1> QED
  BY <1>1, <1>2, PTL DEF MerkleSpec

\* DiffIsSetDifference for every set of digests and lists of every length: diff(), by
\* which run_backup decides which chunks get a row, finds only chunks the previous
\* snapshot does not have, and though it skips subtrees all of them, as long as no chunk
\* of one list spells the two digests below an inner node of the other.
THEOREM DiffExact == MerkleSpec => []DiffIsSetDifference
<1>1. old \in Seq(Digests) /\ new \in Seq(Digests) => DiffIsSetDifference
  BY DiffSet DEF DiffIsSetDifference
<1> QED
  BY <1>1, ListsType, PTL

\* RootSeparates for every set of digests and lists of every length: what the root
\* comparison of verification and restore accepts is the snapshot's list when it has
\* its length, whatever the digests are; of any other length it has the snapshot's
\* chunks, as long as no chunk is empty or spells digests of the other tree.
THEOREM RootsSeparate == MerkleSpec => []RootSeparates
<1>1. ASSUME old \in Seq(Digests), new \in Seq(Digests)
      PROVE  RootSeparates
  <2>1. ASSUME RootHash(new) = RootHash(old), Len(new) = Len(old)
        PROVE  new = old
    BY <1>1, <2>1, RootOfOne
  <2>2. ASSUME RootHash(new) = RootHash(old), Separated(new, old),
               EmptyRoot \notin ToSet(new) \cup ToSet(old)
        PROVE  ToSet(new) = ToSet(old)
    <3>1. Separated(old, new)
      BY <2>2 DEF Separated
    <3>2. EmptyRoot \notin ToSet(new) /\ EmptyRoot \notin ToSet(old)
      BY <2>2
    <3>3. ToSet(new) \subseteq ToSet(old) /\ ToSet(old) \subseteq ToSet(new)
      BY <1>1, <2>2, <3>1, <3>2, RootChunks
    <3> QED
      BY <3>3
  <2> QED
    BY <2>1, <2>2 DEF RootSeparates, Verify
<1> QED
  BY <1>1, ListsType, PTL
=============================================================================
