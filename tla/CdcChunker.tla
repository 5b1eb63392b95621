----------------------------- MODULE CdcChunker -----------------------------
(***************************************************************************)
(* CDCChunker.chunk_data (app/core/cdc.py): the loop that cuts a byte      *)
(* string where a rolling hash of the last WINDOW_SIZE bytes has its low   *)
(* bits zero.  Its variables are the loop's; the hash is reduced modulo    *)
(* Word, as in the code modulo 2^64, and the test h & TARGET_MASK = 0 is   *)
(* divisibility by Modulus, TARGET_MASK being a power of two minus one.    *)
(* Positions count bytes from 0 as in the code: byte i is data[i + 1].     *)
(***************************************************************************)
EXTENDS Integers, Sequences

CONSTANTS
    Bytes,
    Window,       \* WINDOW_SIZE
    MinChunk, MaxChunk,
    Modulus,      \* TARGET_MASK + 1
    Poly,
    Word          \* 2^64

ASSUME ChunkerAssumption ==
    /\ Bytes \subseteq Nat /\ Poly \in Nat
    /\ Window \in Nat \ {0} /\ Modulus \in Nat \ {0} /\ Word \in Nat \ {0}
    /\ MinChunk \in Nat /\ MaxChunk \in Nat
    /\ Window <= MinChunk /\ MinChunk < MaxChunk

VARIABLES
    data,         \* the argument
    pc,           \* "outer", "forward" or "scan": which loop runs; "done"
    start,        \* chunk_start
    pos,
    h,            \* the rolling hash
    window,       \* the last Window bytes, a ring buffer
    winPos,
    cuts          \* end positions of the chunks in the list

cdcVars == <<data, pc, start, pos, h, window, winPos, cuts>>

n == Len(data)
Smaller(a, b) == IF a <= b THEN a ELSE b

\* poly_pow of _build_tables: out_table[b] is b * PolyPow mod 2^64.
Power[k \in 0..Window] == IF k = 0 THEN 1 % Word ELSE (Power[k - 1] * Poly) % Word
OutTable(b) == (b * Power[Window]) % Word

\* _rolling_hash over the bytes from position from, at most Window of them.
SeedHash(from) ==
    LET len == Smaller(Window, n - from)
        H[k \in 0..len] == IF k = 0 THEN 0 ELSE (H[k - 1] * Poly + data[from + k]) % Word
    IN  H[len]

SeedWindow(from) == [k \in 0..(Window - 1) |-> IF from + k < n THEN data[from + k + 1] ELSE 0]

CdcInit(d) ==
    /\ data = d
    /\ pc = "outer" /\ start = 0 /\ pos = 0 /\ cuts = <<>>
    /\ h = 0 /\ window = [k \in 0..(Window - 1) |-> 0] /\ winPos = 0

\* Byte pos enters the window and the oldest one leaves.
Roll ==
    LET in == data[pos + 1]  out == window[winPos % Window] IN
    /\ h'      = (h * Poly - OutTable(out) + in) % Word
    /\ window' = [window EXCEPT ![winPos % Window] = in]
    /\ winPos' = winPos + 1
    /\ pos'    = pos + 1

\* The head of the outer loop: seed the hash over the chunk's first bytes.
ChunkBegin ==
    /\ pc = "outer"
    /\ pos < n
    /\ pc'     = "forward"
    /\ start'  = pos
    /\ h'      = SeedHash(pos)
    /\ window' = SeedWindow(pos)
    /\ winPos' = 0
    /\ pos'    = Smaller(pos + Window, n)
    /\ UNCHANGED <<data, cuts>>

\* Fast-forward to the minimal length: the hash rolls, nothing is cut.
ForwardByteUnhashed ==                                                \* mutant
    /\ pc = "forward"
    /\ pos < Smaller(start + MinChunk, n)
    /\ pos' = pos + 1
    /\ UNCHANGED <<data, pc, start, h, window, winPos, cuts>>
ForwardByte ==
    /\ pc = "forward"
    /\ pos < Smaller(start + MinChunk, n)
    /\ Roll
    /\ UNCHANGED <<data, pc, start, cuts>>

ForwardEnd ==
    /\ pc = "forward"
    /\ pos = Smaller(start + MinChunk, n)
    /\ pc' = "scan"
    /\ UNCHANGED <<data, start, pos, h, window, winPos, cuts>>

\* One pass of the scan: the boundary test comes after the byte is consumed.
Boundary(hash, len) ==
    \/ len >= MaxChunk
    \/ hash % Modulus = 0 /\ len >= MinChunk

ScanByte ==
    /\ pc = "scan"
    /\ pos < n
    /\ Roll
    /\ IF Boundary(h', pos' - start)
         THEN pc' = "outer" /\ cuts' = Append(cuts, pos')
         ELSE UNCHANGED <<pc, cuts>>
    /\ UNCHANGED <<data, start>>

\* The data ends inside the chunk, which is the last one.
ScanEndDropped ==                                                     \* mutant
    /\ pc = "scan"
    /\ pos = n
    /\ pc' = "outer"
    /\ UNCHANGED <<data, start, pos, h, window, winPos, cuts>>
ScanEnd ==
    /\ pc = "scan"
    /\ pos = n
    /\ pc'   = "outer"
    /\ cuts' = Append(cuts, pos)
    /\ UNCHANGED <<data, start, pos, h, window, winPos>>

ChunkReturn ==
    /\ pc = "outer"
    /\ pos = n
    /\ pc' = "done"
    /\ UNCHANGED <<data, start, pos, h, window, winPos, cuts>>

CdcNext == ChunkBegin \/ ForwardByte \/ ForwardEnd \/ ScanByte \/ ScanEnd \/ ChunkReturn

\* The list that is returned.
ChunkStart(i) == IF i = 1 THEN 0 ELSE cuts[i - 1]
Chunk(i) == SubSeq(data, ChunkStart(i) + 1, cuts[i])

-----------------------------------------------------------------------------
(* Properties.                                                             *)

\* The reference: the hash of the Window bytes before position p, computed from
\* scratch, and the first boundary of a chunk that begins at from.
WindowHash(p) ==
    LET H[k \in 0..Window] ==
          IF k = 0 THEN 0 ELSE H[k - 1] * Poly + data[p - Window + k]
    IN  H[Window] % Word

FirstCut(from) ==
    LET stops == {p \in (from + MinChunk + 1)..n :
                    p = from + MaxChunk \/ (p < from + MaxChunk /\ WindowHash(p) % Modulus = 0)}
    IN  IF stops = {} THEN n ELSE CHOOSE p \in stops : \A q \in stops : p <= q

\* Chunks are content-defined: each ends at the first position past the minimal
\* length where the hash of its own last bytes says so, at the maximal length or
\* at the end of the data.  What came before the chunk, and the incremental
\* computation of the hash, leave no trace (the bug the comment at cdc.py 73-77
\* tells of), so equal data after a common boundary gives equal chunks.
CutsContentDefined == \A i \in 1..Len(cuts) : cuts[i] = FirstCut(ChunkStart(i))

\* "Returns a list of byte strings that concatenate to the original data"
\* (cdc.py 58): nothing is lost or repeated at a boundary, at the end, or with
\* data shorter than the window.
ChunksConcatenate ==
    pc = "done" =>
        LET Joined[i \in 0..Len(cuts)] == IF i = 0 THEN <<>> ELSE Joined[i - 1] \o Chunk(i)
        IN  Joined[Len(cuts)] = data
=============================================================================
