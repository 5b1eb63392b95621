----------------------------- MODULE MerkleTree -----------------------------
(***************************************************************************)
(* MerkleTree (app/core/merkle.py): construction with the odd sibling      *)
(* duplicated, the traversal diff that run_backup uses to find the new     *)
(* chunks, and the root comparison that verification and restore use.      *)
(*                                                                         *)
(* SHA-256 is taken to be injective: the hash of an inner node is the pair *)
(* of its children's hashes.  Leaves are not hashed again, so the digests  *)
(* of chunks and the hashes of inner nodes share one domain: a pair among  *)
(* the Digests is the digest of a chunk of 128 bytes that spells the two   *)
(* digests, and the tree cannot tell it from the node above them.          *)
(*                                                                         *)
(* The state is two chunk lists, of the previous and of the current        *)
(* snapshot, grown chunk by chunk to every pair of lists within the bound. *)
(***************************************************************************)
EXTENDS Naturals, Sequences, SequencesExt

CONSTANTS
    Digests,
    MaxLen        \* bound: chunks in a list

VARIABLES old, new
treeVars == <<old, new>>

\* MerkleNode.  A leaf's hash is the chunk's digest as it is.
Leaf(h) == [hash |-> h, is_leaf |-> TRUE]

NodeHash(left, right) == <<left, right>>

Parent(l, r) ==
    [hash |-> NodeHash(l.hash, r.hash), is_leaf |-> FALSE, left |-> l, right |-> r]

\* One pass of the loop in _build: pad to even length, combine pairs.
PadDrop(nodes) == IF Len(nodes) % 2 = 1 THEN Front(nodes) ELSE nodes  \* mutant
Pad(nodes) == IF Len(nodes) % 2 = 1 THEN Append(nodes, Last(nodes)) ELSE nodes

NextLayer(nodes) ==
    LET even == Pad(nodes) IN
    [i \in 1..(Len(even) \div 2) |-> Parent(even[2 * i - 1], even[2 * i])]

\* The while loop of _build: the list of nodes after each pass.  A pass makes a
\* list of two or more shorter, so as many passes as there are chunks are enough;
\* a list of one stays.
Layers(hashes) ==
    LET layer[k \in 0..Len(hashes)] ==
            IF k = 0 THEN [i \in 1..Len(hashes) |-> Leaf(hashes[i])]
            ELSE LET nodes == layer[k - 1] IN
                 IF Len(nodes) > 1 THEN NextLayer(nodes) ELSE nodes
    IN  layer

\* The root of a list that is not empty.
Root(hashes) == Layers(hashes)[Len(hashes)][1]

EmptyRoot == <<>>               \* sha256(b"")

RootHash(hashes) == IF hashes = <<>> THEN EmptyRoot ELSE Root(hashes).hash

\* _all_node_hashes: the walk from the root meets the nodes of all layers, since
\* each was made a child in the next one.  An empty tree has none.
AllNodes(hashes) ==
    LET layer == Layers(hashes) IN UNION {ToSet(layer[k]) : k \in DOMAIN layer}

AllNodeHashes(hashes) == {x.hash : x \in AllNodes(hashes)}

\* _collect_new_chunks, for a node of the tree: skip subtrees the other tree has.
CollectLeft(hashes, others) ==                                        \* mutant
    LET collect[x \in AllNodes(hashes)] ==
            IF x.hash \in others THEN <<>>
            ELSE IF x.is_leaf THEN <<x.hash>>
            ELSE collect[x.left]
    IN  collect
CollectNewChunks(hashes, others) ==
    LET collect[x \in AllNodes(hashes)] ==
            IF x.hash \in others THEN <<>>
            ELSE IF x.is_leaf THEN <<x.hash>>
            ELSE collect[x.left] \o collect[x.right]
    IN  collect

\* mine.diff(other), the list of chunk hashes.
Diff(mine, other) ==
    IF mine = <<>> THEN <<>>
    ELSE CollectNewChunks(mine, AllNodeHashes(other))[Root(mine)]

\* MerkleTree.verify(hashes, expected_root).
Verify(hashes, expected) == RootHash(hashes) = expected

-----------------------------------------------------------------------------
MerkleInit == old = <<>> /\ new = <<>>

GrowOld(h) == Len(old) < MaxLen /\ old' = Append(old, h) /\ UNCHANGED new
GrowNew(h) == Len(new) < MaxLen /\ new' = Append(new, h) /\ UNCHANGED old

MerkleNext == \E h \in Digests : GrowOld(h) \/ GrowNew(h)

-----------------------------------------------------------------------------
\* The condition the missing separation of leaves and inner nodes asks for: no
\* chunk of one list spells the digests below an inner node of the other.
InnerHashes(hashes) == {x.hash : x \in {y \in AllNodes(hashes) : ~y.is_leaf}}

Separated(a, b) ==
    ToSet(a) \cap InnerHashes(b) = {} /\ ToSet(b) \cap InnerHashes(a) = {}

\* "Return chunk hashes that are in *self* but absent from *other*" (merkle.py
\* 117): what the traversal finds is new, always; and where the lists are
\* separated it finds, though it skips subtrees, all that a comparison of the two
\* lists as sets finds, for lists of any two lengths, with duplicates and
\* padding.  run_backup records BackupChunk rows for these only
\* (backup_worker.py 177), so a chunk it missed would have no row.
DiffIsSetDifference ==
    /\ ToSet(Diff(new, old)) \subseteq ToSet(new) \ ToSet(old)
    /\ Separated(new, old) => ToSet(new) \ ToSet(old) \subseteq ToSet(Diff(new, old))

\* A root accepts one list of each length, whatever the digests are: a chunk
\* replaced by another, or two chunks swapped, is found (restore_worker.py
\* 128-149, scheduler.py 317-319).  Of lists of other lengths it accepts only
\* those with the same chunks, where the lists are separated and none holds the
\* empty chunk, whose digest is the root of the empty list (merkle.py 73).
RootSeparates ==
    Verify(new, RootHash(old)) =>
        /\ Len(new) = Len(old) => new = old
        /\ Separated(new, old) /\ EmptyRoot \notin ToSet(new) \cup ToSet(old) =>
              ToSet(new) = ToSet(old)
=============================================================================
