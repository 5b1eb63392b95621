------------------------ MODULE SnapshotStoreProofs ------------------------
(***************************************************************************)
(* Proofs about SnapshotStore, for every set of sources, chunks, workers   *)
(* and restore jobs and every bound on the number of snapshots.            *)
(***************************************************************************)
EXTENDS SnapshotStore, WellFoundedInduction, TLAPS

-----------------------------------------------------------------------------
(* The most recent snapshot exists.                                        *)

Less == {ss \in Nat \X Nat : ss[1] < ss[2]}

\* The order on snapshot ids has no infinite descent.
LEMMA LessWellFounded == IsWellFoundedOn(Less, Nat)
  BY NatLessThanWellFounded DEF Less, OpToRel

\* A non-empty set of snapshot ids has a largest element.
LEMMA LargestExists ==
  ASSUME NEW n \in Nat, NEW S \in SUBSET (1..n), S # {}
  PROVE  \E s \in S : \A t \in S : t <= s
<1> DEFINE T == {n - s : s \in S}
<1>1. T \subseteq Nat /\ T # {}
  <2>1. \A s \in S : s \in Nat /\ s <= n /\ n - s \in Nat
    OBVIOUS
  <2>2. PICK s \in S : TRUE
    OBVIOUS
  <2>3. n - s \in T
    BY <2>2
  <2> QED
    BY <2>1, <2>3
<1>2. PICK x \in T : \A y \in T : ~ (<<y, x>> \in Less)
  <2> HIDE DEF T
  <2> QED
    BY <1>1, LessWellFounded, WFMin
<1>3. PICK s \in S : x = n - s
  OBVIOUS
<1>4. \A t \in S : t <= s
  <2> TAKE t \in S
  <2>1. n - t \in T
    OBVIOUS
  <2>2. ~(n - t < n - s)
    BY <2>1, <1>1, <1>2, <1>3 DEF Less
  <2> QED
    BY <2>2
<1> QED
  BY <1>4

\* NewestOf returns the largest id of a non-empty set (ORDER BY created_at DESC
\* LIMIT 1), and NULL only for the empty one.
LEMMA NewestOfLargest ==
  ASSUME NEW S \in SUBSET SnapId
  PROVE  /\ NewestOf(S) \in SnapId \cup {Null}
         /\ NewestOf(S) # Null => NewestOf(S) \in S
         /\ S # {} => NewestOf(S) \in S /\ \A t \in S : t <= NewestOf(S)
<1>1. CASE S = {}
  BY <1>1 DEF NewestOf, Null
<1>2. CASE S # {}
  <2>1. \E s \in S : \A t \in S : t <= s
    BY <1>2, BoundsAssumption, LargestExists DEF SnapId
  <2> QED
    BY <1>2, <2>1 DEF NewestOf
<1> QED
  BY <1>1, <1>2

-----------------------------------------------------------------------------
(* Type correctness.                                                       *)

\* An empty installation has its types.
LEMMA TypeInit == Init => TypeOK
  BY BoundsAssumption DEF Init, TypeOK, Live, SnapId, Null, WorkerRec, IdleWorker,
     RestoreRec, NoRestore

\* Every step of a backup task keeps the types.
LEMMA TypeBackup ==
  ASSUME TypeOK, NEW w \in Workers, Backup(w)
  PROVE  TypeOK'
<1> USE BoundsAssumption DEF TypeOK, Live, dbVars, pruneVars
<1>1. ASSUME NEW a \in sources, NEW inc \in BOOLEAN, NEW F \in SUBSET Chunks,
             BackupBegin(w, a, inc, F)
      PROVE  TypeOK'
  BY <1>1 DEF BackupBegin, WorkerRec, Null
<1>2. ASSUME NEW c \in Chunks, StoreChunk(w, c)
      PROVE  TypeOK'
  BY <1>2 DEF StoreChunk, WorkerRec
<1>3. CASE DiffPrevious(w)
  <2> DEFINE p == IF wk[w].inc THEN NewestOf(OfSource(wk[w].source)) ELSE Null
  <2>1. p \in SnapId \cup {Null} /\ (p # Null => p \in Live)
    BY NewestOfLargest DEF OfSource, Null
  <2>2. (IF p = Null THEN {} ELSE DiffBase(p)) \in SUBSET Chunks
    BY <2>1 DEF DiffBase, SnapRec
  <2> HIDE DEF p
  <2>3. wk' = [wk EXCEPT ![w].pc = "persist", ![w].parent = p,
                         ![w].base = IF p = Null THEN {} ELSE DiffBase(p)]
    BY <1>3 DEF DiffPrevious, p
  <2>4. wk' \in [Workers -> WorkerRec]
    <3> DEFINE b == IF p = Null THEN {} ELSE DiffBase(p)
               d1 == [wk[w] EXCEPT !.pc = "persist"]
               d2 == [d1 EXCEPT !.parent = p]
               d3 == [d2 EXCEPT !.base = b]
    <3>1. d1 \in WorkerRec
      BY DEF WorkerRec
    <3> HIDE DEF d1
    <3>2. d2 \in WorkerRec
      BY <2>1, <3>1 DEF WorkerRec
    <3> HIDE DEF d2, b
    <3>3. d3 \in WorkerRec
      BY <2>2, <3>2 DEF WorkerRec, b
    <3>4. wk' = [wk EXCEPT ![w] = d3]
      BY <2>3 DEF d1, d2, b
    <3> HIDE DEF d3
    <3> QED
      BY <3>3, <3>4
  <2> QED
    BY <1>3, <2>3, <2>4 DEF DiffPrevious
<1>4. CASE PersistSnapshot(w)
  <2>1. wk[w].files \ wk[w].base \in SUBSET Chunks /\ wk[w].files \in SUBSET Chunks
        /\ wk[w].parent \in SnapId \cup {Null} /\ wk[w].source \in Sources
    BY <1>4 DEF PersistSnapshot, WorkerRec
  <2> QED
    BY <1>4, <2>1 DEF PersistSnapshot, Insert, SnapId, SnapRec, WorkerRec, IdleWorker, Null
<1>5. CASE BackupFail(w)
  BY <1>5 DEF BackupFail, WorkerRec, IdleWorker, Null
<1> QED
  BY <1>1, <1>2, <1>3, <1>4, <1>5 DEF Backup

\* Every API handler keeps the types.
LEMMA TypeApi ==
  ASSUME TypeOK, Api
  PROVE  TypeOK'
<1> USE BoundsAssumption DEF TypeOK, Live, dbVars, pruneVars
<1>1. ASSUME NEW a \in sources, SynthesizeFull(a)
      PROVE  TypeOK'
  <2> DEFINE latest == NewestOf(OfSource(a))
  <2>1. latest \in Live
    BY <1>1, NewestOfLargest DEF SynthesizeFull, OfSource
  <2>2. snaps[latest].files \in SUBSET Chunks
    BY <2>1 DEF SnapRec
  <2> HIDE DEF latest
  <2> DEFINE rec == [source |-> a, parent |-> Null, files |-> snaps[latest].files,
                     rows |-> {}, synth |-> TRUE]
  <2>3. rec \in SnapRec
    BY <2>2 DEF SnapRec, Null
  <2>4. Insert(rec) /\ UNCHANGED <<sources, locked, cas, wk, pruneVars, rst>>
    BY <1>1 DEF SynthesizeFull, latest
  <2> HIDE DEF rec
  <2> QED
    BY <2>3, <2>4 DEF Insert, SnapId
<1>2. ASSUME NEW s \in SnapId, LockSnapshot(s)
      PROVE  TypeOK'
  BY <1>2 DEF LockSnapshot, Visible
<1>3. ASSUME NEW s \in SnapId, UnlockSnapshot(s)
      PROVE  TypeOK'
  BY <1>3 DEF UnlockSnapshot, Visible
<1>4. ASSUME NEW a \in sources, DeleteSource(a)
      PROVE  TypeOK'
  BY <1>4 DEF DeleteSource, DeletableSource, Remove, OfSource
<1> QED
  BY <1>1, <1>2, <1>3, <1>4 DEF Api

\* Every step of a prune run keeps the types.
LEMMA TypePrune ==
  ASSUME TypeOK, Prune
  PROVE  TypeOK'
<1> USE DEF TypeOK, Live, dbVars, pruneVars
<1>1. CASE PruneBegin
  BY <1>1 DEF PruneBegin
<1>2. ASSUME NEW a \in Sources, NEW k \in 2..nextId,
             NEW M \in SUBSET (pfree \cap locked), PruneSelect(a, k, M)
      PROVE  TypeOK'
  <2>1. Expired(a, k) \subseteq Live /\ Candidates(a, k, M) \subseteq Expired(a, k)
    BY DEF Candidates, Expired, OfSource
  <2> QED
    BY <1>2, <2>1 DEF PruneSelect
<1>3. ASSUME NEW s \in SnapId, PruneDelete(s)
      PROVE  TypeOK'
  <2>1. s \in Live => snaps[s].rows \in SUBSET Chunks
    BY DEF SnapRec
  <2> QED
    BY <1>3, <2>1 DEF PruneDelete
<1>4. ASSUME NEW h \in Chunks, PruneKeepChunk(h)
      PROVE  TypeOK'
  BY <1>4 DEF PruneKeepChunk
<1>5. ASSUME NEW h \in Chunks, PruneFindUnreferenced(h)
      PROVE  TypeOK'
  BY <1>5 DEF PruneFindUnreferenced
<1>6. CASE PruneUnlink
  BY <1>6 DEF PruneUnlink
<1>7. CASE PruneSnapshotDone
  BY <1>7 DEF PruneSnapshotDone
<1>8. CASE PruneCommit
  BY <1>8 DEF PruneCommit, Remove
<1>9. CASE PruneRollback
  BY <1>9 DEF PruneRollback
<1> QED
  BY <1>1, <1>2, <1>3, <1>4, <1>5, <1>6, <1>7, <1>8, <1>9 DEF Prune

\* Every step of a restore keeps the types.
LEMMA TypeRestore ==
  ASSUME TypeOK, NEW r \in Restores, Restore(r)
  PROVE  TypeOK'
<1> USE BoundsAssumption DEF TypeOK, Live, dbVars, pruneVars
<1>1. ASSUME NEW s \in Live, NEW d \in BOOLEAN, NEW want \in SUBSET snaps[s].files,
             TriggerRestore(r, s, want, d)
      PROVE  TypeOK'
  <2>1. want \in SUBSET Chunks
    BY DEF SnapRec
  <2> QED
    BY <1>1, <2>1 DEF TriggerRestore, RestoreRec, Visible
<1>2. CASE RestoreBegin(r)
  <2> DEFINE n == IF rst[r].status = "failed" THEN rst[r].left - 1 ELSE rst[r].left
             d1 == [rst[r] EXCEPT !.status = "running"]
             d2 == [d1 EXCEPT !.need = rst[r].want]
             d3 == [d2 EXCEPT !.left = n]
  <2>1. n \in 0..MaxRetries
    BY <1>2 DEF RestoreBegin, RestoreRec
  <2>2. d1 \in RestoreRec
    BY DEF RestoreRec
  <2> HIDE DEF d1
  <2>3. d2 \in RestoreRec
    BY <2>2 DEF RestoreRec
  <2> HIDE DEF d2, n
  <2>4. d3 \in RestoreRec
    BY <2>1, <2>3 DEF RestoreRec
  <2>5. rst' = [rst EXCEPT ![r] = d3]
    <3>1. DOMAIN rst = Restores
      OBVIOUS
    <3> HIDE DEF TypeOK
    <3> QED
      BY <1>2, <3>1 DEF RestoreBegin, d1, d2, n
  <2> HIDE DEF d3
  <2> QED
    BY <1>2, <2>4, <2>5 DEF RestoreBegin
<1>3. ASSUME NEW c \in Chunks, RestoreChunk(r, c)
      PROVE  TypeOK'
  BY <1>3 DEF RestoreChunk, RestoreRec
<1>4. CASE RestoreVerify(r)
  BY <1>4 DEF RestoreVerify, RestoreRec
<1>5. CASE RestoreComplete(r)
  BY <1>5 DEF RestoreComplete, RestoreRec
<1>6. CASE RestoreFail(r)
  <2> DEFINE d1 == [rst[r] EXCEPT !.status = "failed"]
             d2 == [d1 EXCEPT !.need = {}]
  <2>1. d1 \in RestoreRec
    BY DEF RestoreRec
  <2> HIDE DEF d1
  <2>2. d2 \in RestoreRec
    BY <2>1 DEF RestoreRec
  <2>3. rst' = [rst EXCEPT ![r] = d2]
    BY <1>6 DEF RestoreFail, d1
  <2> HIDE DEF d2
  <2> QED
    BY <1>6, <2>2, <2>3 DEF RestoreFail
<1>7. CASE RestoreLost(r)
  BY <1>7 DEF RestoreLost, RestoreRec
<1> QED
  BY <1>1, <1>2, <1>3, <1>4, <1>5, <1>6, <1>7 DEF Restore

\* One step of the program keeps the types.
LEMMA TypeStep == TypeOK /\ [Next]_vars => TypeOK'
<1> SUFFICES ASSUME TypeOK, [Next]_vars
             PROVE  TypeOK'
  OBVIOUS
<1>1. CASE \E w \in Workers : Backup(w)
  BY <1>1, TypeBackup
<1>2. CASE Api
  BY <1>2, TypeApi
<1>3. CASE Prune
  BY <1>3, TypePrune
<1>4. CASE \E r \in Restores : Restore(r)
  BY <1>4, TypeRestore
<1>5. CASE UNCHANGED vars
  BY <1>5 DEF TypeOK, Live, vars, dbVars, pruneVars
<1> QED
  BY <1>1, <1>2, <1>3, <1>4, <1>5 DEF Next

\* The types hold in every state, whatever the processes interleave: in
\* particular the rows the pruner has deleted and not committed are rows that
\* still exist, so that rolling back or committing is well defined.
THEOREM TypeCorrect == Spec => []TypeOK
  BY TypeInit, TypeStep, PTL DEF Spec

-----------------------------------------------------------------------------
(* RowsCoverManifest.  It is not inductive: a rollback brings deleted      *)
(* snapshots back, a deleted source takes a whole chain away, and a backup  *)
(* that persists relies on what it read of its parent some steps earlier.   *)

\* A backup about to persist still knows its parent's BackupChunk rows, if the
\* parent is still there.
WorkerInv ==
    \A w \in Workers :
        /\ wk[w].parent < nextId
        /\ wk[w].pc = "persist" =>
             /\ wk[w].parent = Null => wk[w].base = {}
             /\ wk[w].parent \in Live =>
                  /\ wk[w].base = snaps[wk[w].parent].rows
                  /\ snaps[wk[w].parent].source = wk[w].source

\* A parent exists, is of the same source, and is not deleted before its child.
ParentInv ==
    \A s \in Live :
        snaps[s].parent # Null =>
            /\ snaps[s].parent \in Live
            /\ snaps[snaps[s].parent].source = snaps[s].source
            /\ s \in Visible => snaps[s].parent \in Visible

\* The rows of a snapshot and of its parent cover its manifest.
CoverInv ==
    \A s \in Live : ~snaps[s].synth =>
        \A c \in snaps[s].files :
            \/ c \in snaps[s].rows
            \/ snaps[s].parent # Null /\ c \in snaps[snaps[s].parent].rows

ChainInv == WorkerInv /\ ParentInv /\ CoverInv

\* The steps of a backup keep the chain of parents and rows.
LEMMA ChainBackup ==
  ASSUME TypeOK, ChainInv, NEW w \in Workers, Backup(w)
  PROVE  ChainInv'
<1> USE BoundsAssumption DEF ChainInv, WorkerInv, ParentInv, CoverInv, Live, Visible,
        dbVars, pruneVars
<1>1. ASSUME NEW a \in sources, NEW inc \in BOOLEAN, NEW F \in SUBSET Chunks,
             BackupBegin(w, a, inc, F)
      PROVE  ChainInv'
  BY <1>1 DEF BackupBegin, TypeOK, Null
<1>2. ASSUME NEW c \in Chunks, StoreChunk(w, c)
      PROVE  ChainInv'
  BY <1>2 DEF StoreChunk, TypeOK, WorkerRec
<1>3. CASE DiffPrevious(w)
  <2> DEFINE p == IF wk[w].inc THEN NewestOf(OfSource(wk[w].source)) ELSE Null
             b == IF p = Null THEN {} ELSE DiffBase(p)
  <2>1. p # Null => p \in Live /\ snaps[p].source = wk[w].source /\ p < nextId
    BY NewestOfLargest DEF OfSource, Null, TypeOK
  <2>2. p < nextId
    BY <2>1 DEF Null, TypeOK
  <2>3. /\ p = Null => b = {}
        /\ p \in Live => b = snaps[p].rows /\ snaps[p].source = wk[w].source
    BY <2>1 DEF DiffBase, Null, TypeOK, SnapId
  <2> HIDE DEF p, b
  <2>4. wk' = [wk EXCEPT ![w].pc = "persist", ![w].parent = p, ![w].base = b]
    BY <1>3 DEF DiffPrevious, p, b
  <2>5. /\ wk'[w].pc = "persist" /\ wk'[w].parent = p /\ wk'[w].base = b
        /\ wk'[w].source = wk[w].source
        /\ \A v \in Workers \ {w} : wk'[v] = wk[v]
    BY <2>4 DEF TypeOK, WorkerRec
  <2>6. UNCHANGED <<snaps, nextId, pdel>>
    BY <1>3 DEF DiffPrevious
  <2>7. WorkerInv'
    BY <2>2, <2>3, <2>5, <2>6
  <2> QED
    BY <2>6, <2>7
<1>4. CASE PersistSnapshot(w)
  <2> DEFINE new == [source |-> wk[w].source, parent |-> wk[w].parent,
                     files |-> wk[w].files, rows |-> wk[w].files \ wk[w].base,
                     synth |-> FALSE]
  <2>1. /\ new.source = wk[w].source /\ new.parent = wk[w].parent
        /\ new.files = wk[w].files /\ new.rows = wk[w].files \ wk[w].base
    OBVIOUS
  <2>2. Insert(new)
    BY <1>4 DEF PersistSnapshot
  <2> HIDE DEF new
  <2>3. /\ nextId \notin Live /\ nextId \in Nat /\ nextId # Null
        /\ Live' = Live \cup {nextId}
        /\ snaps'[nextId] = new
        /\ \A s \in Live : snaps'[s] = snaps[s]
    BY <2>2 DEF Insert, TypeOK, SnapId, Null
  <2>4. wk[w].parent # Null => wk[w].parent \in Visible
    BY <1>4 DEF PersistSnapshot
  <2>5. WorkerInv'
    <3>1. \A v \in Workers : wk'[v] = wk[v] \/ wk'[v] = IdleWorker
      BY <1>4 DEF PersistSnapshot, TypeOK
    <3>2. /\ IdleWorker.parent = Null /\ IdleWorker.pc = "idle"
      BY DEF IdleWorker
    <3>3. nextId' = nextId + 1
      BY <2>2 DEF Insert
    <3> QED
      BY <3>1, <3>2, <3>3, <2>3 DEF TypeOK, WorkerRec, SnapId, Null
  <2>6. ParentInv'
    BY <1>4, <2>1, <2>3, <2>4 DEF PersistSnapshot, TypeOK
  <2>7. CoverInv'
    BY <1>4, <2>1, <2>3, <2>4 DEF PersistSnapshot, ParentInv
  <2> QED
    BY <2>5, <2>6, <2>7
<1>5. CASE BackupFail(w)
  BY <1>5 DEF BackupFail, IdleWorker, TypeOK, Null
<1> QED
  BY <1>1, <1>2, <1>3, <1>4, <1>5 DEF Backup
\* The API handlers keep the chain: a synthetic snapshot has no parent, and a
\* deleted source goes with all its snapshots.
LEMMA ChainApi ==
  ASSUME TypeOK, ChainInv, Api
  PROVE  ChainInv'
<1> USE BoundsAssumption DEF ChainInv, WorkerInv, ParentInv, CoverInv, Live, Visible,
        dbVars, pruneVars
<1>1. ASSUME NEW a \in sources, SynthesizeFull(a)
      PROVE  ChainInv'
  <2> DEFINE new == [source |-> a, parent |-> Null,
                     files |-> snaps[NewestOf(OfSource(a))].files,
                     rows |-> {}, synth |-> TRUE]
  <2>1. new.parent = Null /\ new.synth
    OBVIOUS
  <2>2. Insert(new) /\ UNCHANGED <<wk, pdel>>
    BY <1>1 DEF SynthesizeFull
  <2> HIDE DEF new
  <2>3. /\ nextId \notin Live /\ nextId \in Nat /\ nextId' = nextId + 1
        /\ Live' = Live \cup {nextId}
        /\ snaps'[nextId] = new
        /\ \A s \in Live : snaps'[s] = snaps[s]
    BY <2>2 DEF Insert, TypeOK, SnapId
  <2>4. \A w \in Workers : wk[w].parent \in Nat
    BY DEF TypeOK, WorkerRec, SnapId, Null
  <2>5. WorkerInv'
    BY <2>2, <2>3, <2>4
  <2>6. ParentInv'
    BY <2>1, <2>2, <2>3
  <2>7. CoverInv'
    BY <2>1, <2>2, <2>3
  <2> QED
    BY <2>5, <2>6, <2>7
<1>2. ASSUME NEW s \in SnapId, LockSnapshot(s) \/ UnlockSnapshot(s)
      PROVE  ChainInv'
  BY <1>2 DEF LockSnapshot, UnlockSnapshot
<1>3. ASSUME NEW a \in sources, DeleteSource(a)
      PROVE  ChainInv'
  <2>1. /\ Live' = Live \ OfSource(a)
        /\ \A s \in Live' : snaps'[s] = snaps[s]
        /\ UNCHANGED <<wk, nextId, pdel>>
    BY <1>3 DEF DeleteSource, Remove
  <2>2. \A s \in Live : s \in OfSource(a) <=> snaps[s].source = a
    BY DEF OfSource
  <2>3. WorkerInv'
    BY <2>1
  <2>4. ParentInv'
    BY <2>1, <2>2
  <2>5. CoverInv'
    BY <2>1, <2>2
  <2> QED
    BY <2>3, <2>4, <2>5
<1> QED
  BY <1>1, <1>2, <1>3 DEF Api

\* The pruner keeps the chain: its DELETE fails on a snapshot with a child,
\* and both ways its transaction can end keep parents with their children.
LEMMA ChainPrune ==
  ASSUME TypeOK, ChainInv, Prune
  PROVE  ChainInv'
<1> USE DEF ChainInv, WorkerInv, ParentInv, CoverInv, Live, Visible, dbVars, pruneVars
<1>1. CASE PruneBegin
  BY <1>1 DEF PruneBegin
<1>2. ASSUME NEW a \in Sources, NEW k \in 2..nextId,
             NEW M \in SUBSET (pfree \cap locked), PruneSelect(a, k, M)
      PROVE  ChainInv'
  BY <1>2 DEF PruneSelect
<1>3. ASSUME NEW s \in SnapId, PruneDelete(s)
      PROVE  ChainInv'
  BY <1>3 DEF PruneDelete, FkReferenced
<1>4. ASSUME NEW h \in Chunks, PruneKeepChunk(h) \/ PruneFindUnreferenced(h)
      PROVE  ChainInv'
  BY <1>4 DEF PruneKeepChunk, PruneFindUnreferenced
<1>5. CASE PruneUnlink \/ PruneSnapshotDone
  BY <1>5 DEF PruneUnlink, PruneSnapshotDone
<1>6. CASE PruneCommit
  <2>1. /\ Live' = Visible /\ Visible' = Visible
        /\ \A s \in Live' : snaps'[s] = snaps[s]
        /\ UNCHANGED <<wk, nextId>>
    BY <1>6 DEF PruneCommit, Remove
  <2>2. WorkerInv'
    BY <2>1
  <2>3. ParentInv'
    BY <2>1
  <2>4. CoverInv'
    BY <2>1
  <2> QED
    BY <2>2, <2>3, <2>4
<1>7. CASE PruneRollback
  BY <1>7 DEF PruneRollback
<1> QED
  BY <1>1, <1>2, <1>3, <1>4, <1>5, <1>6, <1>7 DEF Prune

\* No step of a restore touches snapshots, backups or the pruner.
LEMMA RestoreFrame ==
  ASSUME NEW r \in Restores, Restore(r)
  PROVE  UNCHANGED <<sources, snaps, nextId, locked, cas, wk, ppc, pfree, pcand, pdel, pgc, ph>>
  BY DEF Restore, TriggerRestore, RestoreBegin, RestoreChunk, RestoreVerify,
         RestoreComplete, RestoreFail, RestoreLost, dbVars, pruneVars

\* Every step keeps the chain of parents and rows.
LEMMA ChainStep == TypeOK /\ ChainInv /\ [Next]_vars => ChainInv'
<1> SUFFICES ASSUME TypeOK, ChainInv, [Next]_vars
             PROVE  ChainInv'
  OBVIOUS
<1>1. CASE \E w \in Workers : Backup(w)
  BY <1>1, ChainBackup
<1>2. CASE Api
  BY <1>2, ChainApi
<1>3. CASE Prune
  BY <1>3, ChainPrune
<1>4. CASE UNCHANGED <<snaps, nextId, wk, pdel>>
  BY <1>4 DEF ChainInv, WorkerInv, ParentInv, CoverInv, Live, Visible
<1> QED
  BY <1>1, <1>2, <1>3, <1>4, RestoreFrame DEF Next, vars, dbVars, pruneVars

\* There is no chain at first.
LEMMA ChainInit == Init => ChainInv
  BY DEF Init, ChainInv, WorkerInv, ParentInv, CoverInv, Live, IdleWorker, Null

\* The chain invariant holds in every state.
LEMMA ChainCorrect == Spec => []ChainInv
<1>1. TypeOK /\ ChainInv /\ [Next]_vars => ChainInv'
  BY ChainStep
<1> QED
  BY <1>1, ChainInit, TypeCorrect, PTL DEF Spec

\* Every digest a live snapshot's manifest lists has a BackupChunk row in the
\* snapshot or in its parent, and the parent outlives it: recording only the
\* diff against the parent's rows loses nothing the garbage collector counts.
THEOREM ManifestCovered == Spec => []RowsCoverManifest
<1>1. ChainInv => RowsCoverManifest
  BY DEF ChainInv, ParentInv, CoverInv, RowsCoverManifest, Visible
<1> QED
  BY <1>1, ChainCorrect, PTL

\* safe_to_delete is right for backups: a snapshot that is nobody's parent holds
\* no row another backup depends on, because a backup's digests have rows in
\* itself or in its own parent.
THEOREM ChainFlagSound == Spec => []ChainSafeForBackups
<1>1. ChainInv => ChainSafeForBackups
  <2> SUFFICES ASSUME ChainInv, NEW s \in Visible, ChainSafe(s),
                      NEW t \in Visible \ {s}, ~snaps[t].synth, NEW c \in snaps[t].files
               PROVE  \E u \in Visible \ {s} : c \in snaps[u].rows
    BY DEF ChainSafeForBackups, RowsWithout
  <2>1. \/ c \in snaps[t].rows
        \/ snaps[t].parent # Null /\ c \in snaps[snaps[t].parent].rows
    BY DEF ChainInv, CoverInv, Visible
  <2>2. snaps[t].parent # Null =>
           snaps[t].parent \in Visible /\ snaps[snaps[t].parent].source = snaps[t].source
    BY DEF ChainInv, ParentInv, Visible
  <2>3. snaps[t].parent # Null => snaps[t].parent # s
    BY <2>2 DEF ChainSafe, OfSource, Visible
  <2> QED
    BY <2>1, <2>2, <2>3
<1> QED
  BY <1>1, ChainCorrect, PTL

-----------------------------------------------------------------------------
(* What one step does to the table of snapshots, seen from outside.        *)

\* What a step that is not the pruner's or a restore's may do to the table.
TableChange ==
    /\ Live' \subseteq Live \cup {nextId}
    /\ \A s \in Live \cap Live' : snaps'[s] = snaps[s]
    /\ \A s \in Live \ Live' :
          /\ \A t \in Live : snaps[t].source = snaps[s].source => t \notin Live' \cup pdel
          /\ \A r \in Restores : rst[r].snap # s
    /\ UNCHANGED <<ppc, pfree, pcand, pdel, pgc, ph, rst>>

\* Backups and API handlers leave the snapshots that stay as they are, add only
\* a fresh id, and remove snapshots only with all others of their source, none
\* of them pinned by a restore or deleted by the pruner.
LEMMA TableStep ==
  ASSUME TypeOK, (\E w \in Workers : Backup(w)) \/ Api
  PROVE  TableChange
<1> USE DEF Live, dbVars, pruneVars, TableChange
<1>1. ASSUME NEW rec, Insert(rec), UNCHANGED <<ppc, pfree, pcand, pdel, pgc, ph, rst>>
      PROVE  TableChange
  BY <1>1 DEF Insert, TypeOK
<1>2. ASSUME UNCHANGED <<snaps, ppc, pfree, pcand, pdel, pgc, ph, rst>>
      PROVE  TableChange
  BY <1>2
<1>3. ASSUME NEW w \in Workers, Backup(w)
      PROVE  TableChange
  <2>1. CASE PersistSnapshot(w)
    <3> HIDE DEF TableChange
    <3> QED
      BY <2>1, <1>1 DEF PersistSnapshot
  <2>2. CASE ~PersistSnapshot(w)
    <3>1. UNCHANGED <<snaps, ppc, pfree, pcand, pdel, pgc, ph, rst>>
      BY <1>3, <2>2 DEF Backup, BackupBegin, StoreChunk, DiffPrevious, BackupFail
    <3> QED
      BY <3>1, <1>2
  <2> QED
    BY <2>1, <2>2
<1>4. ASSUME NEW a \in sources, SynthesizeFull(a)
      PROVE  TableChange
  <2> HIDE DEF TableChange
  <2> QED
    BY <1>4, <1>1 DEF SynthesizeFull
<1>5. CASE \E s \in SnapId : LockSnapshot(s) \/ UnlockSnapshot(s)
  <2>1. UNCHANGED <<snaps, ppc, pfree, pcand, pdel, pgc, ph, rst>>
    BY <1>5 DEF LockSnapshot, UnlockSnapshot
  <2> QED
    BY <2>1, <1>2
<1>6. ASSUME NEW a \in sources, DeleteSource(a)
      PROVE  TableChange
  BY <1>6 DEF DeleteSource, DeletableSource, Remove, OfSource
<1> QED
  BY <1>3, <1>4, <1>5, <1>6 DEF Api

-----------------------------------------------------------------------------
(* NewestKept and RestorePinsSnapshot.                                     *)

\* The pruner keeps a newer snapshot of the same source next to everything it
\* deletes or has put on its list.
LEMMA NewestPrune ==
  ASSUME TypeOK, NewestKept, Prune
  PROVE  NewestKept'
<1> USE DEF NewestKept, Live, Visible, dbVars, pruneVars
<1>1. CASE PruneBegin
  BY <1>1 DEF PruneBegin
<1>2. ASSUME NEW a \in Sources, NEW k \in 2..nextId,
             NEW M \in SUBSET (pfree \cap locked), PruneSelect(a, k, M)
      PROVE  NewestKept'
  <2> DEFINE own == OfSource(a) \cap Visible
  <2>1. own \subseteq SnapId /\ own # {}
    BY <1>2 DEF PruneSelect, Expired, OfSource, TypeOK
  <2>2. NewestOf(own) \in own /\ \A t \in own : t <= NewestOf(own)
    BY <2>1, NewestOfLargest
  <2>3. /\ pcand' \subseteq {s \in own : s # NewestOf(own)}
        /\ pcand = {}
        /\ UNCHANGED <<snaps, pdel>>
    BY <1>2 DEF PruneSelect, Candidates, Expired, TypeOK
  <2>4. \A s \in own : snaps[s].source = a /\ s \in Visible /\ s \in Nat
    BY DEF OfSource, TypeOK, SnapId
  <2>5. \A s \in Visible : snaps[s].source = a => s \in own
    BY DEF OfSource
  <2> HIDE DEF own
  <2>6. NewestOf(own) \in Visible \ pcand'
    BY <2>2, <2>3, <2>4
  <2>7. ASSUME NEW s \in pcand' \cap Live
        PROVE  \E t \in Visible \ pcand' : t > s /\ snaps[t].source = snaps[s].source
    BY <2>2, <2>3, <2>4, <2>6
  <2>8. ASSUME NEW s \in pdel \cap Live
        PROVE  \E t \in Visible \ pcand' : t > s /\ snaps[t].source = snaps[s].source
    <3>1. PICK t \in Visible : t > s /\ snaps[t].source = snaps[s].source
      BY <2>3
    <3>2. CASE t \in pcand'
      <4>1. NewestOf(own) > s /\ snaps[NewestOf(own)].source = snaps[s].source
        BY <3>1, <3>2, <2>2, <2>3, <2>4 DEF TypeOK, SnapId
      <4> QED
        BY <4>1, <2>6
    <3> QED
      BY <3>1, <3>2
  <2> QED
    BY <2>3, <2>7, <2>8
<1>3. ASSUME NEW s \in SnapId, PruneDelete(s)
      PROVE  NewestKept'
  BY <1>3 DEF PruneDelete
<1>4. ASSUME NEW h \in Chunks, PruneKeepChunk(h) \/ PruneFindUnreferenced(h)
      PROVE  NewestKept'
  BY <1>4 DEF PruneKeepChunk, PruneFindUnreferenced
<1>5. CASE PruneUnlink \/ PruneSnapshotDone
  BY <1>5 DEF PruneUnlink, PruneSnapshotDone
<1>6. CASE PruneCommit
  BY <1>6 DEF PruneCommit, Remove, TypeOK
<1>7. CASE PruneRollback
  BY <1>7 DEF PruneRollback
<1> QED
  BY <1>1, <1>2, <1>3, <1>4, <1>5, <1>6, <1>7 DEF Prune

\* "The most-recent snapshot for each source is always kept regardless of age"
\* (scheduler.py 177), for any number of sources, policies and concurrent
\* backups.
THEOREM MostRecentKept == Spec => []NewestKept
<1>1. Init => NewestKept
  BY DEF Init, NewestKept
<1>2. TypeOK /\ NewestKept /\ [Next]_vars => NewestKept'
  <2> SUFFICES ASSUME TypeOK, NewestKept, [Next]_vars
               PROVE  NewestKept'
    OBVIOUS
  <2>1. CASE (\E w \in Workers : Backup(w)) \/ Api
    <3>1. TableChange
      BY <2>1, TableStep
    <3>2. \A s \in pdel \cup pcand : s \in Live' => s \in Live
      BY <3>1 DEF TypeOK, TableChange, SnapId
    <3> QED
      BY <3>1, <3>2 DEF NewestKept, Visible, TableChange
  <2>2. CASE Prune
    BY <2>2, NewestPrune
  <2>3. CASE UNCHANGED <<snaps, pcand, pdel>>
    BY <2>3 DEF NewestKept, Visible, Live
  <2> QED
    BY <2>1, <2>2, <2>3, RestoreFrame DEF Next, vars, dbVars, pruneVars
<1> QED
  BY <1>1, <1>2, TypeCorrect, PTL DEF Spec

\* Restore jobs hold on to their snapshot, and what they still need is part of
\* what they want.
PinInv ==
    \A r \in Restores :
        /\ rst[r].need \subseteq rst[r].want
        /\ rst[r].status # "none" =>
             /\ rst[r].snap \in Visible
             /\ rst[r].want \subseteq snaps[rst[r].snap].files

\* The steps of a restore keep the pin.
LEMMA PinRestore ==
  ASSUME TypeOK, PinInv, NEW r \in Restores, Restore(r)
  PROVE  PinInv'
<1> USE DEF PinInv
<1>1. Visible' = Visible /\ snaps' = snaps
  BY RestoreFrame DEF Visible, Live
<1>2. ASSUME NEW s \in Live, NEW d \in BOOLEAN, NEW want \in SUBSET snaps[s].files,
             TriggerRestore(r, s, want, d)
      PROVE  PinInv'
  <2>1. /\ rst'[r].snap = s /\ rst'[r].want = want /\ rst'[r].need = {}
        /\ \A q \in Restores \ {r} : rst'[q] = rst[q]
        /\ s \in Visible
    BY <1>2 DEF TriggerRestore, TypeOK
  <2> QED
    BY <1>1, <2>1
<1>3. CASE ~ \E s \in Live, d \in BOOLEAN : \E want \in SUBSET snaps[s].files :
                TriggerRestore(r, s, want, d)
  <2>1. /\ rst'[r].snap = rst[r].snap /\ rst'[r].want = rst[r].want
        /\ rst'[r].need \subseteq rst[r].need \cup rst[r].want
        /\ rst[r].status # "none"
        /\ \A q \in Restores \ {r} : rst'[q] = rst[q]
    <3>1. CASE RestoreBegin(r)
      BY <3>1 DEF RestoreBegin, TypeOK, RestoreRec
    <3>2. CASE \E c \in Chunks : RestoreChunk(r, c)
      BY <3>2 DEF RestoreChunk, TypeOK, RestoreRec
    <3>3. CASE RestoreVerify(r) \/ RestoreComplete(r) \/ RestoreLost(r)
      BY <3>3 DEF RestoreVerify, RestoreComplete, RestoreLost, TypeOK, RestoreRec
    <3>4. CASE RestoreFail(r)
      BY <3>4 DEF RestoreFail, TypeOK, RestoreRec
    <3> QED
      BY <1>3, <3>1, <3>2, <3>3, <3>4 DEF Restore
  <2> QED
    BY <1>1, <2>1
<1> QED
  BY <1>2, <1>3

\* The pruner cannot delete a pinned snapshot.
LEMMA PinPrune ==
  ASSUME TypeOK, PinInv, Prune
  PROVE  PinInv'
<1> USE DEF PinInv, Visible, Live, dbVars, pruneVars
<1>1. ASSUME NEW s \in SnapId, PruneDelete(s)
      PROVE  PinInv'
  BY <1>1 DEF PruneDelete, FkReferenced
<1>2. CASE PruneCommit
  BY <1>2 DEF PruneCommit, Remove
<1>3. CASE PruneRollback
  BY <1>3 DEF PruneRollback
<1>4. CASE UNCHANGED <<snaps, pdel, rst>>
  BY <1>4
<1> QED
  BY <1>1, <1>2, <1>3, <1>4 DEF Prune, PruneBegin, PruneSelect, PruneKeepChunk,
     PruneFindUnreferenced, PruneUnlink, PruneSnapshotDone

\* Every step keeps the pins of restore jobs.
LEMMA PinStep == TypeOK /\ PinInv /\ [Next]_vars => PinInv'
<1> SUFFICES ASSUME TypeOK, PinInv, [Next]_vars
             PROVE  PinInv'
  OBVIOUS
<1>1. CASE (\E w \in Workers : Backup(w)) \/ Api
  <2>1. TableChange
    BY <1>1, TableStep
  <2> QED
    BY <2>1 DEF PinInv, TableChange, Visible
<1>2. CASE Prune
  BY <1>2, PinPrune
<1>3. CASE \E r \in Restores : Restore(r)
  BY <1>3, PinRestore
<1>4. CASE UNCHANGED vars
  BY <1>4 DEF PinInv, Visible, Live, vars, dbVars, pruneVars
<1> QED
  BY <1>1, <1>2, <1>3, <1>4 DEF Next

\* There are no restore jobs at first.
LEMMA PinInit == Init => PinInv
  BY DEF Init, PinInv, NoRestore

\* Restore jobs pin their snapshots throughout.
LEMMA PinCorrect == Spec => []PinInv
<1>1. TypeOK /\ PinInv /\ [Next]_vars => PinInv'
  BY PinStep
<1> QED
  BY <1>1, PinInit, TypeCorrect, PTL DEF Spec

\* No snapshot is pruned or deleted with its source under a restore job that
\* refers to it, from the request until long after its last retry.
THEOREM RestorePinned == Spec => []RestorePinsSnapshot
<1>1. PinInv => RestorePinsSnapshot
  BY DEF PinInv, RestorePinsSnapshot
<1> QED
  BY <1>1, PinCorrect, PTL

-----------------------------------------------------------------------------
(* Restorable, under the conditions of SafeSpec.                           *)

\* What makes Restorable inductive: no snapshot is synthetic; a backup in
\* flight finds the chunks it has stored; no backup is in flight during a
\* prune run; and the verdict "unreferenced" still holds when it is carried out.
SafeInv ==
    /\ Restorable
    /\ \A s \in Live : ~snaps[s].synth
    /\ \A w \in Workers :
          /\ wk[w].files \ wk[w].todo \subseteq cas
          /\ wk[w].pc = "persist" => wk[w].todo = {}
          /\ wk[w].pc = "idle" => wk[w].files = {}
    /\ ppc # "idle" => \A w \in Workers : wk[w].pc = "idle"
    /\ ppc = "unlink" => \A s \in Visible : ph \notin snaps[s].rows

\* A backup's steps: what it stores stays until it persists.
LEMMA SafeBackup ==
  ASSUME TypeOK, SafeInv, NEW w \in Workers, Backup(w), NoOverlap
  PROVE  SafeInv'
<1> USE DEF SafeInv, Restorable, Live, Visible, dbVars, pruneVars
<1>0. ppc' # "idle" => \A v \in Workers : wk'[v].pc = "idle"
  BY DEF NoOverlap
<1>1. ASSUME NEW a \in sources, NEW inc \in BOOLEAN, NEW F \in SUBSET Chunks,
             BackupBegin(w, a, inc, F)
      PROVE  SafeInv'
  <2>1. /\ wk'[w].files = F /\ wk'[w].todo = F /\ wk'[w].pc = "store"
        /\ \A v \in Workers \ {w} : wk'[v] = wk[v]
    BY <1>1 DEF BackupBegin, TypeOK
  <2>2. UNCHANGED <<snaps, cas, ppc, pdel, ph>>
    BY <1>1 DEF BackupBegin
  <2> QED
    BY <1>0, <2>1, <2>2
<1>2. ASSUME NEW c \in Chunks, StoreChunk(w, c)
      PROVE  SafeInv'
  <2>1. /\ wk'[w].files = wk[w].files /\ wk'[w].todo = wk[w].todo \ {c}
        /\ wk'[w].pc = "store"
        /\ \A v \in Workers \ {w} : wk'[v] = wk[v]
    BY <1>2 DEF StoreChunk, TypeOK, WorkerRec
  <2>2. cas' = cas \cup {c} /\ UNCHANGED <<snaps, ppc, pdel, ph>>
    BY <1>2 DEF StoreChunk
  <2> QED
    BY <1>0, <2>1, <2>2
<1>3. CASE DiffPrevious(w)
  <2>1. /\ wk'[w].files = wk[w].files /\ wk'[w].todo = wk[w].todo /\ wk[w].todo = {}
        /\ wk'[w].pc = "persist"
        /\ \A v \in Workers \ {w} : wk'[v] = wk[v]
    BY <1>3 DEF DiffPrevious, TypeOK, WorkerRec
  <2>2. UNCHANGED <<snaps, cas, ppc, pdel, ph>>
    BY <1>3 DEF DiffPrevious
  <2> QED
    BY <1>0, <2>1, <2>2
<1>4. CASE PersistSnapshot(w)
  <2> DEFINE new == [source |-> wk[w].source, parent |-> wk[w].parent,
                     files |-> wk[w].files, rows |-> wk[w].files \ wk[w].base,
                     synth |-> FALSE]
  <2>1. new.files = wk[w].files /\ ~new.synth
    OBVIOUS
  <2>2. Insert(new) /\ UNCHANGED <<cas, ppc, pdel, ph>>
    BY <1>4 DEF PersistSnapshot
  <2> HIDE DEF new
  <2>3. /\ Live' = Live \cup {nextId}
        /\ snaps'[nextId] = new
        /\ \A s \in Live : s # nextId /\ snaps'[s] = snaps[s]
    BY <2>2 DEF Insert, TypeOK, SnapId
  <2>4. wk[w].files \subseteq cas /\ ppc = "idle"
    BY <1>4 DEF PersistSnapshot, TypeOK
  <2>5. \A v \in Workers : wk'[v] = wk[v] \/ wk'[v] = IdleWorker
    BY <1>4 DEF PersistSnapshot, TypeOK
  <2>6. IdleWorker.pc = "idle" /\ IdleWorker.files = {} /\ IdleWorker.todo = {}
    BY DEF IdleWorker
  <2> QED
    BY <1>0, <2>1, <2>2, <2>3, <2>4, <2>5, <2>6
<1>5. CASE BackupFail(w)
  <2>1. \A v \in Workers : wk'[v] = wk[v] \/ wk'[v] = IdleWorker
    BY <1>5 DEF BackupFail, TypeOK
  <2>2. IdleWorker.pc = "idle" /\ IdleWorker.files = {} /\ IdleWorker.todo = {}
    BY DEF IdleWorker
  <2>3. UNCHANGED <<snaps, cas, ppc, pdel, ph>>
    BY <1>5 DEF BackupFail
  <2> QED
    BY <1>0, <2>1, <2>2, <2>3
<1> QED
  BY <1>1, <1>2, <1>3, <1>4, <1>5 DEF Backup

\* API handlers other than synthesize-full remove snapshots at most.
LEMMA SafeApi ==
  ASSUME TypeOK, SafeInv, Api, NoSynthesis
  PROVE  SafeInv'
<1> USE DEF SafeInv, Restorable, Live, Visible, dbVars, pruneVars
<1>1. ASSUME NEW a \in sources, SynthesizeFull(a)
      PROVE  FALSE
  <2> DEFINE new == [source |-> a, parent |-> Null,
                     files |-> snaps[NewestOf(OfSource(a))].files,
                     rows |-> {}, synth |-> TRUE]
  <2>1. new.synth
    OBVIOUS
  <2>2. Insert(new)
    BY <1>1 DEF SynthesizeFull
  <2> HIDE DEF new
  <2>3. nextId \notin Live /\ nextId \in DOMAIN snaps' /\ snaps'[nextId] = new
    BY <2>2 DEF Insert, TypeOK, SnapId
  <2> QED
    BY <2>1, <2>3 DEF NoSynthesis
<1>2. CASE \E s \in SnapId : LockSnapshot(s) \/ UnlockSnapshot(s)
  BY <1>2 DEF LockSnapshot, UnlockSnapshot
<1>3. ASSUME NEW a \in sources, DeleteSource(a)
      PROVE  SafeInv'
  BY <1>3 DEF DeleteSource, Remove
<1> QED
  BY <1>1, <1>2, <1>3 DEF Api

\* The pruner unlinks only chunks that no remaining manifest lists.
LEMMA SafePrune ==
  ASSUME TypeOK, SafeInv, RowsCoverManifest, Prune, NoOverlap, NoRollback
  PROVE  SafeInv'
<1> USE DEF SafeInv, Restorable, Live, Visible, dbVars, pruneVars
<1>0. ppc' # "idle" => \A v \in Workers : wk'[v].pc = "idle"
  BY DEF NoOverlap
<1>1. CASE PruneBegin
  BY <1>0, <1>1 DEF PruneBegin
<1>2. ASSUME NEW a \in Sources, NEW k \in 2..nextId,
             NEW M \in SUBSET (pfree \cap locked), PruneSelect(a, k, M)
      PROVE  SafeInv'
  BY <1>2 DEF PruneSelect
<1>3. ASSUME NEW s \in SnapId, PruneDelete(s)
      PROVE  SafeInv'
  BY <1>3 DEF PruneDelete
<1>4. ASSUME NEW h \in Chunks, PruneKeepChunk(h)
      PROVE  SafeInv'
  BY <1>4 DEF PruneKeepChunk
<1>5. ASSUME NEW h \in Chunks, PruneFindUnreferenced(h)
      PROVE  SafeInv'
  BY <1>5 DEF PruneFindUnreferenced, Referenced
<1>6. CASE PruneUnlink
  <2>1. cas' = cas \ {ph} /\ UNCHANGED <<snaps, pdel, wk>> /\ ppc = "unlink" /\ ppc' = "gc"
    BY <1>6 DEF PruneUnlink
  <2>2. \A s \in Visible : ph \notin snaps[s].files
    BY <2>1 DEF RowsCoverManifest
  <2>3. \A w \in Workers : wk[w].files = {}
    BY <2>1
  <2> QED
    BY <2>1, <2>2, <2>3
<1>7. CASE PruneSnapshotDone
  BY <1>7 DEF PruneSnapshotDone
<1>8. CASE PruneCommit
  BY <1>8 DEF PruneCommit, Remove
<1>9. CASE PruneRollback
  <2>1. pdel = {}
    BY <1>9 DEF PruneRollback, NoRollback, TypeOK
  <2> QED
    BY <1>9, <2>1 DEF PruneRollback
<1> QED
  BY <1>1, <1>2, <1>3, <1>4, <1>5, <1>6, <1>7, <1>8, <1>9 DEF Prune

\* Under the conditions of SafeNext every step keeps the snapshots restorable.
LEMMA SafeStep ==
  TypeOK /\ RowsCoverManifest /\ SafeInv /\ [SafeNext]_vars => SafeInv'
<1> SUFFICES ASSUME TypeOK, RowsCoverManifest, SafeInv, [SafeNext]_vars
             PROVE  SafeInv'
  OBVIOUS
<1>1. CASE SafeNext /\ \E w \in Workers : Backup(w)
  BY <1>1, SafeBackup DEF SafeNext
<1>2. CASE SafeNext /\ Api
  BY <1>2, SafeApi DEF SafeNext
<1>3. CASE SafeNext /\ Prune
  BY <1>3, SafePrune DEF SafeNext
<1>4. CASE UNCHANGED <<snaps, cas, wk, ppc, pdel, ph>>
  BY <1>4 DEF SafeInv, Restorable, Live, Visible
<1> QED
  BY <1>1, <1>2, <1>3, <1>4, RestoreFrame DEF SafeNext, Next, vars, dbVars, pruneVars

\* There is nothing to restore at first.
LEMMA SafeInit == Init => SafeInv
  BY DEF Init, SafeInv, Restorable, Live, Visible, IdleWorker

\* What holds of every behaviour holds of the ones that meet the conditions.
LEMMA SafeImpliesSpec == SafeSpec => Spec
<1>1. [SafeNext]_vars => [Next]_vars
  BY DEF SafeNext
<1> QED
  BY <1>1, PTL DEF SafeSpec, Spec

\* Under the conditions of SafeSpec the strengthened invariant holds
\* throughout.
LEMMA SafeCorrect == SafeSpec => []SafeInv
<1>1. TypeOK /\ RowsCoverManifest /\ SafeInv /\ [SafeNext]_vars => SafeInv'
  BY SafeStep
<1> QED
  BY <1>1, SafeInit, SafeImpliesSpec, TypeCorrect, ManifestCovered, PTL DEF SafeSpec

\* When backups and prune runs do not overlap, no synthetic full is made and no
\* prune run rolls back, reference counting by BackupChunk rows is right: every
\* snapshot keeps every chunk of its manifest.
THEOREM SnapshotsRestorable == SafeSpec => []Restorable
<1>1. SafeInv => Restorable
  BY DEF SafeInv
<1> QED
  BY <1>1, SafeCorrect, PTL

\* Under the same conditions a running restore never meets a missing chunk,
\* even when snapshots are pruned between two of its reads.
THEOREM RestoresComplete == SafeSpec => []RestoreFindsChunks
<1>1. SafeInv /\ PinInv => RestoreFindsChunks
  BY DEF SafeInv, PinInv, Restorable, RestoreFindsChunks
<1> QED
  BY <1>1, SafeCorrect, SafeImpliesSpec, PinCorrect, PTL

-----------------------------------------------------------------------------
(* LockedSurvive, under the conditions of WormSpec.                        *)

\* Nothing locked is on the pruner's list or among its deletes, nor loaded into
\* its session without the lock.
WormInv == locked \cap (pcand \cup pfree \cup pdel) = {}

\* Candidates are unlocked and stay so until they are deleted: no pass meets a
\* lock that its session does not see.
LEMMA WormStep == TypeOK /\ WormInv /\ [WormNext]_vars => WormInv'
<1> SUFFICES ASSUME TypeOK, WormInv, [WormNext]_vars
             PROVE  WormInv'
  OBVIOUS
<1> USE DEF WormInv
<1>1. CASE WormNext /\ ((\E w \in Workers : Backup(w)) \/ Api)
  <2>1. UNCHANGED <<pcand, pfree, pdel>>
    BY <1>1, TableStep DEF TableChange
  <2>2. ASSUME NEW s \in SnapId, LockSnapshot(s)
        PROVE  WormInv'
    BY <1>1, <2>1, <2>2 DEF LockSnapshot, Visible, WormNext, NoLateLock
  <2>3. CASE locked' \subseteq locked
    BY <2>1, <2>3
  <2> QED
    BY <1>1, <2>2, <2>3 DEF Backup, BackupBegin, StoreChunk, DiffPrevious, PersistSnapshot,
       BackupFail, Api, SynthesizeFull, UnlockSnapshot, DeleteSource, Remove, dbVars
<1>2. CASE Prune
  <2>1. ASSUME NEW a \in Sources, NEW k \in 2..nextId,
             NEW M \in SUBSET (pfree \cap locked), PruneSelect(a, k, M)
        PROVE  WormInv'
    <3>1. M = {} /\ UNCHANGED <<locked, pdel>>
      BY <2>1 DEF PruneSelect, dbVars
    <3>2. \A s \in pcand' \cup pfree' : ~SeesLock(s, M)
      BY <2>1 DEF PruneSelect, Candidates
    <3> QED
      BY <3>1, <3>2 DEF SeesLock
  <2>2. ASSUME NEW s \in SnapId, PruneDelete(s)
        PROVE  WormInv'
    BY <2>2 DEF PruneDelete, dbVars
  <2>3. CASE PruneCommit
    BY <2>3 DEF PruneCommit, Remove, TypeOK
  <2>4. CASE PruneRollback
    BY <2>4 DEF PruneRollback, dbVars
  <2>5. CASE UNCHANGED <<locked, pcand, pfree, pdel>>
    BY <2>5
  <2> QED
    BY <1>2, <2>1, <2>2, <2>3, <2>4, <2>5 DEF Prune, PruneBegin, PruneKeepChunk,
       PruneFindUnreferenced, PruneUnlink, PruneSnapshotDone, dbVars
<1>3. CASE UNCHANGED <<locked, pcand, pfree, pdel>>
  BY <1>3
<1> QED
  BY <1>1, <1>2, <1>3, RestoreFrame DEF WormNext, Next, vars, dbVars, pruneVars

\* A step that does not delete a source with a locked snapshot leaves every
\* locked snapshot in place, if none of them was on the pruner's list.
LEMMA WormKeeps ==
  TypeOK /\ WormInv /\ [WormNext]_vars => [locked \subseteq DOMAIN snaps']_vars
<1> SUFFICES ASSUME TypeOK, WormInv, WormNext
             PROVE  locked \subseteq DOMAIN snaps'
  OBVIOUS
<1>1. CASE \E w \in Workers : Backup(w)
  <2>1. CASE UNCHANGED snaps
    BY <2>1 DEF TypeOK, Live
  <2>2. ASSUME NEW w \in Workers, PersistSnapshot(w)
        PROVE  Live \subseteq DOMAIN snaps'
    BY <2>2 DEF PersistSnapshot, Insert
  <2> QED
    BY <1>1, <2>1, <2>2 DEF Backup, BackupBegin, StoreChunk, DiffPrevious, BackupFail,
       dbVars, TypeOK
<1>2. ASSUME NEW a \in sources, SynthesizeFull(a)
      PROVE  locked \subseteq DOMAIN snaps'
  BY <1>2 DEF SynthesizeFull, Insert, TypeOK
<1>3. ASSUME NEW a \in sources, DeleteSource(a)
      PROVE  locked \subseteq DOMAIN snaps'
  <2>1. OfSource(a) \cap locked = {}
    BY <1>3 DEF WormNext, NoLockedSourceDelete, DeleteSource
  <2> QED
    BY <1>3, <2>1 DEF DeleteSource, Remove, TypeOK
<1>4. CASE PruneCommit
  BY <1>4 DEF PruneCommit, Remove, TypeOK, WormInv
<1>5. CASE UNCHANGED snaps
  BY <1>5 DEF TypeOK, Live
<1>6. CASE Api
  BY <1>2, <1>3, <1>5, <1>6 DEF Api, LockSnapshot, UnlockSnapshot
<1>7. CASE Prune
  BY <1>4, <1>5, <1>7 DEF Prune, PruneBegin, PruneSelect, PruneDelete, PruneKeepChunk,
     PruneFindUnreferenced, PruneUnlink, PruneSnapshotDone, PruneRollback, dbVars
<1> QED
  BY <1>1, <1>5, <1>6, <1>7, RestoreFrame DEF WormNext, Next

\* The WORM lock holds as long as nobody locks a snapshot that a prune run has
\* already listed and nobody deletes a source that has a locked snapshot.
THEOREM LocksHold == WormSpec => LockedSurvive
<1>1. Init => WormInv
  BY DEF Init, WormInv
<1>2. TypeOK /\ WormInv /\ [WormNext]_vars => WormInv'
  BY WormStep
<1>3. TypeOK /\ WormInv /\ [WormNext]_vars => [locked \subseteq DOMAIN snaps']_vars
  BY WormKeeps
<1>4. [WormNext]_vars => [Next]_vars
  BY DEF WormNext
<1>5. WormSpec => Spec
  BY <1>4, PTL DEF WormSpec, Spec
<1> QED
  BY <1>1, <1>2, <1>3, <1>5, TypeCorrect, PTL DEF WormSpec, LockedSurvive

-----------------------------------------------------------------------------
(* SafeSpec implements RecoveryPoints.                                     *)

\* The recovery point a snapshot row stands for.
PointOf(s) == [source |-> snaps[s].source, files |-> snaps[s].files]

\* Where every snapshot is restorable, the recovery points are the snapshots.
LEMMA PointsAreVisible == Restorable => Points = [s \in Visible |-> PointOf(s)]
<1> SUFFICES ASSUME Restorable
             PROVE  Points = [s \in Visible |-> PointOf(s)]
  OBVIOUS
<1>1. {t \in Visible : snaps[t].files \subseteq cas} = Visible
  BY DEF Restorable
<1> QED
  BY <1>1 DEF Points, PointOf

\* The same in the next state.
LEMMA PointsAreVisibleNext ==
  Restorable' => Points' = [s \in Visible' |-> PointOf(s)']
<1> SUFFICES ASSUME Restorable'
             PROVE  Points' = [s \in Visible' |-> PointOf(s)']
  OBVIOUS
<1>1. {t \in Visible' : snaps'[t].files \subseteq cas'} = Visible'
  BY DEF Restorable
<1> QED
  BY <1>1 DEF Points, PointOf

\* A step that changes neither the visible snapshots nor their contents is a
\* stuttering step of RecoveryPoints.
LEMMA PointsUnchanged ==
  ASSUME Restorable, Restorable', Visible' = Visible,
         \A s \in Visible : snaps'[s] = snaps[s]
  PROVE  Points' = Points
<1>1. \A s \in Visible : PointOf(s)' = PointOf(s)
  BY DEF PointOf
<1> QED
  BY <1>1, PointsAreVisible, PointsAreVisibleNext

\* Every step of SafeSpec is a step of RecoveryPoints or changes nothing in it.
LEMMA PointsStep ==
  ASSUME TypeOK, SafeInv, SafeInv', NewestKept, [SafeNext]_vars
  PROVE  [RP!Next]_Points
<1>0. Restorable /\ Restorable'
  BY DEF SafeInv
<1>1. /\ Points = [s \in Visible |-> PointOf(s)]
      /\ Points' = [s \in Visible' |-> PointOf(s)']
  BY <1>0, PointsAreVisible, PointsAreVisibleNext
<1>2. ASSUME NEW w \in Workers, PersistSnapshot(w)
      PROVE  RP!Next
  <2> DEFINE new == [source |-> wk[w].source, parent |-> wk[w].parent,
                     files |-> wk[w].files, rows |-> wk[w].files \ wk[w].base,
                     synth |-> FALSE]
             a == wk[w].source
             F == wk[w].files
  <2>1. new.source = a /\ new.files = F
    OBVIOUS
  <2>2. Insert(new) /\ pdel' = pdel
    BY <1>2 DEF PersistSnapshot, pruneVars
  <2>3. a \in Sources /\ F \in SUBSET Chunks
    BY <1>2 DEF PersistSnapshot, TypeOK, WorkerRec
  <2> HIDE DEF new, a, F
  <2>4. PICK n \in SnapId : n = nextId
    BY <2>2 DEF Insert
  <2>5. /\ n \notin Visible
        /\ Visible' = Visible \cup {n}
        /\ snaps'[n] = new
        /\ \A s \in Visible : s < n /\ snaps'[s] = snaps[s]
    BY <2>2, <2>4 DEF Insert, TypeOK, SnapId, Visible, Live
  <2>6. /\ PointOf(n)' = [source |-> a, files |-> F]
        /\ \A s \in Visible : PointOf(s)' = PointOf(s)
    BY <2>1, <2>5 DEF PointOf
  <2>7. Points' = [s \in DOMAIN Points \cup {n} |->
                     IF s = n THEN [source |-> a, files |-> F] ELSE Points[s]]
    BY <1>1, <2>5, <2>6
  <2>8. \A s \in DOMAIN Points : s < n
    BY <1>1, <2>5
  <2>9. RP!Take(n, a, F)
    BY <2>7, <2>8 DEF RP!Take
  <2> QED
    BY <2>3, <2>9 DEF RP!Next
<1>3. ASSUME NEW a \in sources, DeleteSource(a)
      PROVE  RP!Next
  <2>1. /\ Visible' = {s \in Visible : snaps[s].source # a}
        /\ \A s \in Visible' : snaps'[s] = snaps[s]
    BY <1>3 DEF DeleteSource, Remove, OfSource, Visible, Live, pruneVars
  <2>2. /\ \A s \in Visible : Points[s] = PointOf(s) /\ Points[s].source = snaps[s].source
        /\ \A s \in Visible' : PointOf(s)' = PointOf(s)
    BY <1>1, <2>1 DEF PointOf
  <2>3. {s \in DOMAIN Points : Points[s].source # a} = Visible'
    BY <1>1, <2>1, <2>2
  <2>4. Points' = [u \in {s \in DOMAIN Points : Points[s].source # a} |-> Points[u]]
    BY <1>1, <2>1, <2>2, <2>3
  <2>5. a \in Sources
    BY DEF TypeOK
  <2> QED
    BY <2>4, <2>5 DEF RP!Next, RP!DropSource
<1>4. ASSUME NEW s \in SnapId, PruneDelete(s), s \in Visible
      PROVE  RP!Next
  <2>1. PICK t \in Visible : t > s /\ snaps[t].source = snaps[s].source
    BY <1>4 DEF PruneDelete, NewestKept, Visible
  <2>2. Visible' = Visible \ {s} /\ snaps' = snaps
    BY <1>4 DEF PruneDelete, Visible, Live, dbVars
  <2>3. \A u \in Visible : PointOf(u)' = PointOf(u)
    BY <2>2 DEF PointOf
  <2>4. Points' = [u \in DOMAIN Points \ {s} |-> Points[u]]
    BY <1>1, <2>2, <2>3
  <2>5. Points[s].source = Points[t].source /\ s < t
    BY <1>1, <1>4, <2>1 DEF PointOf, TypeOK, SnapId, Visible
  <2> QED
    BY <1>1, <1>4, <2>1, <2>4, <2>5 DEF RP!Next, RP!Expire
<1>5. ASSUME Visible' = Visible, \A s \in Visible : snaps'[s] = snaps[s]
      PROVE  Points' = Points
  BY <1>0, <1>5, PointsUnchanged
<1>6. CASE SafeNext /\ \E w \in Workers : Backup(w)
  <2>1. PICK w \in Workers : Backup(w)
    BY <1>6
  <2>2. CASE UNCHANGED <<snaps, pdel>>
    BY <1>5, <2>2 DEF Visible, Live
  <2> QED
    BY <1>2, <2>1, <2>2 DEF Backup, BackupBegin, StoreChunk, DiffPrevious, BackupFail,
       dbVars, pruneVars
<1>7. CASE SafeNext /\ Api
  <2>1. ASSUME NEW a \in sources, SynthesizeFull(a)
        PROVE  FALSE
    <3> DEFINE new == [source |-> a, parent |-> Null,
                       files |-> snaps[NewestOf(OfSource(a))].files,
                       rows |-> {}, synth |-> TRUE]
    <3>1. new.synth
      OBVIOUS
    <3>2. Insert(new)
      BY <2>1 DEF SynthesizeFull
    <3> HIDE DEF new
    <3>3. nextId \notin Live /\ nextId \in DOMAIN snaps' /\ snaps'[nextId] = new
      BY <3>2 DEF Insert, TypeOK, SnapId
    <3> QED
      BY <1>7, <3>1, <3>3 DEF SafeNext, NoSynthesis
  <2>2. CASE UNCHANGED <<snaps, pdel>>
    BY <1>5, <2>2 DEF Visible, Live
  <2> QED
    BY <1>3, <1>7, <2>1, <2>2 DEF Api, LockSnapshot, UnlockSnapshot, pruneVars
<1>8. CASE SafeNext /\ Prune
  <2>1. ASSUME NEW s \in SnapId, PruneDelete(s), s \notin Visible
        PROVE  Points' = Points
    BY <1>5, <2>1 DEF PruneDelete, Visible, Live, dbVars
  <2>2. CASE PruneCommit
    BY <1>5, <2>2 DEF PruneCommit, Remove, Visible, Live
  <2>3. CASE PruneRollback
    <3>1. pdel = {}
      BY <1>8, <2>3 DEF PruneRollback, SafeNext, NoRollback, TypeOK, Live, dbVars
    <3> QED
      BY <1>5, <2>3, <3>1 DEF PruneRollback, Visible, Live, dbVars
  <2>4. CASE UNCHANGED <<snaps, pdel>>
    BY <1>5, <2>4 DEF Visible, Live
  <2> QED
    BY <1>4, <1>8, <2>1, <2>2, <2>3, <2>4 DEF Prune, PruneBegin, PruneSelect,
       PruneKeepChunk, PruneFindUnreferenced, PruneUnlink, PruneSnapshotDone, dbVars
<1>9. CASE UNCHANGED <<snaps, pdel>>
  BY <1>5, <1>9 DEF Visible, Live
<1> QED
  BY <1>6, <1>7, <1>8, <1>9, RestoreFrame DEF SafeNext, Next, vars, dbVars, pruneVars

\* Under the conditions of SafeSpec the whole machinery of chunks, rows,
\* reference counting and transactions is, to its user, a list of recovery
\* points that only retention and source deletion shorten.
THEOREM ImplementsRecoveryPoints == SafeSpec => KeepsRecoveryPoints
<1>1. Init => RP!Init
  <2> SUFFICES ASSUME Init
               PROVE  Points = [s \in {} |-> {}]
    BY DEF RP!Init
  <2>1. {t \in Visible : snaps[t].files \subseteq cas} = {}
    BY DEF Init, Visible, Live
  <2> QED
    BY <2>1 DEF Points
<1>2. TypeOK /\ SafeInv /\ SafeInv' /\ NewestKept /\ [SafeNext]_vars => [RP!Next]_Points
  BY PointsStep
<1> QED
  BY <1>1, <1>2, SafeCorrect, SafeImpliesSpec, TypeCorrect, MostRecentKept, PTL
     DEF SafeSpec, KeepsRecoveryPoints, RP!Spec

-----------------------------------------------------------------------------
(* GarbageHasCause.  That a step leaves no new garbage depends on where the *)
(* digests came from: the ones the pruner holds must have rows again after  *)
(* a rollback, and the ones a backup has stored must be in its manifest.    *)

\* What the pruner has still to check are rows of snapshots it has deleted and
\* not committed, it holds one digest at most between query and unlink, and a
\* backup stores only what its manifest will list.
GcInv ==
    /\ ppc # "unlink" => ph = Null
    /\ ppc = "delete" => pgc = {}
    /\ \A c \in pgc : \E s \in pdel : c \in snaps[s].rows
    /\ ppc = "unlink" => \E s \in pdel : ph \in snaps[s].rows
    /\ \A w \in Workers : /\ wk[w].todo \subseteq wk[w].files
                          /\ wk[w].pc = "idle" => wk[w].files = {}

\* A backup step or an API call keeps it: no session takes away a snapshot the
\* pruner has deleted.
LEMMA GcOthers ==
  ASSUME TypeOK, GcInv, (\E w \in Workers : Backup(w)) \/ Api
  PROVE  GcInv'
<1>1. TableChange
  BY TableStep
<1>2. \A s \in pdel : s \in Live /\ s \in Live' /\ snaps'[s] = snaps[s]
  BY <1>1 DEF TableChange, TypeOK
<1>3. UNCHANGED <<ppc, pdel, pgc, ph>>
  BY <1>1 DEF TableChange
<1> DEFINE Tidy(v) == /\ wk[v].todo \subseteq wk[v].files
                      /\ wk[v].pc = "idle" => wk[v].files = {}
<1>4. \A v \in Workers : Tidy(v)'
  <2>1. CASE Api
    BY <2>1 DEF Api, SynthesizeFull, LockSnapshot, UnlockSnapshot, DeleteSource, GcInv
  <2>2. ASSUME NEW w \in Workers, Backup(w)
        PROVE  \A v \in Workers : Tidy(v)'
    <3> USE DEF GcInv, TypeOK, WorkerRec
    <3>1. ASSUME NEW a \in sources, NEW inc \in BOOLEAN, NEW F \in SUBSET Chunks,
                 BackupBegin(w, a, inc, F)
          PROVE  \A v \in Workers : Tidy(v)'
      BY <3>1 DEF BackupBegin
    <3>2. ASSUME NEW c \in Chunks, StoreChunk(w, c)
          PROVE  \A v \in Workers : Tidy(v)'
      BY <3>2 DEF StoreChunk
    <3>3. CASE DiffPrevious(w)
      <4>1. \A v \in Workers : /\ wk'[v].todo = wk[v].todo /\ wk'[v].files = wk[v].files
                               /\ wk'[v].pc = "idle" => wk[v].pc = "idle"
        BY <3>3 DEF DiffPrevious
      <4> QED
        BY <4>1
    <3>4. CASE PersistSnapshot(w) \/ BackupFail(w)
      BY <3>4 DEF PersistSnapshot, BackupFail, IdleWorker
    <3> QED
      BY <2>2, <3>1, <3>2, <3>3, <3>4 DEF Backup
  <2> QED
    BY <2>1, <2>2
<1> QED
  BY <1>2, <1>3, <1>4 DEF GcInv

\* Every step of a prune run keeps it.
LEMMA GcPrune ==
  ASSUME TypeOK, GcInv, Prune
  PROVE  GcInv'
<1> USE DEF GcInv, TypeOK, Live, dbVars, pruneVars
<1>1. CASE PruneBegin
  BY <1>1 DEF PruneBegin
<1>2. ASSUME NEW a \in Sources, NEW k \in 2..nextId,
             NEW M \in SUBSET (pfree \cap locked), PruneSelect(a, k, M)
      PROVE  GcInv'
  BY <1>2 DEF PruneSelect
<1>3. ASSUME NEW s \in SnapId, PruneDelete(s)
      PROVE  GcInv'
  BY <1>3 DEF PruneDelete
<1>4. ASSUME NEW h \in Chunks, PruneKeepChunk(h)
      PROVE  GcInv'
  BY <1>4 DEF PruneKeepChunk
<1>5. ASSUME NEW h \in Chunks, PruneFindUnreferenced(h)
      PROVE  GcInv'
  BY <1>5 DEF PruneFindUnreferenced
<1>6. CASE PruneUnlink
  BY <1>6 DEF PruneUnlink
<1>7. CASE PruneSnapshotDone
  BY <1>7 DEF PruneSnapshotDone
<1>8. CASE PruneCommit
  BY <1>8 DEF PruneCommit, Remove
<1>9. CASE PruneRollback
  BY <1>9 DEF PruneRollback
<1> QED
  BY <1>1, <1>2, <1>3, <1>4, <1>5, <1>6, <1>7, <1>8, <1>9 DEF Prune

\* So does every step of the program.
LEMMA GcStep == TypeOK /\ GcInv /\ [Next]_vars => GcInv'
<1> SUFFICES ASSUME TypeOK, GcInv, [Next]_vars
             PROVE  GcInv'
  OBVIOUS
<1>1. CASE (\E w \in Workers : Backup(w)) \/ Api
  BY <1>1, GcOthers
<1>2. CASE Prune
  BY <1>2, GcPrune
<1>3. CASE \E r \in Restores : Restore(r)
  BY <1>3, RestoreFrame DEF GcInv, dbVars, pruneVars
<1>4. CASE UNCHANGED vars
  BY <1>4 DEF GcInv, vars, dbVars, pruneVars
<1> QED
  BY <1>1, <1>2, <1>3, <1>4 DEF Next

\* The pruner holds nothing and no backup stores anything at first.
LEMMA GcInit == Init => GcInv
  BY DEF Init, GcInv, IdleWorker

\* It holds in every state.
LEMMA GcCorrect == Spec => []GcInv
<1>1. TypeOK /\ GcInv /\ [Next]_vars => GcInv'
  BY GcStep
<1> QED
  BY <1>1, GcInit, TypeCorrect, PTL DEF Spec

\* A step leaves no garbage if the digests it adds to the CAS are accounted for
\* and the ones that were so remain so, or go.
LEMMA GarbageShrinks ==
  ASSUME TypeOK, TypeOK',
         \A c \in cas' : c \notin cas \/ Accounted(c) => Accounted(c)'
  PROVE  Garbage' \subseteq Garbage
  BY DEF Garbage

\* A backup that does not fail leaves none: what it stores is in its manifest,
\* and once it commits each digest has a row in the snapshot or in its parent.
LEMMA GarbageBackup ==
  ASSUME TypeOK, TypeOK', ChainInv, GcInv, NEW w \in Workers, Backup(w), ~BackupFail(w)
  PROVE  Garbage' \subseteq Garbage
<1> SUFFICES ASSUME NEW c \in cas', c \notin cas \/ Accounted(c)
             PROVE  Accounted(c)'
  BY GarbageShrinks
<1> USE DEF Accounted, Referenced, Visible, Live, dbVars, pruneVars
<1>1. ASSUME NEW a \in sources, NEW inc \in BOOLEAN, NEW F \in SUBSET Chunks,
             BackupBegin(w, a, inc, F)
      PROVE  Accounted(c)'
  <2>1. wk[w].files = {}
    BY <1>1 DEF BackupBegin, GcInv
  <2> QED
    BY <1>1, <2>1 DEF BackupBegin, TypeOK
<1>2. ASSUME NEW d \in Chunks, StoreChunk(w, d)
      PROVE  Accounted(c)'
  <2>1. \A v \in Workers : wk'[v].files = wk[v].files
    BY <1>2 DEF StoreChunk, TypeOK, WorkerRec
  <2>2. d \in wk'[w].files
    BY <1>2, <2>1 DEF StoreChunk, GcInv
  <2> QED
    BY <1>2, <2>1, <2>2 DEF StoreChunk
<1>3. CASE DiffPrevious(w)
  <2>1. \A v \in Workers : wk'[v].files = wk[v].files
    BY <1>3 DEF DiffPrevious, TypeOK, WorkerRec
  <2> QED
    BY <1>3, <2>1 DEF DiffPrevious
<1>4. CASE PersistSnapshot(w)
  <2>1. \A s \in Live : s \in Live' /\ snaps'[s] = snaps[s]
    BY <1>4 DEF PersistSnapshot, Insert, TypeOK
  <2>2. nextId \in Visible' /\ snaps'[nextId].rows = wk[w].files \ wk[w].base
    BY <1>4 DEF PersistSnapshot, Insert, TypeOK
  <2>3. \A v \in Workers : v # w => wk'[v] = wk[v]
    BY <1>4 DEF PersistSnapshot, TypeOK
  <2>4. cas' = cas /\ pgc' = pgc /\ ph' = ph /\ pdel' = pdel
    BY <1>4 DEF PersistSnapshot
  <2>5. Referenced(c) => Referenced(c)'
    BY <2>1, <2>4
  <2>6. CASE c \in wk[w].files
    <3>1. c \in wk[w].base => Referenced(c)
      <4>1. wk[w].pc = "persist" /\ wk[w].parent \in Visible \cup {Null}
        BY <1>4 DEF PersistSnapshot
      <4> QED
        BY <4>1 DEF ChainInv, WorkerInv
    <3> QED
      BY <2>2, <2>5, <2>6, <3>1
  <2> QED
    BY <2>3, <2>4, <2>5, <2>6
<1> QED
  BY <1>1, <1>2, <1>3, <1>4 DEF Backup

\* The pruner leaves none: a digest leaves its hands because a row is left, or
\* unlinked, and a rollback brings back the rows of everything it still held.
LEMMA GarbagePrune ==
  ASSUME TypeOK, TypeOK', GcInv, Prune
  PROVE  Garbage' \subseteq Garbage
<1> SUFFICES ASSUME NEW c \in cas', c \notin cas \/ Accounted(c)
             PROVE  Accounted(c)'
  BY GarbageShrinks
<1>a. c \in Chunks /\ c # Null
  BY DigestAssumption DEF TypeOK
<1> USE DEF Accounted, Referenced, Visible, Live, dbVars, pruneVars
<1>1. CASE PruneBegin
  BY <1>1 DEF PruneBegin
<1>2. ASSUME NEW a \in Sources, NEW k \in 2..nextId,
             NEW M \in SUBSET (pfree \cap locked), PruneSelect(a, k, M)
      PROVE  Accounted(c)'
  BY <1>2 DEF PruneSelect
<1>3. ASSUME NEW s \in SnapId, PruneDelete(s)
      PROVE  Accounted(c)'
  <2>1. pgc = {}
    BY <1>3 DEF PruneDelete, GcInv
  <2> QED
    BY <1>3, <2>1 DEF PruneDelete
<1>4. ASSUME NEW h \in Chunks, PruneKeepChunk(h)
      PROVE  Accounted(c)'
  BY <1>4 DEF PruneKeepChunk
<1>5. ASSUME NEW h \in Chunks, PruneFindUnreferenced(h)
      PROVE  Accounted(c)'
  <2>1. ph = Null
    BY <1>5 DEF PruneFindUnreferenced, GcInv
  <2> QED
    BY <1>5, <1>a, <2>1 DEF PruneFindUnreferenced
<1>6. CASE PruneUnlink
  BY <1>6 DEF PruneUnlink
<1>7. CASE PruneSnapshotDone
  BY <1>7 DEF PruneSnapshotDone
<1>8. CASE PruneCommit
  BY <1>8 DEF PruneCommit, Remove, TypeOK
<1>9. CASE PruneRollback
  <2>1. c \in pgc \/ c = ph => \E s \in pdel : c \in snaps[s].rows
    BY <1>a DEF GcInv
  <2> QED
    BY <1>9, <2>1 DEF PruneRollback, TypeOK
<1> QED
  BY <1>1, <1>2, <1>3, <1>4, <1>5, <1>6, <1>7, <1>8, <1>9 DEF Prune

\* An API call leaves none unless it deletes a source.
LEMMA GarbageApi ==
  ASSUME TypeOK, TypeOK', Api, sources' = sources
  PROVE  Garbage' \subseteq Garbage
<1> SUFFICES ASSUME NEW c \in cas', c \notin cas \/ Accounted(c)
             PROVE  Accounted(c)'
  BY GarbageShrinks
<1> USE DEF Accounted, Referenced, Visible, Live, dbVars, pruneVars
<1>1. ASSUME NEW a \in sources, SynthesizeFull(a)
      PROVE  Accounted(c)'
  <2>1. \A s \in Live : s \in Live' /\ snaps'[s] = snaps[s]
    BY <1>1 DEF SynthesizeFull, Insert, TypeOK
  <2> QED
    BY <1>1, <2>1 DEF SynthesizeFull
<1>2. ASSUME NEW s \in SnapId, LockSnapshot(s) \/ UnlockSnapshot(s)
      PROVE  Accounted(c)'
  BY <1>2 DEF LockSnapshot, UnlockSnapshot
<1>3. ASSUME NEW a \in sources, DeleteSource(a)
      PROVE  Accounted(c)'
  BY <1>3 DEF DeleteSource
<1> QED
  BY <1>1, <1>2, <1>3 DEF Api

\* Every step leaves no garbage, or is one of the two causes.
LEMMA GarbageStep ==
  ASSUME TypeOK, TypeOK', ChainInv, GcInv, [Next]_vars
  PROVE  [\/ sources' # sources
          \/ \E w \in Workers : wk[w].pc # "idle" /\ wk'[w].pc = "idle" /\ snaps' = snaps
          \/ Garbage' \subseteq Garbage]_vars
<1>1. ASSUME NEW w \in Workers, BackupFail(w)
      PROVE  wk[w].pc # "idle" /\ wk'[w].pc = "idle" /\ snaps' = snaps
  BY <1>1 DEF BackupFail, IdleWorker, TypeOK, dbVars
<1>2. ASSUME NEW w \in Workers, Backup(w), ~BackupFail(w)
      PROVE  Garbage' \subseteq Garbage
  BY <1>2, GarbageBackup
<1>3. CASE Api
  BY <1>3, GarbageApi
<1>4. CASE Prune
  BY <1>4, GarbagePrune
<1>5. CASE \E r \in Restores : Restore(r)
  <2>1. Garbage' = Garbage
    BY <1>5, RestoreFrame DEF Garbage, Accounted, Referenced, Visible, Live
  <2> QED
    BY <2>1
<1> QED
  BY <1>1, <1>2, <1>3, <1>4, <1>5 DEF Next

\* Only a backup that ends without a snapshot and the deletion of a source leave
\* chunks in the CAS that no row and no process accounts for: neither a commit
\* nor the pruner, its rollback included, ever does.
THEOREM NoSilentGarbage == Spec => GarbageHasCause
<1>1. TypeOK /\ TypeOK' /\ ChainInv /\ GcInv /\ [Next]_vars =>
        [\/ sources' # sources
         \/ \E w \in Workers : wk[w].pc # "idle" /\ wk'[w].pc = "idle" /\ snaps' = snaps
         \/ Garbage' \subseteq Garbage]_vars
  BY GarbageStep
<1> QED
  BY <1>1, TypeCorrect, ChainCorrect, GcCorrect, PTL DEF Spec, GarbageHasCause

-----------------------------------------------------------------------------
(* ChainWalkComplete.  The walk is defined level by level; that it reaches  *)
(* a snapshot exactly once is shown for a least snapshot without its level, *)
(* which is why a parent must be older than its child.                      *)

\* A parent has a smaller id than its child.
ParentOlder == \A s \in Live : snaps[s].parent < s

\* A snapshot's parent was there when it was inserted.
LEMMA OlderStep == TypeOK /\ ChainInv /\ ParentOlder /\ [Next]_vars => ParentOlder'
<1> SUFFICES ASSUME TypeOK, ChainInv, ParentOlder, [Next]_vars
             PROVE  ParentOlder'
  OBVIOUS
<1> USE DEF ParentOlder, Live
<1>1. CASE snaps' = snaps
  BY <1>1
<1>2. ASSUME NEW w \in Workers, PersistSnapshot(w)
      PROVE  ParentOlder'
  BY <1>2 DEF PersistSnapshot, Insert, ChainInv, WorkerInv, TypeOK
<1>3. ASSUME NEW a \in sources, SynthesizeFull(a)
      PROVE  ParentOlder'
  BY <1>3, BoundsAssumption DEF SynthesizeFull, Insert, SnapId, Null
<1>4. ASSUME NEW S, Remove(S)
      PROVE  ParentOlder'
  BY <1>4 DEF Remove
<1>5. CASE \E w \in Workers : Backup(w)
  BY <1>1, <1>2, <1>5 DEF Backup, BackupBegin, StoreChunk, DiffPrevious, BackupFail, dbVars
<1>6. CASE Api
  BY <1>1, <1>3, <1>4, <1>6 DEF Api, LockSnapshot, UnlockSnapshot, DeleteSource
<1>7. CASE Prune
  BY <1>1, <1>4, <1>7 DEF Prune, PruneBegin, PruneSelect, PruneDelete, PruneKeepChunk,
     PruneFindUnreferenced, PruneUnlink, PruneSnapshotDone, PruneCommit, PruneRollback, dbVars
<1>8. CASE \E r \in Restores : Restore(r)
  BY <1>1, <1>8, RestoreFrame
<1> QED
  BY <1>1, <1>5, <1>6, <1>7, <1>8 DEF Next, vars, dbVars

\* Parents are older than their children in every state.
LEMMA OlderCorrect == Spec => []ParentOlder
<1>1. TypeOK /\ ChainInv /\ ParentOlder /\ [Next]_vars => ParentOlder'
  BY OlderStep
<1>2. Init => ParentOlder
  BY DEF Init, ParentOlder, Live
<1> QED
  BY <1>1, <1>2, TypeCorrect, ChainCorrect, PTL DEF Spec

\* The next level of the walk over the snapshots own, below the levels g.
LevelOf(own, g, k) ==
    IF k = 0 THEN {s \in own : snaps[s].parent = Null}
    ELSE {s \in own : snaps[s].parent \in g[k - 1]}

\* g assigns the levels of the walk over source a.
IsWalk(a, g) == g = [k \in 0..MaxSnaps |-> LevelOf(OfSource(a), g, k)]

\* There is a function that assigns the levels 0 to n.
LEMMA LevelsExist ==
  ASSUME NEW own, NEW n \in Nat
  PROVE  \E g : g = [k \in 0..n |-> LevelOf(own, g, k)]
<1> DEFINE Bad == {m \in Nat : ~ \E g : g = [k \in 0..m |-> LevelOf(own, g, k)]}
<1> SUFFICES ASSUME Bad # {}
             PROVE  FALSE
  OBVIOUS
<1>1. PICK m \in Bad : \A y \in Bad : ~ (<<y, m>> \in Less)
  <2>1. Bad \subseteq Nat
    OBVIOUS
  <2> HIDE DEF Bad
  <2> QED
    BY <2>1, LessWellFounded, WFMin
<1>2. m # 0
  <2>1. ASSUME m = 0
        PROVE  FALSE
    <3> DEFINE g == [k \in 0..m |-> LevelOf(own, <<>>, 0)]
    <3>1. g = [k \in 0..m |-> LevelOf(own, g, k)]
      BY <2>1 DEF LevelOf
    <3> QED
      BY <3>1
  <2> QED
    BY <2>1
<1>3. m \in Nat /\ m - 1 \in Nat /\ m - 1 \notin Bad
  <2>1. m \in Nat /\ m - 1 \in Nat
    BY <1>2
  <2>2. <<m - 1, m>> \in Less
    BY <2>1 DEF Less
  <2> HIDE DEF Bad
  <2> QED
    BY <1>1, <2>1, <2>2
<1>4. PICK g : g = [k \in 0..(m - 1) |-> LevelOf(own, g, k)]
  BY <1>3
<1> DEFINE h == [k \in 0..m |-> LevelOf(own, g, k)]
<1>5. \A k \in 0..(m - 1) : h[k] = g[k]
  <2>1. \A k \in 0..(m - 1) : k \in 0..m /\ g[k] = LevelOf(own, g, k)
    BY <1>3, <1>4
  <2> HIDE DEF Bad
  <2> QED
    BY <2>1
<1>6. \A k \in 0..m : LevelOf(own, g, k) = LevelOf(own, h, k)
  <2> HIDE DEF Bad, h
  <2>1. \A k \in 0..m : k # 0 => k - 1 \in 0..(m - 1)
    BY <1>3
  <2> QED
    BY <1>5, <2>1 DEF LevelOf
<1>7. h = [k \in 0..m |-> LevelOf(own, h, k)]
  <2> HIDE DEF Bad
  <2> QED
    BY <1>6
<1> QED
  BY <1>7

\* The levels ChainDepth computes, and the depth it reads from them.
LEMMA DepthFromLevels ==
  ASSUME NEW a
  PROVE  \E g : /\ IsWalk(a, g)
                /\ ChainDepth(a) = [s \in OfSource(a) |->
                                      NewestOf({k \in 0..MaxSnaps : s \in g[k]})]
<1> DEFINE own == OfSource(a)
           Levels(f) == [k \in 0..MaxSnaps |->
                           IF k = 0 THEN {s \in own : snaps[s].parent = Null}
                           ELSE {s \in own : snaps[s].parent \in f[k - 1]}]
           g == CHOOSE f : f = Levels(f)
<1>1. g = [k \in 0..MaxSnaps |-> LevelOf(own, g, k)]
  <2>1. \A f : Levels(f) = [k \in 0..MaxSnaps |-> LevelOf(own, f, k)]
    BY DEF LevelOf
  <2>2. \E f : f = Levels(f)
    <3>1. PICK f : f = [k \in 0..MaxSnaps |-> LevelOf(own, f, k)]
      <4> HIDE DEF own
      <4> QED
        BY LevelsExist, BoundsAssumption
    <3>2. f = Levels(f)
      <4> HIDE DEF Levels
      <4> QED
        BY <2>1, <3>1
    <3> QED
      BY <3>2
  <2> HIDE DEF Levels
  <2> QED
    BY <2>1, <2>2
<1>2. ChainDepth(a) = [s \in own |-> NewestOf({k \in 0..MaxSnaps : s \in g[k]})]
  BY DEF ChainDepth
<1> QED
  BY <1>1, <1>2 DEF IsWalk

\* The walk reaches every snapshot on exactly one level, and there are levels
\* enough: snapshot s is at most s - 1 levels down.
LEMMA OneLevel ==
  ASSUME TypeOK, ParentInv, ParentOlder, NEW a,
         NEW g, IsWalk(a, g), NEW s \in OfSource(a)
  PROVE  \E d \in 0..(s - 1) : {k \in 0..MaxSnaps : s \in g[k]} = {d}
<1> DEFINE own == OfSource(a)
           On(t) == {k \in 0..MaxSnaps : t \in g[k]}
           Bad == {t \in own : ~ \E d \in 0..(t - 1) : On(t) = {d}}
<1>0. own \subseteq SnapId /\ own \subseteq Live /\ own \subseteq Nat
  <2>1. own \subseteq Live /\ Live \subseteq SnapId
    BY DEF OfSource, TypeOK
  <2>2. SnapId \subseteq Nat
    BY BoundsAssumption DEF SnapId
  <2> HIDE DEF own
  <2> QED
    BY <2>1, <2>2
<1>a. \A k \in 0..MaxSnaps : g[k] = LevelOf(own, g, k)
  BY DEF IsWalk
<1> SUFFICES ASSUME Bad # {}
             PROVE  FALSE
  OBVIOUS
<1>1. PICK t \in Bad : \A y \in Bad : ~ (<<y, t>> \in Less)
  <2>1. Bad \subseteq Nat
    BY <1>0
  <2> HIDE DEF Bad
  <2> QED
    BY <2>1, LessWellFounded, WFMin
<1>2. t \in own /\ t \in Nat /\ t >= 1 /\ t <= MaxSnaps /\ snaps[t] \in SnapRec
  BY <1>0, BoundsAssumption DEF SnapId, TypeOK
<1>3. snaps[t].parent \in SnapId \cup {Null} /\ snaps[t].parent < t
  BY <1>0, <1>2 DEF ParentOlder, SnapRec
<1> HIDE DEF own
<1>4. CASE snaps[t].parent = Null
  <2>1. \A k \in 0..MaxSnaps : t \in g[k] <=> k = 0
    <3> SUFFICES ASSUME NEW k \in 0..MaxSnaps
                 PROVE  t \in g[k] <=> k = 0
      OBVIOUS
    <3>1. \A j \in 0..MaxSnaps : g[j] \subseteq own
      BY <1>a DEF LevelOf
    <3>3. k # 0 => k - 1 \in 0..MaxSnaps
      BY BoundsAssumption
    <3>2. Null \notin own
      BY <1>0, BoundsAssumption DEF SnapId, Null
    <3> QED
      BY <1>2, <1>4, <1>a, <3>1, <3>2, <3>3 DEF LevelOf
  <2>2. On(t) = {0} /\ 0 \in 0..(t - 1)
    BY <1>2, <2>1, BoundsAssumption
  <2> QED
    BY <2>2
<1>5. CASE snaps[t].parent # Null
  <2> DEFINE p == snaps[t].parent
  <2>1. p \in own /\ p < t /\ p \in Nat
    BY <1>0, <1>2, <1>3, <1>5 DEF ParentInv, OfSource, own
  <2>2. p \notin Bad
    BY <1>1, <1>2, <2>1 DEF Less
  <2>3. PICK d \in 0..(p - 1) : On(p) = {d}
    BY <2>1, <2>2
  <2>4. d \in Nat /\ d + 1 \in 0..(t - 1) /\ d + 1 \in 0..MaxSnaps /\ d \in 0..MaxSnaps
    BY <1>2, <2>1, <2>3, BoundsAssumption
  <2>5. \A k \in 0..MaxSnaps : t \in g[k] <=> k = d + 1
    <3> SUFFICES ASSUME NEW k \in 0..MaxSnaps
                 PROVE  t \in g[k] <=> k = d + 1
      OBVIOUS
    <3>1. CASE k = 0
      <4>1. g[k] = {u \in own : snaps[u].parent = Null}
        BY <1>a, <3>1 DEF LevelOf
      <4>2. k # d + 1
        BY <2>4, <3>1
      <4> QED
        BY <1>5, <4>1, <4>2
    <3>2. CASE k # 0
      <4>1. k - 1 \in 0..MaxSnaps
        BY <3>2, BoundsAssumption
      <4>2. t \in g[k] <=> p \in g[k - 1]
        BY <1>2, <1>a, <3>2 DEF LevelOf
      <4>3. p \in g[k - 1] <=> k - 1 = d
        BY <2>3, <4>1
      <4> QED
        BY <2>4, <4>2, <4>3
    <3> QED
      BY <3>1, <3>2
  <2>6. On(t) = {d + 1}
    BY <2>4, <2>5
  <2> QED
    BY <2>4, <2>6
<1> QED
  BY <1>4, <1>5

\* The chain endpoint's walk visits every snapshot of a source, each one level
\* below its parent: whatever was pruned, deleted or synthesized, no snapshot
\* is left without a path to a full backup.
THEOREM ChainWalkReachesAll == Spec => []ChainWalkComplete
<1>1. TypeOK /\ ChainInv /\ ParentOlder => ChainWalkComplete
  <2> SUFFICES ASSUME TypeOK, ParentInv, ParentOlder, NEW a \in Sources,
                      NEW s \in OfSource(a), snaps[s].parent # Null
               PROVE  /\ snaps[s].parent \in OfSource(a)
                      /\ ChainDepth(a)[s] = ChainDepth(a)[snaps[s].parent] + 1
    BY DEF ChainWalkComplete, ChainInv
  <2> DEFINE p == snaps[s].parent
  <2>1. p \in OfSource(a)
    BY DEF ParentInv, OfSource
  <2>2. PICK g : /\ IsWalk(a, g)
                 /\ ChainDepth(a) = [t \in OfSource(a) |->
                                       NewestOf({k \in 0..MaxSnaps : t \in g[k]})]
    BY DepthFromLevels
  <2> DEFINE On(t) == {k \in 0..MaxSnaps : t \in g[k]}
  <2>a. \A t \in OfSource(a) : \E d \in 0..(t - 1) : On(t) = {d}
    BY <2>2, OneLevel
  <2> HIDE DEF On
  <2>3. PICK d \in 0..(p - 1) : On(p) = {d}
    BY <2>1, <2>a
  <2>4. PICK e \in 0..(s - 1) : On(s) = {e}
    BY <2>a
  <2> USE DEF On
  <2>5. d \in Nat /\ d \in 0..MaxSnaps /\ e \in Nat /\ e \in 0..MaxSnaps
    <3>1. s \in SnapId /\ p \in SnapId
      BY <2>1 DEF OfSource, TypeOK
    <3> QED
      BY <2>3, <2>4, <3>1, BoundsAssumption DEF SnapId
  <2>6. \A k \in 0..MaxSnaps : g[k] = LevelOf(OfSource(a), g, k)
    BY <2>2 DEF IsWalk
  <2>7. e # 0
    <3>1. 0 \in On(s) => s \in LevelOf(OfSource(a), g, 0)
      BY <2>6
    <3> QED
      BY <2>4, <3>1 DEF LevelOf
  <2>8. e - 1 \in 0..MaxSnaps
    BY <2>5, <2>7, BoundsAssumption
  <2>9. s \in LevelOf(OfSource(a), g, e)
    BY <2>4, <2>5, <2>6
  <2>10. p \in g[e - 1]
    BY <2>7, <2>9 DEF LevelOf
  <2>11. e - 1 = d
    BY <2>3, <2>8, <2>10
  <2>12. \A n \in Nat : NewestOf({n}) = n
    BY DEF NewestOf
  <2>13. ChainDepth(a)[s] = e /\ ChainDepth(a)[p] = d
    <3>1. ChainDepth(a)[s] = NewestOf(On(s)) /\ ChainDepth(a)[p] = NewestOf(On(p))
      BY <2>1, <2>2
    <3> QED
      BY <2>3, <2>4, <2>5, <2>12, <3>1
  <2> QED
    BY <2>1, <2>5, <2>11, <2>13
<1> QED
  BY <1>1, TypeCorrect, ChainCorrect, OlderCorrect, PTL
=============================================================================
