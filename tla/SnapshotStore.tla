--------------------------- MODULE SnapshotStore ---------------------------
(***************************************************************************)
(* The data path of BackupOS: what is in the database (snapshots, their    *)
(* SnapshotFile manifests and BackupChunk rows, locks, restore jobs), what *)
(* is in the content-addressable store, and the processes that change      *)
(* both without a common lock:                                             *)
(*                                                                         *)
(*   backup workers    app/workers/backup_worker.py  run_backup            *)
(*   retention pruner  app/core/scheduler.py  prune_expired_snapshots      *)
(*   restore workers   app/workers/restore_worker.py  run_restore          *)
(*   API handlers      lock, unlock, synthesize-full, delete source        *)
(*                                                                         *)
(* A chunk is named by its digest, so the CAS is the set of digests whose  *)
(* file exists.  A manifest is abstracted to the set of digests it lists   *)
(* (order and Merkle root play no role in what is deleted).  Snapshot ids  *)
(* are issued in created_at order: id and created_at are both set by the   *)
(* INSERT.  The database runs READ COMMITTED with enforced foreign keys    *)
(* and row locks; a transaction appears at its commit, except the pruner's *)
(* whose uncommitted deletes are the set pdel.                             *)
(***************************************************************************)
EXTENDS Naturals

CONSTANTS
    Sources,      \* data_sources ids
    Chunks,       \* chunk digests
    Workers,      \* concurrent run_backup tasks
    Restores,     \* restore_jobs ids
    MaxSnaps,     \* bound: snapshots created in a behaviour
    MaxRetries    \* max_retries of the run_restore task

ASSUME BoundsAssumption == MaxSnaps \in Nat /\ MaxRetries \in Nat

SnapId == 1..MaxSnaps
Null   == 0                     \* a NULL column, an unset local variable

\* A digest is never NULL (backup_chunks.chunk_hash, snapshot_files.chunk_hashes).
ASSUME DigestAssumption == Null \notin Chunks

VARIABLES
    sources,      \* data_sources rows that exist
    snaps,        \* backup_snapshots with their files and chunks, committed
    nextId,       \* next snapshot id
    locked,       \* snapshots with locked_until in the future
    cas,          \* digests present on disk
    wk,           \* run_backup tasks
    ppc, pfree, pcand, pdel, pgc, ph,     \* the pruner's run (see below)
    rst           \* restore_jobs and their run_restore tasks

dbVars    == <<sources, snaps, nextId, locked>>
pruneVars == <<ppc, pfree, pcand, pdel, pgc, ph>>
vars      == <<dbVars, cas, wk, pruneVars, rst>>

-----------------------------------------------------------------------------
(* State.                                                                  *)

\* One backup_snapshots row with its SnapshotFile digests (files) and its
\* BackupChunk digests (rows).  synth marks the synthesize-full endpoint's.
SnapRec == [source : Sources, parent : SnapId \cup {Null},
            files : SUBSET Chunks, rows : SUBSET Chunks, synth : BOOLEAN]

\* A run_backup task: the digests of its source (files), the ones not yet in
\* the CAS (todo), and what the diff step read: the previous snapshot and its
\* BackupChunk digests (base).
WorkerRec == [pc : {"idle", "store", "persist"}, source : Sources \cup {Null}, inc : BOOLEAN,
              files : SUBSET Chunks, todo : SUBSET Chunks,
              parent : SnapId \cup {Null}, base : SUBSET Chunks]

\* A restore_jobs row: want is the digests of the requested files, need the
\* ones still to be written, left the retries Celery still grants.  "lost" is a
\* row whose column says pending, running or verifying but that has no task.
RestoreRec == [status : {"none", "pending", "running", "verifying", "completed", "failed", "lost"},
               snap : SnapId \cup {Null}, want : SUBSET Chunks,
               need : SUBSET Chunks, left : 0..MaxRetries]

Live    == DOMAIN snaps            \* what other sessions see
Visible == Live \ pdel             \* what the pruner's own session sees

OfSource(a) == {s \in Live : snaps[s].source = a}

\* ORDER BY created_at DESC LIMIT 1 over a set of snapshots, NULL if none.
NewestOf(S) == IF S = {} THEN Null ELSE CHOOSE s \in S : \A t \in S : t <= s

IdleWorker == [pc |-> "idle", source |-> Null, inc |-> FALSE, files |-> {},
               todo |-> {}, parent |-> Null, base |-> {}]

NoRestore == [status |-> "none", snap |-> Null, want |-> {}, need |-> {}, left |-> 0]

Init ==
    /\ sources = Sources
    /\ snaps   = [s \in {} |-> {}]
    /\ nextId  = 1
    /\ locked  = {}
    /\ cas     = {}
    /\ wk      = [w \in Workers |-> IdleWorker]
    /\ ppc = "idle" /\ pfree = {}
    /\ pcand = {} /\ pdel = {} /\ pgc = {} /\ ph = Null
    /\ rst     = [r \in Restores |-> NoRestore]

\* INSERT INTO backup_snapshots with its files and chunks.
Insert(rec) ==
    /\ nextId \in SnapId
    /\ snaps'  = [s \in Live \cup {nextId} |-> IF s = nextId THEN rec ELSE snaps[s]]
    /\ nextId' = nextId + 1

\* DELETE of snapshots with the ORM cascade to their files and chunks.
Remove(S) ==
    /\ snaps'  = [s \in Live \ S |-> snaps[s]]
    /\ locked' = locked \ S

-----------------------------------------------------------------------------
(* run_backup.  A retry of a failed task is another BackupBegin.           *)

\* The task starts and reads the source: F is whatever it holds now (files
\* that cannot be read are skipped, a missing path gives the empty set).
BackupBegin(w, a, inc, F) ==
    /\ wk[w].pc = "idle"
    /\ a \in sources
    /\ nextId \in SnapId
    /\ wk' = [wk EXCEPT ![w] = [pc |-> "store", source |-> a, inc |-> inc, files |-> F,
                                todo |-> F, parent |-> Null, base |-> {}]]
    /\ UNCHANGED <<dbVars, cas, pruneVars, rst>>

\* cas.store of one chunk; a digest that is already on disk is left alone.
StoreChunk(w, c) ==
    /\ wk[w].pc = "store"
    /\ c \in wk[w].todo
    /\ cas' = cas \cup {c}
    /\ wk'  = [wk EXCEPT ![w].todo = @ \ {c}]
    /\ UNCHANGED <<dbVars, pruneVars, rst>>

\* The digests an incremental backup is compared with: the BackupChunk rows of
\* the previous snapshot.
DiffBaseOfManifest(p) == snaps[p].files                               \* mutant
DiffBase(p) == snaps[p].rows

\* Build the tree, look up the previous snapshot of the source and diff.
DiffPrevious(w) ==
    LET p == IF wk[w].inc THEN NewestOf(OfSource(wk[w].source)) ELSE Null IN
    /\ wk[w].pc = "store"
    /\ wk[w].todo = {}
    /\ wk' = [wk EXCEPT ![w].pc = "persist", ![w].parent = p,
                        ![w].base = IF p = Null THEN {} ELSE DiffBase(p)]
    /\ UNCHANGED <<dbVars, cas, pruneVars, rst>>

\* Insert snapshot, manifest and the new chunks' rows, commit.  The new chunks
\* are the set difference as far as diff() finds it: DiffIsSetDifference of
\* MerkleTree says how far.  The foreign keys need the source and the parent; a
\* parent the pruner has deleted without committing makes the INSERT wait.
PersistSnapshot(w) ==
    /\ wk[w].pc = "persist"
    /\ wk[w].source \in sources
    /\ wk[w].parent \in Visible \cup {Null}
    /\ Insert([source |-> wk[w].source, parent |-> wk[w].parent, files |-> wk[w].files,
               rows |-> wk[w].files \ wk[w].base, synth |-> FALSE])
    /\ wk' = [wk EXCEPT ![w] = IdleWorker]
    /\ UNCHANGED <<sources, locked, cas, pruneVars, rst>>

\* Any exception (foreign key violation, I/O error) or a crash of the worker
\* process ends the attempt; the chunks it stored stay.
BackupFail(w) ==
    /\ wk[w].pc # "idle"
    /\ wk' = [wk EXCEPT ![w] = IdleWorker]
    /\ UNCHANGED <<dbVars, cas, pruneVars, rst>>

-----------------------------------------------------------------------------
(* API handlers.                                                           *)

\* synthesize_full_backup: a new snapshot with the manifest of the latest one,
\* no parent and no BackupChunk rows.
SynthesizeFull(a) ==
    LET latest == NewestOf(OfSource(a)) IN
    /\ a \in sources
    /\ latest # Null
    /\ snaps[latest].files # {}
    /\ Insert([source |-> a, parent |-> Null, files |-> snaps[latest].files,
               rows |-> {}, synth |-> TRUE])
    /\ UNCHANGED <<sources, locked, cas, wk, pruneVars, rst>>

\* lock_snapshot.  The UPDATE waits for a row the pruner has deleted.
LockSnapshot(s) ==
    /\ s \in Visible
    /\ locked' = locked \cup {s}
    /\ UNCHANGED <<sources, snaps, nextId, cas, wk, pruneVars, rst>>

\* unlock_snapshot, or locked_until passes.
UnlockSnapshot(s) ==
    /\ s \in locked \cap Visible
    /\ locked' = locked \ {s}
    /\ UNCHANGED <<sources, snaps, nextId, cas, wk, pruneVars, rst>>

\* delete_source: the ORM cascade deletes the source's jobs, snapshots, files
\* and chunks in primary-key order, so a snapshot that is some snapshot's
\* parent, or has a restore job, makes it fail.  It waits for rows the pruner
\* has deleted.  Nothing is removed from the CAS.
DeletableSourceNoWait(a) ==                                           \* mutant
    /\ \A s \in OfSource(a) : snaps[s].parent = Null
    /\ \A r \in Restores : rst[r].snap \notin OfSource(a)
DeletableSource(a) ==
    /\ OfSource(a) \cap pdel = {}
    /\ \A s \in OfSource(a) : snaps[s].parent = Null
    /\ \A r \in Restores : rst[r].snap \notin OfSource(a)

DeleteSource(a) ==
    /\ a \in sources
    /\ DeletableSource(a)
    /\ sources' = sources \ {a}
    /\ Remove(OfSource(a))
    /\ UNCHANGED <<nextId, cas, wk, pruneVars, rst>>

-----------------------------------------------------------------------------
(* prune_expired_snapshots: one transaction over all (policy, source) rows. *)
(*   ppc   "idle"; "rows" between rows of the outer loop; "delete" in the   *)
(*         loop over expired snapshots; "gc" in the loop over chunk hashes; *)
(*         "unlink" between the reference query and cas_store.delete        *)
(*   pfree snapshots of the last list that were loaded without a lock and  *)
(*         are not to be deleted                                           *)
(*   pcand expired snapshots still to be visited                           *)
(*   pdel  snapshots deleted and flushed, not committed                    *)
(*   pgc   chunk hashes of the snapshot just deleted, still to be checked  *)
(*   ph    the hash found unreferenced                                     *)

PruneBegin ==
    /\ ppc = "idle"
    /\ ppc' = "rows"
    /\ UNCHANGED <<dbVars, cas, wk, pfree, pcand, pdel, pgc, ph, rst>>

\* Snapshots of source a created before the cutoff k.
Expired(a, k) == {s \in OfSource(a) \cap Visible : s < k}

\* The lock as a pass sees it.  M: snapshots that an earlier pass of the run, for
\* another policy, loaded without a lock and whose objects are still in the
\* session's identity map, which holds them weakly; the query does not refresh
\* them.  Those loaded with a lock that has gone since need no variable: nothing
\* else reads the lock, so UnlockSnapshot may as well come after the pass.
SeesLock(s, M) == s \in locked /\ s \notin M

\* The expired ones except the most recent and the locked ones.  The lock is read
\* here, for the whole list.
CandidatesWithNewest(a, k, M) ==                                      \* mutant
    {s \in Expired(a, k) : ~SeesLock(s, M)}
CandidatesWithLocked(a, k, M) ==                                      \* mutant
    {s \in Expired(a, k) : s # NewestOf(OfSource(a) \cap Visible)}
Candidates(a, k, M) ==
    {s \in Expired(a, k) : s # NewestOf(OfSource(a) \cap Visible) /\ ~SeesLock(s, M)}

\* The list takes the place of the last one, whose objects are given up.  A
\* candidate will not be loaded again.
PruneSelect(a, k, M) ==
    /\ ppc = "rows"
    /\ Expired(a, k) # {}
    /\ ppc'   = IF Candidates(a, k, M) = {} THEN "rows" ELSE "delete"
    /\ pfree' = {s \in Expired(a, k) \ Candidates(a, k, M) : ~SeesLock(s, M)}
    /\ pcand' = Candidates(a, k, M)
    /\ UNCHANGED <<dbVars, cas, wk, pdel, pgc, ph, rst>>

\* Rows that reference snapshot s through a NO ACTION foreign key.
FkReferencedByChild(s) == \E t \in Visible : snaps[t].parent = s      \* mutant
FkReferencedByRestore(s) == \E r \in Restores : rst[r].snap = s       \* mutant
FkReferenced(s) ==
    \/ \E t \in Visible : snaps[t].parent = s
    \/ \E r \in Restores : rst[r].snap = s

\* Visit the oldest candidate: collect its chunk hashes, delete, flush.  If it
\* is referenced the flush raises and only PruneRollback is left.  If its
\* source was deleted meanwhile the statement matches no row.
PruneDeleteUncollected(s) ==                                          \* mutant
    /\ ppc = "delete"
    /\ s \in pcand
    /\ \A t \in pcand : s <= t
    /\ ~FkReferenced(s)
    /\ pdel'  = pdel \cup ({s} \cap Live)
    /\ pgc'   = {}
    /\ pcand' = pcand \ {s}
    /\ ppc'   = "gc"
    /\ UNCHANGED <<dbVars, cas, wk, pfree, ph, rst>>
PruneDelete(s) ==
    /\ ppc = "delete"
    /\ s \in pcand
    /\ \A t \in pcand : s <= t
    /\ ~FkReferenced(s)
    /\ pdel'  = pdel \cup ({s} \cap Live)
    /\ pgc'   = IF s \in Live THEN snaps[s].rows ELSE {}
    /\ pcand' = pcand \ {s}
    /\ ppc'   = "gc"
    /\ UNCHANGED <<dbVars, cas, wk, pfree, ph, rst>>

\* A BackupChunk row with this hash that the pruner's session can see.
ReferencedTwice(h) ==                                                 \* mutant
    \E s, t \in Visible : s # t /\ h \in snaps[s].rows \cap snaps[t].rows
Referenced(h) == \E s \in Visible : h \in snaps[s].rows

PruneKeepChunk(h) ==
    /\ ppc = "gc"
    /\ h \in pgc
    /\ Referenced(h)
    /\ pgc' = pgc \ {h}
    /\ UNCHANGED <<dbVars, cas, wk, ppc, pfree, pcand, pdel, ph, rst>>

PruneFindUnreferenced(h) ==
    /\ ppc = "gc"
    /\ h \in pgc
    /\ ~Referenced(h)
    /\ pgc' = pgc \ {h}
    /\ ph'  = h
    /\ ppc' = "unlink"
    /\ UNCHANGED <<dbVars, cas, wk, pfree, pcand, pdel, rst>>

\* cas_store.delete, at once and outside the transaction.
PruneUnlink ==
    /\ ppc = "unlink"
    /\ cas' = cas \ {ph}
    /\ ppc' = "gc"
    /\ ph'  = Null
    /\ UNCHANGED <<dbVars, wk, pfree, pcand, pdel, pgc, rst>>

PruneSnapshotDone ==
    /\ ppc = "gc"
    /\ pgc = {}
    /\ ppc' = IF pcand = {} THEN "rows" ELSE "delete"
    /\ UNCHANGED <<dbVars, cas, wk, pfree, pcand, pdel, pgc, ph, rst>>

PruneCommit ==
    /\ ppc = "rows"
    /\ Remove(pdel)
    /\ ppc'  = "idle"
    /\ pfree' = {} /\ pdel' = {}
    /\ UNCHANGED <<sources, nextId, cas, wk, pcand, pgc, ph, rst>>

\* Any exception, or the end of the process: the session rolls back, so every
\* deleted snapshot is back.  Chunks already unlinked stay unlinked.
PruneRollback ==
    /\ ppc # "idle"
    /\ ppc' = "idle"
    /\ pfree' = {}
    /\ pcand' = {} /\ pdel' = {} /\ pgc' = {} /\ ph' = Null
    /\ UNCHANGED <<dbVars, cas, wk, rst>>

-----------------------------------------------------------------------------
(* trigger_restore and run_restore.                                        *)

\* trigger_restore inserts the restore_jobs row (its foreign key waits for a
\* snapshot the pruner has deleted) and dispatches the task; when the broker is
\* down the job is marked failed and no task exists.  want is the manifest, or
\* the part of it one requested file takes.
TriggerRestore(r, s, want, dispatched) ==
    /\ rst[r].status = "none"
    /\ s \in Visible
    /\ rst' = [rst EXCEPT ![r] =
                 [status |-> IF dispatched THEN "pending" ELSE "failed", snap |-> s,
                  want |-> want, need |-> {}, left |-> IF dispatched THEN MaxRetries ELSE 0]]
    /\ UNCHANGED <<dbVars, cas, wk, pruneVars>>

\* First execution, or a retry of a failed one: load the manifests.
RestoreBegin(r) ==
    /\ \/ rst[r].status = "pending"
       \/ rst[r].status = "failed" /\ rst[r].left > 0
    /\ rst' = [rst EXCEPT ![r].status = "running", ![r].need = rst[r].want,
                          ![r].left = IF rst[r].status = "failed" THEN @ - 1 ELSE @]
    /\ UNCHANGED <<dbVars, cas, wk, pruneVars>>

\* cas.retrieve of one chunk, which must be there.
RestoreChunk(r, c) ==
    /\ rst[r].status = "running"
    /\ c \in rst[r].need \cap cas
    /\ rst' = [rst EXCEPT ![r].need = @ \ {c}]
    /\ UNCHANGED <<dbVars, cas, wk, pruneVars>>

\* The chunk is missing, or any other exception: failed, and Celery retries
\* while retries are left.
RestoreFail(r) ==
    /\ rst[r].status \in {"running", "verifying"}
    /\ rst' = [rst EXCEPT ![r].status = "failed", ![r].need = {}]
    /\ UNCHANGED <<dbVars, cas, wk, pruneVars>>

\* The root is recomputed over the manifest's digests, which equal the ones it
\* was stored for: the check passes (a single-file restore skips it).
RestoreVerify(r) ==
    /\ rst[r].status = "running"
    /\ rst[r].need = {}
    /\ rst' = [rst EXCEPT ![r].status = "verifying"]
    /\ UNCHANGED <<dbVars, cas, wk, pruneVars>>

RestoreComplete(r) ==
    /\ rst[r].status = "verifying"
    /\ rst' = [rst EXCEPT ![r].status = "completed"]
    /\ UNCHANGED <<dbVars, cas, wk, pruneVars>>

\* The API process dies before the dispatch, or the worker while it executes (the
\* message was acknowledged at the start): nothing ever touches the row again.
RestoreLost(r) ==
    /\ rst[r].status \in {"pending", "running", "verifying"}
    /\ rst' = [rst EXCEPT ![r].status = "lost"]
    /\ UNCHANGED <<dbVars, cas, wk, pruneVars>>

-----------------------------------------------------------------------------
Backup(w) ==
    \/ \E a \in sources, inc \in BOOLEAN, F \in SUBSET Chunks : BackupBegin(w, a, inc, F)
    \/ \E c \in Chunks : StoreChunk(w, c)
    \/ DiffPrevious(w)
    \/ PersistSnapshot(w)
    \/ BackupFail(w)

Api ==
    \/ \E a \in sources : SynthesizeFull(a)
    \/ \E s \in SnapId : LockSnapshot(s)
    \/ \E s \in SnapId : UnlockSnapshot(s)
    \/ \E a \in sources : DeleteSource(a)

Prune ==
    \/ PruneBegin
    \/ \E a \in Sources, k \in 2..nextId, M \in SUBSET (pfree \cap locked) :
          PruneSelect(a, k, M)
    \/ \E s \in SnapId : PruneDelete(s)
    \/ \E h \in Chunks : PruneKeepChunk(h)
    \/ \E h \in Chunks : PruneFindUnreferenced(h)
    \/ PruneUnlink
    \/ PruneSnapshotDone
    \/ PruneCommit
    \/ PruneRollback

Restore(r) ==
    \/ \E s \in Live, d \in BOOLEAN : \E want \in SUBSET snaps[s].files :
          TriggerRestore(r, s, want, d)
    \/ RestoreBegin(r)
    \/ \E c \in Chunks : RestoreChunk(r, c)
    \/ RestoreVerify(r)
    \/ RestoreComplete(r)
    \/ RestoreFail(r)
    \/ RestoreLost(r)

Next ==
    \/ \E w \in Workers : Backup(w)
    \/ Api
    \/ Prune
    \/ \E r \in Restores : Restore(r)

Spec == Init /\ [][Next]_vars

-----------------------------------------------------------------------------
(* Invariants of the program as it is.                                     *)

\* Every variable has its type, the pruner's sets speak of rows that exist,
\* and its position in the loops agrees with what is left to do: what the row
\* locks between the pruner and the other sessions guarantee.
TypeOK ==
    /\ sources \subseteq Sources
    /\ Live \subseteq SnapId /\ \A s \in Live : snaps[s] \in SnapRec
    /\ nextId \in 1..(MaxSnaps + 1) /\ \A s \in Live : s < nextId
    /\ locked \subseteq Live
    /\ cas \subseteq Chunks
    /\ wk \in [Workers -> WorkerRec]
    /\ \A w \in Workers : wk[w].pc # "idle" => wk[w].source \in Sources
    /\ ppc \in {"idle", "rows", "delete", "gc", "unlink"}
    /\ pfree \subseteq SnapId /\ pcand \subseteq SnapId /\ pdel \subseteq Live /\ \A s \in pcand : s < nextId
    /\ pgc \subseteq Chunks /\ ph \in Chunks \cup {Null}
    /\ ppc = "unlink" => ph \in Chunks
    /\ ppc \in {"idle", "rows"} => pcand = {} /\ pgc = {}
    /\ ppc = "idle" => pdel = {} /\ pfree = {}
    /\ rst \in [Restores -> RestoreRec]

\* What keeps an incremental snapshot restorable: an incremental backup records
\* BackupChunk rows only for its diff, and the diff is against the previous
\* snapshot's rows (not its manifest), so every digest of the manifest has a
\* row in the snapshot or in its direct parent, and the parent's row cannot be
\* pruned before the child.  The garbage collector counts rows only
\* (backup_worker.py 171-179 and 229-246, scheduler.py 248-255).
RowsCoverManifest ==
    \A s \in Visible :
        /\ snaps[s].parent # Null => snaps[s].parent \in Visible
        /\ ~snaps[s].synth =>
             \A c \in snaps[s].files :
                 \/ c \in snaps[s].rows
                 \/ snaps[s].parent # Null /\ c \in snaps[snaps[s].parent].rows

\* "The most-recent snapshot for each source is always kept regardless of age"
\* (scheduler.py 177): whatever the pruner has deleted or is about to delete,
\* a newer snapshot of the same source stays, even when backups, syntheses and
\* other prune passes run in between.
NewestKept ==
    \A s \in (pdel \cup pcand) \cap Live :
        \E t \in Visible \ pcand : t > s /\ snaps[t].source = snaps[s].source

\* A restore job's snapshot is there as long as the job is: neither the pruner
\* nor delete_source takes it away while the restore is pending, running or
\* waiting for a retry, or after its worker died (restore_jobs.snapshot_id,
\* restore_worker.py 65 and 70-72).
RestorePinsSnapshot ==
    \A r \in Restores : rst[r].status # "none" =>
        rst[r].snap \in Visible /\ rst[r].want \subseteq snaps[rst[r].snap].files

\* safe_to_delete of GET /sources/{id}/chain: not locked and nobody's parent.
ChainSafeUnlocked(s) == s \notin locked                               \* mutant
ChainSafe(s) == s \notin locked /\ \A t \in OfSource(snaps[s].source) : snaps[t].parent # s

\* With snapshot s gone, every digest of t still has a row that keeps it in the
\* CAS.
RowsWithout(s, t) == \A c \in snaps[t].files : \E u \in Visible \ {s} : c \in snaps[u].rows

\* The flag can be trusted for backups: removing one snapshot that is marked
\* safe to delete leaves every other backup restorable, of any source
\* (chain.py 117-119; 156-158 "which snapshots can be removed without breaking
\* restore chains").
ChainSafeForBackups ==
    \A s \in Visible : ChainSafe(s) =>
        \A t \in Visible \ {s} : ~snaps[t].synth => RowsWithout(s, t)

\* _build_chain's breadth-first walk from the roots of a source's chain: the
\* depth of each snapshot, 0 when the walk does not reach it.
ChainDepth(a) ==
    LET own == OfSource(a)
        Level[k \in 0..MaxSnaps] ==
          IF k = 0 THEN {s \in own : snaps[s].parent = Null}
          ELSE LET above == Level[k - 1] IN {s \in own : snaps[s].parent \in above}
    IN  [s \in own |-> NewestOf({k \in 0..MaxSnaps : s \in Level[k]})]

\* "depth: distance from the nearest root (full backup with no parent)"
\* (chain.py 80): the walk reaches every snapshot of the source, one level below
\* its parent, so the fallback for a parent outside the result (chain.py 101) is
\* never needed: whatever was pruned, a chain still ends in a full backup.
ChainWalkComplete ==
    \A a \in Sources :
        LET depth == ChainDepth(a) IN
        \A s \in OfSource(a) :
            snaps[s].parent # Null =>
                /\ snaps[s].parent \in OfSource(a)
                /\ depth[s] = depth[snaps[s].parent] + 1

\* A digest is accounted for if the pruner is about to check it, a backup in
\* flight has read it, or a row that a session can see names it.
Accounted(c) ==
    \/ c \in pgc \cup {ph}
    \/ \E w \in Workers : c \in wk[w].files
    \/ Referenced(c)

\* Digests on disk that nothing accounts for: no later run of the pruner looks
\* at them.
Garbage == {c \in cas : ~Accounted(c)}

\* Only two things leave garbage in the CAS: a backup that ends without a
\* snapshot (backup_worker.py 149, 380-389) and the deletion of a source.  The
\* pruner, its rollback included, checks every digest whose last row it deletes,
\* and a committed backup leaves a row for each digest it stored.
GarbageHasCause ==
    [][\/ sources' # sources
       \/ \E w \in Workers : wk[w].pc # "idle" /\ wk'[w].pc = "idle" /\ snaps' = snaps
       \/ Garbage' \subseteq Garbage]_vars

-----------------------------------------------------------------------------
(* Conditions the code does not enforce, each on one step, and the          *)
(* properties that need them.                                              *)

\* No backup is in flight while a prune run is.
NoOverlap == ppc' # "idle" => \A w \in Workers : wk'[w].pc = "idle"

\* The synthesize-full endpoint is not used.
NoSynthesis == \A s \in DOMAIN snaps' : s \notin Live => ~snaps'[s].synth

\* A prune run that has deleted something ends by committing.
NoRollback == ppc # "idle" /\ ppc' = "idle" => DOMAIN snaps' \cap pdel = {}

\* Nobody locks a snapshot that is on the pruner's list, or that the session has
\* loaded without a lock: to another pass of the run it would still be without.
NoLateLock == (locked' \ locked) \cap (pcand \cup pfree) = {}

\* No source with a locked snapshot is deleted.
NoLockedSourceDelete ==
    \A a \in sources \ sources' : OfSource(a) \cap locked = {}

SafeNext == Next /\ NoOverlap /\ NoSynthesis /\ NoRollback
SafeSpec == Init /\ [][SafeNext]_vars

WormNext == Next /\ NoLateLock /\ NoLockedSourceDelete
WormSpec == Init /\ [][WormNext]_vars

\* All of them together.
GuardedSpec == Init /\ [][SafeNext /\ WormNext]_vars

\* Every chunk of every snapshot is in the CAS: the snapshot can be restored
\* (run_restore retrieves each digest of the manifest, restore_worker.py
\* 96-104; scheduler.py 176 "CAS chunks that are no longer referenced by any
\* snapshot").
Restorable == \A s \in Visible : snaps[s].files \subseteq cas

\* A running restore finds every chunk it still has to write, whatever is
\* pruned between two of its reads (restore_worker.py 102-103).
RestoreFindsChunks ==
    \A r \in Restores : rst[r].status = "running" => rst[r].need \subseteq cas

\* "The snapshot cannot be deleted or pruned until lock_days have elapsed"
\* (snapshots.py 69): a locked snapshot does not disappear.
LockedSurvive == [][locked \subseteq DOMAIN snaps']_vars

\* "Deletes snapshots older than the source's policy retention_days"
\* (scheduler.py 175): a run that reaches an expired snapshot can delete it.
RetentionCanDelete ==
    ppc = "delete" => \A s \in pcand : (\A t \in pcand : s <= t) => ~FkReferenced(s)

-----------------------------------------------------------------------------
(* The promise of RecoveryPoints.  A snapshot counts as a recovery point if *)
(* its row is there and every chunk of its manifest is on disk.            *)

Points == [s \in {t \in Visible : snaps[t].files \subseteq cas} |->
             [source |-> snaps[s].source, files |-> snaps[s].files]]

RP == INSTANCE RecoveryPoints WITH points <- Points, Contents <- SUBSET Chunks, Ids <- SnapId

\* Recovery points appear whole when run_backup commits and disappear only by
\* retention, with a newer one left, or with their source: no unlink, rollback,
\* failed backup or restore step takes one away or changes it.
KeepsRecoveryPoints == RP!Spec
=============================================================================
