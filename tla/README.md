# BackupOS: a TLA+ verification project

BackupOS is a FastAPI service with Celery workers, PostgreSQL, Redis and a
content-addressable chunk store (CAS) on disk. This directory models the parts
of it that carry state, checks them with TLC on small instances and proves their
main properties with TLAPS. Paths below are relative to `src/`.

## 1. Inventory

| Component | State it keeps | Operations | Interacts through |
|---|---|---|---|
| Backup worker, `app/workers/backup_worker.py` | job status, snapshot, manifest (`SnapshotFile`), `BackupChunk` rows, chunks on disk | `run_backup`: read, store chunks, diff, persist, detect anomalies, complete, retry | CAS, database, broker |
| Retention pruner, `app/core/scheduler.py` 173-263 | one long transaction; unlinks chunks at once | `prune_expired_snapshots` | database, CAS |
| Policy evaluator, `app/core/scheduler.py` 61-163, 352-384 | jobs, RPO and gap alerts | `evaluate_all_policies`, `_dispatch_backup` | job status column, broker |
| Integrity verifier, `app/core/scheduler.py` 266-344 | `verification_status`, `last_verified_at` | `verify_snapshot_integrity` | database only |
| CAS, `app/core/cas.py` | shard directories, `<digest>` and `<digest>.tmp` files | `store`, `retrieve`, `delete` | file system |
| Restore, `app/api/restore.py`, `app/workers/restore_worker.py` | restore jobs | `trigger_restore`, `run_restore` | database, CAS, broker |
| Locks, `app/api/snapshots.py` | `locked_until` | lock, unlock | read by the pruner |
| Synthetic full, `app/api/backups.py` 369-476 | a snapshot with a copied manifest, a completed job | `synthesize_full_backup` | database |
| Chain view, `app/api/chain.py` | none | depth, `safe_to_delete` flag | database |
| Job API and status stream, `app/api/backups.py`, `app/api/ws.py` | jobs | `trigger_backup`, `job_status_ws` | status column, broker |
| Policies and sources, `app/api/policies.py`, `app/api/sources.py` | policies, attachments, sources | create, update, attach, delete | read by evaluator and pruner |
| Audit log and export, `app/core/audit.py`, `app/api/compliance.py` | audit rows | `log_event`, export, verify | in the caller's transaction |
| Merkle tree, `app/core/merkle.py` | none (pure) | build, diff, verify | used by backup, restore, verifier |
| Rate limiter, `app/core/rate_limit.py` | Redis counter and TTL | `check` | Redis |
| Webhooks, `app/api/webhooks.py` | endpoints, delivery rows | register, delete, fan out, deliver one | HTTP receivers, database |
| CDC chunker, `app/core/cdc.py` | none (pure) | `chunk_data` | used by backup |
| Compliance score, `app/services/compliance_service.py`, `app/api/anomalies.py` 97-206 | none (reads sources, policies, alerts) | score, report | database |
| Alerts, `app/api/anomalies.py` 65-89 | `resolved` | resolve; raised by backup, restore and evaluator | read by the score |
| Anomaly statistics, catalog/browse/analytics, authentication, wiring | | | not modelled, see 8 |

What makes it hard. Nothing but single database statements and file system calls
is shared: the API processes, the Celery workers and APScheduler's jobs take no
common lock. Transactions run READ COMMITTED, so a value read early may be stale
when it is used. The CAS is outside every transaction. A task may be lost with
its worker, retried after it has already committed, or never published. The
hazards, each at its line, are in `PROJECT.json`.

What makes each component correct, in one line: chunks of every snapshot exist
(pruner, backup, CAS); the newest snapshot and locked ones stay (pruner, locks);
a restore finds what it needs; a job ends, and ends truthfully (worker, stream);
an overdue source is served (evaluator); damage is reported (verifier); a chunk
under its name is complete (CAS); diff finds what is new (Merkle); the limit is
kept and no window extended (rate limiter); log and rows agree and an export stays
verifiable (control plane); an event reaches every endpoint and is recorded
(webhooks); chunks depend on content only and concatenate to the file (CDC); a
full score means no violation, and every fix counts (score).

## 2. Modules

| Module | Models | Extended by |
|---|---|---|
| `SnapshotStore` | backup data path, pruner, restore, locks, synthesis, source deletion, chain view | `MCSnapshotStore`, `SnapshotStoreProofs` |
| `RecoveryPoints` | abstract promise: what a set of recovery points may do | instantiated by `SnapshotStore` |
| `JobOrchestrator` | life of a backup job: API, evaluator, broker, worker, status stream, alerts | `MCJobOrchestrator`, `JobOrchestratorProofs` |
| `CasStore` | `store` and `delete` as file system calls | `MCCasStore`, `CasStoreProofs` |
| `RateLimiter` | INCR/EXPIRE of concurrent requests, checks that fail | `MCRateLimiter`, `RateLimiterProofs` |
| `MerkleTree` | construction, diff, root comparison | `MCAlgorithms`, `AlgorithmsProofs` |
| `CdcChunker` | `chunk_data`, loop by loop | `MCAlgorithms`, `AlgorithmsProofs` |
| `ComplianceScore` | score and report over the tables they read | `MCAlgorithms`, `AlgorithmsProofs` |
| `Webhooks` | endpoints, fan-out and manual delivery | `MCWebhooks`, `WebhooksProofs` |
| `IntegrityVerifier` | the daily verification job | run directly, `IntegrityVerifierProofs` |
| `ControlPlane` | policies, sources, creation of jobs, audit rows, export | `MCControlPlane`, `ControlPlaneProofs` |

`CasStore` refines one atomic step of `SnapshotStore` (`StoreChunk`,
`PruneUnlink`); `JobOrchestrator` and `SnapshotStore` are two views of
`run_backup`, control and data. The first relation rests on `CallsTakeEffect`, the
second is explained, not checked.
`MCAlgorithms` puts the three pure algorithms side by side in one state machine;
a behaviour runs one of them.

### How state and actions correspond to the code

**SnapshotStore.** `snaps` is the committed `backup_snapshots` table with, per
row, the digests of its `SnapshotFile` rows (`files`) and of its `BackupChunk`
rows (`rows`); they differ, because an incremental backup writes rows only for
its diff, and the garbage collector counts rows. Ids stand for `created_at`
order. `cas` is the set of digests on disk. A `run_backup` task has three steps
other processes can come between: storing a chunk, reading the previous
snapshot, and the commit. The pruner's transaction is explicit: `pdel` holds
deletes that are flushed but not committed, so `Visible` is what its own session
sees and `Live` what others see; statements of others that would touch such a
row wait (their guards say `Visible`). `PruneUnlink` is outside the transaction.
Foreign keys appear as guards (`FkReferenced`, `DeletableSource`,
`PersistSnapshot`); a violated one leaves only the failing action
(`PruneRollback`, `BackupFail`). `lock`/`unlock`/expiry are `locked`. A restore
whose process dies has status `lost`: the column keeps its value, no task
exists, and the row goes on pinning its snapshot.

A prune run visits a source once per policy, in one session. Its second query of
a source returns the objects of the first as long as something refers to them,
and does not refresh them, so a pass may see a row without the lock it has since
got. `pfree` is what a pass may leave behind in this way: the snapshots of its
list that it loaded unlocked and does not delete, that is the most recent one;
the next list replaces it. `PruneSelect` picks any part of it (`M`) as still in
the session. The opposite, an object that still shows a lock that has gone, needs
no variable, since the unlocking may as well come later. `ChainDepth` is the walk of
`_build_chain`. The foreign keys are the models' (`init_db` creates the schema,
as in docker-compose); the migrations, whose 001 cascades in the database and
has a unique constraint on attachments, lack columns the models use.

**JobOrchestrator.** A slot is a job row together with its Celery message.
`status` is the column, `task` where the message is. Failures are separate
actions: broker down (`DispatchFail`), API process dead between commit and
dispatch (`ApiCrash`), exception with retry (`TaskFail`), worker dead or session
unusable (`TaskLost`: Celery acknowledges early, so nothing is redelivered). The
evaluator's guard and its insert of the same row are one step: between them the
code lets in only what the guard's property does not speak of, jobs created
through the API and retries. `age` is the time since the last completed job,
saturating above every threshold the code compares it with. The evaluator visits
attachment rows, pairs of a source and a policy, so a source may be visited
several times in one run; alerts wait in its session (`epend`) until a commit,
which may be that of a dispatch. `SynthFull` is what the evaluator sees of
synthesize-full: a completed job of now. A finished row frees its slot
(`Recycle`), so that finitely many slots stand for any number of jobs.

**CasStore.** Names are bound to inodes; `open("wb")` creates or truncates,
`rename` moves whatever the name is bound to now, an open file survives its
name. The temp name is the same for all writers of a digest, as in the code.
`raced` and `faulted` remember whether two stores of a digest have overlapped and
whether a write has failed; no action reads them.

**RateLimiter.** `count` and `ttl` are the Redis key; a request is between INCR
and EXPIRE while `req` names its tenant. A request whose INCR raises is let
through by `enforce_rate_limit` (`IncrFails`): uncounted if Redis never saw the
command, counted if only the reply was lost. `failed` counts these per window.
Redis expiry is external.

**MerkleTree.** SHA-256 is injective, so an inner node's hash is the pair of its
children's. A leaf's hash is the chunk's digest as it is (`merkle.py` 44), so both
kinds live in one domain: a digest may itself be a pair, which is that of a chunk
whose 128 bytes spell two digests. Two lists grow chunk by chunk to every pair
within the bound. The tree is given by its layers, the lists the loop of `_build`
makes: the nodes the walk of `_all_node_hashes` meets are the nodes of all layers.
The traversal of `diff` is a recursive function on those nodes. `SnapshotStore`
takes the result of `diff` for the set difference, which it is under the condition
`Separated`, see 6.

**CdcChunker.** The variables are the loop's; one action per pass of each of its
loops. The hash is kept modulo `Word` (2^64 in the code), the window is a ring
buffer. The reference (`WindowHash`, `FirstCut`) knows neither.

**ComplianceScore.** The state is what the queries read, the actions what changes
it: policies updated, attached and deleted, sources reclassified, alerts raised
and resolved. The score is a set of deductions per framework. A report is
computed in one state, though the handler's queries see several, and the policy
of a source is any one attached (`LIMIT 1` without order).

**Webhooks.** A sender is a call of `deliver_event` or `manual_deliver`. It
POSTs outside any transaction, so between its reads, the POST, the commit of the
delivery row and the `refresh` an endpoint may be deleted: the insert violates
the foreign key (`RecordRaise`), or the row is gone (`RefreshRaise`). The same
two statements fail for any other error of the database, an event type longer
than its column among them (`RecordError`, with the row there when only the
COMMIT's reply was lost; `RefreshError`); such a call ends with `dberror`. A
deletion loads the rows its cascade will delete and fails if another was
inserted since, or on any other error (`DeleteFails`). An answer may arrive in
parts, each of which restarts the read timeout. `deliver_event` has no caller in
the repository, though its docstring (167) names two.

**IntegrityVerifier.** The rows are a sequence in `created_at` order from which
deleted ones drop out, so that snapshots are created and deleted for ever in a
finite model; a row has a manifest or not, damaged or not. A run selects the newest
due ones up to the limit, and commits all results or none; days are counted in
runs. A row deleted after the run has read it makes the commit fail (`vlost`).

**ControlPlane.** A document gives its settings YAML values of any type, and
`Column` is what `int()`, `bool()` and `float()` of `_parse_policy_yaml` make of
them: 60.9 becomes 60, the text "false" becomes true, and a value that does not
convert ends the request before it writes anything. A request reads, flushes
(its audit row gets an id from the sequence and a `created_at` taken since the
request began) and commits. The write is placed at the commit: row locks last
until then. SQLAlchemy's unit of work is modelled by what it does: an UPDATE
names only columns that differ from the loaded row and raises if it matches
none; a DELETE cascades to what was loaded and only warns if a row is gone; no
UPDATE is sent if nothing changed. `att` holds the rows that reference a policy
or a source: attachments, and the jobs of `trigger_backup`, whose event is
written with them.

## 3. Runs

| Run | Specification | Checks | Result |
|---|---|---|---|
| `StoreAll` | `Spec` | `TypeOK`, `RowsCoverManifest`, `ChainSafeForBackups`, `NewestKept`, `ChainWalkComplete`, `GarbageHasCause` | pass |
| `StoreSafe` | `GuardedSpec` | `RestorePinsSnapshot`, `Restorable`, `RestoreFindsChunks`, `KeepsRecoveryPoints`, `LockedSurvive` | pass |
| `StoreRetention` | `Spec` | `RetentionCanDelete` | violated |
| `JobsAll` | `Spec` | `TypeOK`, `CompletedHasSnapshot`, `FirstAttemptOnce`, `StreamTruth` | pass |
| `JobsLive` | `LossFreeSpec` | `JobsSettle`, `OverdueServed` | pass |
| `JobsStuck` | `FairSpec` | `OverdueServed` | violated |
| `CasAll` | `Spec` | `TypeOK`, `TornHasWriter`, `AtomicWrite`, `CallsTakeEffect` | pass |
| `Algorithms` | `Spec` | `DiffIsSetDifference`, `RootSeparates`, `CutsContentDefined`, `ChunksConcatenate`, `FullScoreIffClean`, `EveryFixCounts` | pass |
| `WebhookAll` | `FairSpec` | `TypeOK`, `PostRecorded`, `FanoutReachesAll`, `FanoutEnds` | pass |
| `RateAll` | `Spec` | `WindowLimit`, `WindowNotExtended` | pass |
| `VerifyDamage` | `Spec` | `TypeOK`, `DamageReported` | pass |
| `ControlAll` | `Spec` | `TypeOK`, `AuditAtomic`, `ExportVerifies`, `UpdateAgrees` | pass |

Run one with `tlc -workers 2 -config StoreAll.cfg MCSnapshotStore`; the module of
each run is in `PROJECT.json`. With two workers `StoreAll` and `StoreSafe` take
two minutes and the others less.

### Bounds

* `StoreAll`: two sources share two chunks, one worker, three snapshots. Two
  sources are needed for chunks shared across sources; two chunks for a manifest
  that loses a part of itself; three snapshots for a chain whose middle is a
  child and a parent and for a prune pass that leaves one. `StoreSafe`: one
  source, two chunks, a restore with one retry; that a restore pins its snapshot
  without the conditions of this run, across rollbacks too, is a theorem about
  `Spec`. Deadlock is off in `StoreSafe`: when a restore is triggered for a
  snapshot on the list, the delete raises, and `NoRollback` cuts off the
  rollback that is then the only way on. The theorems remove these bounds.
* Jobs: one source (sources do not interact except through alerts), two slots
  for a scheduled job beside an API job or a retry, one retry, frequency 1, so
  that the gap threshold of three frequencies is 3 and the age saturates at 4.
  `JobsAll` has two policies on the source, which differ in their RPO and agree
  in their frequency, so that both find it due in one run, as with a policy
  attached twice; the liveness runs have one. In `JobsLive` no stream is
  followed: a stream writes nothing others read.
* CAS: three writers of two digests in one shard, and one delete. Of the seven
  inodes that four names and three open files without a name could take there
  are five: one more than names. The theorems have no such bound.
* Algorithms. Merkle: all lists up to length 5 over 3 digests: of a plain chunk,
  of the empty chunk (also the root of the empty list), and of the chunk that
  spells these two; every shape of odd layer on two levels, with repeated
  digests and with leaves that have an inner node's hash. CDC: all strings of up
  to 10 bytes over 2 values, window 2, chunks of 3 to 6, a hash modulo 8 that
  wraps, one bit of mask: up to three chunks, every way to end, and both reasons
  to cut. Score: two sources, two policies, settings on both sides of each
  threshold in every combination a source can be judged by (24: `dedup` and the
  frequency are tied to one another, since HIPAA reads the one, PCI the other
  and no source is under both), every classification that selects other
  frameworks. Rounding hides nothing for two sources; from 2500 on it would
  (section 4). Deadlock is off: lists stop growing and a string ends.
* Webhooks: two senders, one deletion at a time, two endpoints, an answer with
  at most one part before its end. Deadlock is off: the calls end.
* Rate limiter: limit 2, counter up to 5, three requests, two tenants, two
  failed checks per window.
* Verifier: five snapshots at a time, one of them without manifest, one new per
  run, limit 3, due again after three runs: more due snapshots than a run takes,
  and the heaviest load `Capacity` admits (7 < 8, see 6). Heavier ones starve:
  without `Capacity` TLC finds a damaged snapshot that is never reported with
  two new ones per run, limit 3, due after two runs; with two without manifest,
  four at a time, limit 2; and with six at a time, limit 3.
* Control plane: one policy, one source, two requests, four audit ids (create
  both, attach, delete), two clock units, a filter closed by its date or by its
  limit of two, whichever comes first: with a limit of one the first row is
  always the policy's creation, which nothing overtakes. One setting stands for
  the three integers, one for the two flags, one for the float. Four documents:
  a frequency of 60; 60.5 with the texts "false" and "8.0"; 120 with a flag set
  to false; and an empty frequency, which does not convert. The first two have
  the same frequency column, so overlapping updates do leave columns of one
  beside the text of the other, and a later update repairs them.

Symmetry is used for safety properties only.

### Fairness

`JobOrchestrator!Fairness`: APScheduler keeps firing (weak fairness of
`EvalBegin`), a run visits its rows, a free worker takes a queued task and an
attempt ends, a handler past its commit reaches the dispatch. Strong fairness
for `Dispatch` and `EvalDispatch` says that the broker is not down at every
attempt and that evaluator runs do not raise every time; strong fairness for
`Tick` that time passes between runs. Nothing says that a retry succeeds.
`LossFreeSpec` adds `NoLoss`, see 6. `IntegrityVerifier!Fairness`: the daily job
starts, and a run ends by commit or failure; `RunsSucceed`, see 6, says that it does
not fail for ever.
`Webhooks!Fairness`: the process runs, and a timeout fires when nothing arrives;
nothing is assumed of receivers, except that an answer has at most `MaxParts`
parts, without which a fan-out need not end.

## 4. Proofs

All for arbitrary sets of sources, chunks, workers, restores, slots, digests,
writers, inodes, tenants, requests, senders, chunk lists and byte strings, and
arbitrary bounds; sources of a scored tenant are fewer than 2500. Assumptions:
`BoundsAssumption`, `DigestAssumption`, `JobAssumption`, `InodeAssumption`,
`LimitAssumption`, `DocAssumption`, `EndpointAssumption`, `VerifierAssumption`,
`ChunkerAssumption` (numbers are naturals, thresholds lie
below the caps, `None` and `Null` are not values, the clock has a first value, a
window fits into the smallest chunk and that into the largest). TLC evaluates
each of them in a run.

| Theorem | States | Inductive invariant |
|---|---|---|
| `TypeCorrect` | `Spec => []TypeOK` | `TypeOK` itself |
| `ManifestCovered`, `ChainFlagSound` | `RowsCoverManifest`, `ChainSafeForBackups` | `ChainInv` = `WorkerInv` /\ `ParentInv` /\ `CoverInv` |
| `MostRecentKept` | `NewestKept` | itself with `TypeOK` |
| `RestorePinned` | `RestorePinsSnapshot` | `PinInv` |
| `SnapshotsRestorable`, `RestoresComplete` | `SafeSpec => []Restorable`, `[]RestoreFindsChunks` | `SafeInv` over `ChainInv` and `PinInv` |
| `LocksHold` | `WormSpec => LockedSurvive` | `WormInv` |
| `ImplementsRecoveryPoints` | `SafeSpec => KeepsRecoveryPoints` | the invariants above |
| `JobTypes`, `CompletedJobs`, `DedupGuard`, `StreamsTellTruth` | `TypeOK`, `CompletedHasSnapshot`, `FirstAttemptOnce`, `StreamTruth` | `JobInv` |
| `CasTypes`, `AtomicWhenSolo`, `CallsAtomic`, `TornIsBeingWritten` | `TypeOK`, `AtomicWrite`, `CallsTakeEffect`, `TornHasWriter`, all of `Spec` | `TypeOK`, and under `~raced` (`AtomicInv`) and `~faulted` `SoloInv` and `HeldInv` |
| `AtMostRpm`, `WindowsEndOnTime` | `WindowLimit`, `WindowNotExtended` | `RateInv` |
| `NoSilentGarbage` | `Spec => GarbageHasCause` | `GcInv` with `ChainInv` |
| `ChainWalkReachesAll` | `ChainWalkComplete` | `ParentOlder` with `ChainInv` |
| `ControlPlaneProofs!TypeCorrect`, `UpdatesAgree` | `TypeOK`, `UpdateAgrees` | `PlaneInv` = `RowInv` /\ `ReqInv` /\ `IdInv` /\ `AttInv` /\ `LogInv` |
| `AuditSharesTransaction` | `AuditAtomic` | `AuditInv` with `PlaneInv` |
| `SettledExportsVerify` | `ExportVerifies` | `ExportInv` with `PlaneInv` |
| `WebhooksProofs!TypeCorrect`, `OutcomesRecorded`, `FanoutComplete` | `TypeOK`, `PostRecorded`, `FanoutReachesAll` | `WebInv` |
| `IntegrityVerifierProofs!TypeCorrect` | `TypeOK` | itself |
| `ChunksJoin` | `ChunkSpec => []ChunksConcatenate` | `JoinInv` |
| `BoundariesContentDefined` | `ChunkSpec => []CutsContentDefined` | `CdcInv` = `JoinInv` /\ `RollInv` /\ `ScanInv` /\ the property |
| `DiffExact`, `RootsSeparate` | `MerkleSpec => []DiffIsSetDifference`, `[]RootSeparates` | the state is two lists of digests |
| `FullScoreExact`, `FixesCount` | `ScoreSpec => []FullScoreIffClean`, `EveryFixCounts` | none: in every state, and for every change of it |

Why strengthening is needed. `RowsCoverManifest` speaks of what the pruner's
session sees; a rollback brings rows back, so `ParentInv` and `CoverInv` speak
of all committed rows, and a backup that persists relies on what it read of its
parent some steps earlier, which `WorkerInv` keeps. `Restorable` needs, while
the pruner is between query and unlink, that the hash it holds has no row left,
and that every digest of a visible snapshot has one (`ChainInv`). A locked
snapshot survives because it is neither on the pruner's list nor among its
deletes, nor held by its session as loaded without a lock (`WormInv`): the last
part makes a second pass over the source see every lock. `FirstAttemptOnce`
needs that a job in its first execution has a status the guard sees, and that
only one dispatch of the evaluator is under way. An incomplete file under its
final name has a writer because every inode that is `short` and bound is held by
one (`HeldInv`). A rename finds its name free because the chunk a writer did not
find is still missing (`SoloInv`); so `StoreChunk` and `PruneUnlink` of
`SnapshotStore` may be one step each. The refinement maps `points` to the
visible snapshots whose digests are all on disk: a commit of a backup is `Take`,
the pruner's flush of a delete `Expire`, the deletion of a source `DropSource`;
everything else stutters.

A step leaves no new garbage only if what the pruner has still to check are rows
of snapshots it has deleted and may bring back, and if a backup has stored nothing
its manifest will not list (`GcInv`). The walk of the chain view reaches every
snapshot because a parent is older than its child (`ParentOlder`).

In the control plane a foreign key is tested at the commit, but the request named
its rows when it began: `ReqInv` keeps that those ids have existed. One event per
commit needs that audit ids are given once (`IdInv`), and counting events needs
finite sets (`LogInv`, `AuditInv`). An export goes on verifying because a settled
filter stays settled, which `ExportVerifies` does not say and `ExportInv` does:
a request in flight at the time has a later `since` or a larger id.

`WindowLimit` follows from a bound that holds whatever fails: as many requests have
passed as the counter shows, up to the limit, and those whose check failed
(`RateInv`). `UpdateAgrees` needs of the conversions only that the columns the
update leaves out are those whose converted value the row already has; so it holds
for any `Column`, and also when the row it loaded did not agree with its document.

`FanoutReachesAll` speaks of ended calls; `ProgressInv` says of one under way that
what it selected and has not posted it has still to visit or is posting now. That
a call cut short was serving a deleted endpoint needs `RowInv` (a committed row
goes only with its endpoint, because a deletion has loaded rows of its own
endpoint only) and that ids are not reused (`SelectInv`).

A run of the verifier stays within its limit because all it selects, except the
oldest, are newer than the oldest (`NewestLimited`); a row deleted under it shifts
the places of the others without merging two (`ShiftPlaces`).

The chunker's two theorems are about recursive functions over all byte strings.
The library's induction theorems cannot be instantiated here, as they take an
operator; `UpTo` is induction over a set instead, proved from the well-foundedness
of `<` by a least counterexample (`ChainWalkReachesAll` uses the same argument),
and `RecursionExists` gives the recursive definitions their values. The rest is
arithmetic: with congruence modulo `Word`, `Shifted` relates the hash tables of
two windows one byte apart, `RolledHash` concludes that one step of the rolling
hash, each operation reduced, gives the hash of the next window from scratch, and
`RollInv` carries it along the chunk with the contents of the ring buffer. `ScanInv`
says that the scan has passed no stop. `ChunkSpec` is the loop started on any
byte string; the run starts it on all of bounded length.

The Merkle theorems are about lists of any length over any digests, pairs
included. `LayersAre` and `CollectIs` give the recursive functions their values,
by `UpTo` over the passes and over the levels of the tree: a node is a leaf or
has both children on a lower level (`NodeKinds`). What the traversal returns is
in the list and no leaf of the other tree, always (`CollectSound`, from the
leaves up). That it misses nothing (`CollectComplete`) needs `Separated`: then a
hash the two trees share is a leaf's in both or an inner node's in both
(`HashKinds`), and a shared inner hash brings the hashes of both children along
(`HashDown`), so if the other tree lacks a leaf it lacks every node above that
leaf, and the way from the root down to it is never skipped. A root met in the
other tree brings all nodes below it along (`RootChunks`), so the chunks are the
same. For lists of one length the layers have the same lengths from the leaves
up, and a pass loses nothing of a list of known length (`PassInjective`,
`SameHashes`), so they are equal from the root down (`RootOfOne`): no condition
on the digests is needed, because leaf is compared with leaf. The length is
needed: a list and the same list with its odd tail repeated have one root.

The score adds deductions with `MapThenSumSet`. `SumExists` and `SumAny` give
the fold over any finite set its value, by induction over its subsets
(`SubsetInduction`), `SumUnique` and `SumGrows` the laws used. What a framework
can deduct is 25 points or more for each violation and 100 at most together
(`Scales`), so `max(0, .)` hides nothing, and of two sets of violations of which
one contains the other the smaller scores more (`FixRaises`). In the report one
violation costs at least 1250 hundredths of a point of one source (25 points of
one of two frameworks), and the tenant's average is rounded to one hundredth:
`FullScoreExact` assumes fewer than 2500 sources, and the bound is the best
there is, since from 2500 on such a violation can be rounded away and the report
shows 100 beside it.

## 5. What is only model-checked

Liveness under fairness (`JobsSettle`, `OverdueServed`, `DamageReported`,
`FanoutEnds`) is out of the prover's reach. Every safety invariant and action
property of the passing runs is proved as well.

## 6. Conditions the code does not enforce

Some properties hold only under a condition on what processes do, on the data or on
the size of the deployment. Each condition is a named formula, a history variable or
a case the property excepts; dropping it makes TLC find a violation.

| Condition | Needed by | What happens otherwise |
|---|---|---|
| `NoOverlap` | `Restorable` | The pruner finds no committed row for a chunk (`scheduler.py` 254) that a running backup has just taken for stored, and unlinks it; the backup then commits. |
| `NoSynthesis` | `Restorable` | A synthetic snapshot has no `BackupChunk` rows (`backups.py` 434-454), the only thing the collector counts; pruning the old chain unlinks its chunks. README 301 says "letting the operator safely prune the old chain without losing any data". `ChainSafeForBackups` is restricted to backups for the same reason. |
| `NoRollback` | `Restorable` | Chunks are unlinked before the commit (`scheduler.py` 255, 259); an exception brings the snapshots back without them. |
| `NoLateLock` | `LockedSurvive` | The lock is tested on objects loaded earlier (`scheduler.py` 217, 224): for the list, or in an earlier pass of the run over the same source. A snapshot that is the most recent in one pass, is then locked, and after another backup is the most recent no more, is deleted by the next pass. `snapshots.py` 69: "The snapshot cannot be deleted or pruned until lock_days have elapsed." |
| `NoLockedSourceDelete` | `LockedSurvive` | `delete_source` cascades without looking at locks (`sources.py` 110). |
| `NoLoss` | `JobsSettle`, `OverdueServed` | See `JobsStuck` below. |
| `~raced` | `AtomicWrite` | Writers of a digest share one temp name (`cas.py` 87): one truncates what the other is about to rename. `cas.py` 65: "The write is atomic". |
| `~faulted` | `TornHasWriter` | With the race above and a crash the incomplete chunk stays, and every later store is a dedup hit. |
| no synthesis while overdue | `OverdueServed` | The synthesis inserts a completed job of now (`backups.py` 427): the source is due no more though nothing was read. The property allows it as an escape. |
| the endpoint served is not deleted | `FanoutReachesAll`, `PostRecorded` | `_deliver` raises out of the loop (`webhooks.py` 153-154, 178), and the remaining endpoints get nothing. |
| the call met no database error (`end` is not `dberror`) | `FanoutReachesAll`, `PostRecorded` | The same for any other error of the commit or the refresh, such as an event type of more than 64 characters, which nothing validates (`webhooks.py` 86; `models/webhook.py` 39): the POST is not recorded though its endpoint is there. 116-117: "Records a WebhookDelivery row regardless of HTTP outcome. Never raises". |
| no failed checks (`failed` is 0) | the limit itself | `WindowLimit` allows `Rpm` and one request more for each check that raised: `enforce_rate_limit` lets these through (`rate_limit.py` 55-56), counted or not. |
| `Separated` | the second halves of `DiffIsSetDifference` and `RootSeparates`; `PersistSnapshot` of `SnapshotStore` | `merkle.py` 35-36 and 44 do not tell leaves from inner nodes. A chunk that is the hex text of two digests has the hash of the node above these two: `diff` skips it against a tree that has them, so it gets no `BackupChunk` row, and the list of this one chunk has the root of the list of the two. |
| no empty chunk (`EmptyRoot`) | the second half of `RootSeparates` | The root of the empty list is the digest of the empty chunk (`merkle.py` 73). |
| same classification | `EveryFixCounts` | A source reclassified from PII to internal loses its HIPAA violations and with them a HIPAA score that may be above its SOC 2 score: the average falls. |
| `Capacity` | `DamageReported` | A run takes the newest due snapshots (`scheduler.py` 298-299), so new ones and verified ones that are due again after seven days go before an old one that was never verified. At 100 places a day, 100 new snapshots a day, or 700 to 800 snapshots in all, leave it none, ever. Snapshots without manifest are skipped without being marked (313) and take a place in every run. |
| `RunsSucceed` | `DamageReported` | A snapshot deleted under a run undoes the whole run (337, 343); if one is every day, no result is ever written. |
| export is `Settled` | `ExportVerifies` | Verification repeats the query, so an open export stops verifying with the next event; and rows become visible in commit order, so one with `created_at` before `until` may appear after the export. |
| agreement is up to conversion (`Column`) | `UpdateAgrees` | Columns hold what the document's values convert to (`policies.py` 20-25), which need not be what the document seems to say: `require_checksum: "false"` is stored as true, `frequency_minutes: 60.9` as 60, and the schema checks only that keys are present (`schemas/policy.py` 20-23). |
| update meets the row it loaded | `UpdateAgrees` | Two overlapping updates: one changes the frequency, the other, whose document has the old frequency, another setting; its UPDATE omits the frequency, so the row shows the second document with the first one's frequency. |

## 7. Disagreements shown by a run

* **`StoreRetention`.** `scheduler.py` 175: "Deletes snapshots older than the
  source's policy retention_days". Expired snapshots are visited oldest first,
  and the oldest of an incremental chain is its successor's parent
  (`models/backup.py` 48). The DELETE violates the foreign key, the run ends for
  all sources, and the next one meets the same row. The repository's tests use
  SQLite without foreign keys and do not see it.
* **`JobsStuck`.** README 248: "Dispatch overdue backup jobs". A job left
  `pending` by an API process that died before `delay`, or `running` by a dead
  worker, is changed by nobody, and the dedup guard (`scheduler.py` 84) skips its
  source for ever.

Smaller ones, seen in the same models without a run of their own: a job waiting
for its retry has status `failed`, so the guard lets a second one through and a
status stream ends early (`backup_worker.py` 383; `ws.py` 5 "until the job
reaches a terminal state"); a retry after the snapshot's commit commits a second
snapshot for a job whose relation is a scalar (`backup_worker.py` 248, 387;
`models/backup.py` 38); the guard's `continue` skips the RPO alert
(`scheduler.py` 95; README 258); a lost EXPIRE leaves a tenant rejected for ever
(`rate_limit.py` 29; README 335 "the TTL is set atomically"); a list and the
same list with its odd tail repeated have one Merkle root (`merkle.py` 51-52;
README 201), and a chunk that spells two digests has the hash of their node
(`merkle.py` 100-102 "the entire subtree rooted there is identical"); a snapshot
may wait for its verification for ever (`scheduler.py` 298-299; 275 "Finds
snapshots that have never been verified"); the verifier hashes only the
database's manifest (`scheduler.py` 318; README 288 "silent data corruption");
two attach requests may both insert (`policies.py` 152); an endpoint deleted
during a delivery makes `_deliver` raise (`webhooks.py` 153; 116-117 "regardless
of HTTP outcome. Never raises"); locking again with fewer days shortens a lock
(`snapshots.py` 73; 70 "Re-locking extends the expiry"); an evaluator run that
fails after a dispatch loses the row's RPO alert (`scheduler.py` 124-139); the
smallest chunk cut by content has `MIN_CHUNK + 1` bytes, because the test
follows the byte (`cdc.py` 85-99); synthesize-full passes an integer as the
event's `resource_id` (`backups.py` 457; `audit.py` 21 "str | None"), which
SQLite stores and asyncpg refuses for a VARCHAR, so that on the deployed driver
its commit fails: the models follow the tests, where it succeeds.

## 8. Not modelled

* Anomaly statistics and entropy (`entropy.py`, `backup_worker.py` 250-357):
  floating point, out of TLC's reach. Their place in `run_backup`, after the
  snapshot's commit and before completion, is in `JobOrchestrator`; the functions
  of `anomaly_service.py` have no caller.
* Catalog, browse, history, analytics, `estimate_restore`: read-only queries.
* Expiry dates of locks: in `SnapshotStore` a lock may end at any moment, which
  covers every date.
* Authentication (library calls; every handler filters by tenant in one WHERE
  clause), configuration, start-up, migrations, the demo script.
* What the score ignores: it is given the last snapshot and does not use it, and
  it does not look at a policy's `is_active` (`compliance_service.py` 27), so a
  source that has never been backed up, under a policy that is switched off,
  scores 100.
* Contents of restored files: every attempt truncates and rewrites them.

## 9. Plan

Done: the data path first (`SnapshotStore` with its abstract specification and
proofs), then the job life cycle, the CAS, rate limiter, Merkle tree, verifier
and control plane; then several policies, syntheses and alerts in
`JobOrchestrator`, lost restores, garbage and chain depths in `SnapshotStore`,
the CAS with all its faults in one specification, webhooks, CDC and the score.

Proofs have followed the models: first the data path, the jobs, the CAS and the
rate limiter, then garbage and chain depths, control plane, webhooks, verifier and
chunker, then the Merkle tree, the score and the one-step effect of the CAS calls.

Then the parts of the code that made the models easier than the program: one domain
for chunk digests and inner hashes, checks of the rate limiter that fail, database
errors during deliveries, an endless supply of snapshots for the verifier, the
conversions of a policy's values, and the objects a prune run reuses.

Left: a module that composes `CasStore` with the data path of `SnapshotStore`, so
that the race of two stores of a digest meets backups and restores in one
specification. `CallsTakeEffect` justifies the one-step `StoreChunk` and
`PruneUnlink` only while no such race has happened.
