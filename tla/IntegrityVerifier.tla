------------------------- MODULE IntegrityVerifier -------------------------
(***************************************************************************)
(* The daily job verify_snapshot_integrity (app/core/scheduler.py): which  *)
(* snapshots it picks, what it compares, and what it writes, while         *)
(* snapshots come and go for ever.                                         *)
(*                                                                         *)
(* The rows of backup_snapshots are a sequence in created_at order, from   *)
(* which deleted ones drop out.  The job reads no chunk, so the state of   *)
(* the CAS plays no part; what it can find is a manifest in the database   *)
(* that no longer hashes to the stored root (DamageManifest).  A run of    *)
(* the job happens once a day, so days are counted in runs.                *)
(***************************************************************************)
EXTENDS Naturals, FiniteSets, Sequences, SequencesExt

CONSTANTS
    MaxSnaps,     \* bound: snapshots at one time
    MaxNew,       \* bound: snapshots created between the beginnings of two runs
    MaxEmpty,     \* bound: snapshots without SnapshotFile rows at one time
    Limit,        \* snapshots per run (100 in the code)
    Days          \* runs that pass a verified snapshot by before it is due again
                  \* (7 days: 6 or 7 runs, as the clock falls)

ASSUME VerifierAssumption == MaxNew \in Nat /\ Limit \in Nat /\ Days \in Nat

VARIABLES
    snaps,        \* the backup_snapshots rows, oldest first
    made,         \* snapshots created since a run began
    vpc,          \* "idle" or "run"
    vsel,         \* places in snaps of the rows the current run selected
    vlost         \* a row that the run has read was deleted under it

vars == <<snaps, made, vpc, vsel, vlost>>

\* files: it has SnapshotFile rows (a backup of an empty or missing path has
\* none).  match: the root of its manifest is the stored merkle_root.  left: runs
\* that will still pass it by.
SnapRec == [files : BOOLEAN, match : BOOLEAN,
            status : {"none", "passed", "failed"}, left : 0..Days]

Damaged == {s \in DOMAIN snaps : ~snaps[s].match}
Empty   == {s \in DOMAIN snaps : ~snaps[s].files}

Init == snaps = <<>> /\ made = 0 /\ vpc = "idle" /\ vsel = {} /\ vlost = FALSE

\* run_backup or synthesize-full commits a snapshot.
Create(files) ==
    /\ Len(snaps) < MaxSnaps /\ made < MaxNew
    /\ ~files => Cardinality(Empty) < MaxEmpty
    /\ snaps' = Append(snaps, [files |-> files, match |-> TRUE, status |-> "none", left |-> 0])
    /\ made'  = made + 1
    /\ UNCHANGED <<vpc, vsel, vlost>>

\* The pruner or delete_source removes a snapshot.  One the current run has
\* selected it may have read already, with its manifest, or not.
DeleteSnapshot(s) ==
    /\ s \in DOMAIN snaps
    /\ snaps' = RemoveAt(snaps, s)
    /\ vsel'  = {IF t > s THEN t - 1 ELSE t : t \in vsel \ {s}}
    /\ vlost' \in {vlost, vlost \/ (s \in vsel /\ snaps[s].files)}
    /\ UNCHANGED <<made, vpc>>

\* One is damaged at a time: the job treats every snapshot by itself.
DamageManifest(s) ==
    /\ s \in DOMAIN snaps
    /\ snaps[s].files
    /\ Damaged = {}
    /\ snaps' = [snaps EXCEPT ![s].match = FALSE]
    /\ UNCHANGED <<made, vpc, vsel, vlost>>

-----------------------------------------------------------------------------
\* Never verified, or verified too long ago.
DueNeverVerified == {s \in DOMAIN snaps : snaps[s].status = "none"}   \* mutant
Due == {s \in DOMAIN snaps : snaps[s].status = "none" \/ snaps[s].left = 0}

\* ORDER BY created_at DESC LIMIT Limit.
NewestPlus(S) == {s \in S : Cardinality({t \in S : t > s}) <= Limit}  \* mutant
Newest(S) == {s \in S : Cardinality({t \in S : t > s}) < Limit}

VerifierBegin ==
    /\ vpc = "idle"
    /\ vpc'  = "run"
    /\ vsel' = Newest(Due)
    /\ made' = 0
    /\ UNCHANGED <<snaps, vlost>>

\* The root is recomputed from the manifest in the database and compared with
\* the stored root; snapshots without manifest are skipped and stay due.
Outcome(s) == IF snaps[s].match THEN "passed" ELSE "failed"

Verified(s) == s \in vsel /\ snaps[s].files

\* A day later.
Aged(s) == [snaps[s] EXCEPT !.left = IF @ > 0 THEN @ - 1 ELSE 0]

\* All outcomes are written in one transaction.
VerifierCommit ==
    /\ vpc = "run"
    /\ ~vlost
    /\ snaps' = [s \in DOMAIN snaps |->
                   IF Verified(s) THEN [snaps[s] EXCEPT !.status = Outcome(s), !.left = Days]
                   ELSE Aged(s)]
    /\ vpc' = "idle" /\ vsel' = {}
    /\ UNCHANGED <<made, vlost>>

\* The UPDATE of a row that was deleted meanwhile matches nothing, which raises;
\* or there is another exception.  Nothing is written, the next run is tomorrow.
VerifierFail ==
    /\ vpc = "run"
    /\ snaps' = [s \in DOMAIN snaps |-> Aged(s)]
    /\ vpc' = "idle" /\ vsel' = {} /\ vlost' = FALSE
    /\ UNCHANGED made

Next ==
    \/ \E files \in BOOLEAN : Create(files)
    \/ \E s \in DOMAIN snaps : DeleteSnapshot(s)
    \/ \E s \in DOMAIN snaps : DamageManifest(s)
    \/ VerifierBegin
    \/ VerifierCommit
    \/ VerifierFail

\* APScheduler starts the job every day and a run ends one way or the other.
Fairness == WF_vars(VerifierBegin) /\ WF_vars(VerifierCommit \/ VerifierFail)

Spec == Init /\ [][Next]_vars /\ Fairness

-----------------------------------------------------------------------------
(* Conditions on the deployment.                                           *)

\* The runs can keep up.  Newest first means that a snapshot waits for all newer
\* ones that are due.  Each of these is verified at most once in Days + 1 runs,
\* and as many runs leave room for the snapshot unless the ones there at the
\* beginning and the ones created meanwhile fill them; those without manifest
\* take a place in every run.
Capacity ==
    /\ MaxEmpty < Limit
    /\ (MaxSnaps - 1 - MaxEmpty) + MaxNew * (Days + 1) < (Limit - MaxEmpty) * (Days + 1)

\* Runs do not fail for ever, and a run that fails loses its day.
RunsSucceed == <>[][~VerifierFail]_vars

SteadySpec == Spec /\ Capacity /\ RunsSucceed

-----------------------------------------------------------------------------
\* Every variable has its type, and a run works on at most Limit snapshots
\* ("Up to 100 snapshots are processed per run", scheduler.py 280), also while
\* others are deleted under it.
TypeOK ==
    /\ snaps \in Seq(SnapRec)
    /\ made \in 0..MaxNew
    /\ vpc \in {"idle", "run"}
    /\ vsel \subseteq DOMAIN snaps /\ Cardinality(vsel) <= Limit
    /\ vlost \in BOOLEAN

\* "Any mismatch is ... recorded in verification_status so operators can act on
\* it" (scheduler.py 277-278), where the runs can keep up and go on succeeding
\* (SteadySpec): a damaged manifest is reported sooner or later or its snapshot
\* is gone, though snapshots are created for ever, runs take the newest first and
\* no more than Limit (298-299), and some places go to snapshots they skip.
DamageReported ==
    (Damaged # {}) ~> (\A s \in Damaged : snaps[s].status = "failed")
=============================================================================
