-------------------------- MODULE JobOrchestrator --------------------------
(***************************************************************************)
(* The life of a backup job: who creates it, how its Celery task is        *)
(* dispatched, executed, retried or lost, and what the scheduler and the   *)
(* WebSocket stream conclude from its status column.                       *)
(*                                                                         *)
(*   trigger_backup, synthesize_full_backup     app/api/backups.py         *)
(*   evaluate_all_policies, _dispatch_backup    app/core/scheduler.py      *)
(*   run_backup             app/workers/backup_worker.py (control only;    *)
(*                          what it stores is in SnapshotStore)            *)
(*   job_status_ws          app/api/ws.py                                  *)
(*   resolve_alert          app/api/anomalies.py                           *)
(*                                                                         *)
(* Time is the number of clock units since a source's last completed       *)
(* backup, saturating above every threshold the code compares it with.     *)
(* The evaluator visits (source, policy) rows.  A policy attached twice by *)
(* two racing requests is a second policy with the same settings.          *)
(* A row no process can refer to any more frees its slot, so that finitely *)
(* many slots stand for any number of jobs.                                *)
(***************************************************************************)
EXTENDS Naturals

CONSTANTS
    Sources,
    Policies,
    Attachments,  \* the evaluator's rows: active policies attached to sources
    Slots,        \* job rows that some process can still refer to
    Streams,      \* slots whose status a client follows
    MaxRetries,   \* max_retries of the run_backup task
    Freq,         \* policy.frequency_minutes of each, in clock units
    Rpo,          \* policy.rpo_minutes of each, in clock units
    AgeCap        \* bound: where the age of the last backup saturates

ASSUME JobAssumption ==
    /\ MaxRetries \in Nat /\ AgeCap \in Nat
    /\ Freq \in [Policies -> Nat] /\ Rpo \in [Policies -> Nat]
    /\ \A p \in Policies : AgeCap > Rpo[p] /\ AgeCap > 3 * Freq[p]
    /\ Attachments \subseteq Sources \X Policies

VARIABLES
    job,          \* backup_jobs rows with their Celery task
    done,         \* sources with a completed job
    age,          \* time since the completion of the last one
    snapped,      \* sources with a snapshot
    eval,         \* "idle" or "loop": the policy evaluator
    etodo,        \* (source, policy) rows it still has to visit
    edisp,        \* the slot whose task it is dispatching, or None
    epend,        \* alerts added to its session, not committed
    alerts,       \* unresolved alerts
    seen          \* what a client's status stream last said about a slot

evalVars == <<eval, etodo, edisp, epend, alerts>>
vars     == <<job, done, age, snapped, evalVars, seen>>

None == 0

\* task: "dispatching" between the commit of the row and run_backup.delay,
\* "queued" in the broker (also while a retry waits for its countdown),
\* "begun" and "persisted" while executing before and after the snapshot's
\* commit, "gone" when no task exists.  by: who created the job.  attempts and
\* snaps count executions and the snapshots they committed.
JobRec == [status : {"none", "pending", "running", "completed", "failed"},
           task : {"gone", "dispatching", "queued", "begun", "persisted"},
           source : Sources \cup {None}, by : {"api", "scheduler"},
           attempts : 0..(MaxRetries + 1), snaps : 0..(MaxRetries + 1)]

NoJob == [status |-> "none", task |-> "gone", source |-> None, by |-> "api",
          attempts |-> 0, snaps |-> 0]

NewJob(a, who) == [status |-> "pending", task |-> "dispatching", source |-> a, by |-> who,
                   attempts |-> 0, snaps |-> 0]

Init ==
    /\ job  = [j \in Slots |-> NoJob]
    /\ done = {}
    /\ age  = [a \in Sources |-> 0]
    /\ snapped = {}
    /\ eval = "idle" /\ etodo = {} /\ edisp = None /\ epend = {} /\ alerts = {}
    /\ seen = [j \in Slots |-> "none"]

-----------------------------------------------------------------------------
(* Creation and dispatch.                                                  *)

\* trigger_backup: insert the row as pending and commit.
ApiCreate(j, a) ==
    /\ job[j].status = "none"
    /\ job' = [job EXCEPT ![j] = NewJob(a, "api")]
    /\ UNCHANGED <<done, age, snapped, evalVars, seen>>

\* run_backup.delay succeeds.
DispatchScheduled(j) ==                                               \* mutant
    /\ job[j].task = "dispatching" /\ edisp = j
    /\ job'   = [job EXCEPT ![j].task = "queued"]
    /\ edisp' = None
    /\ UNCHANGED <<done, age, snapped, eval, etodo, epend, alerts, seen>>
Dispatch(j) ==
    /\ job[j].task = "dispatching"
    /\ job'   = [job EXCEPT ![j].task = "queued"]
    /\ edisp' = IF edisp = j THEN None ELSE edisp
    /\ UNCHANGED <<done, age, snapped, eval, etodo, epend, alerts, seen>>

\* run_backup.delay raises, the broker is down: the job is failed.
DispatchFail(j) ==
    /\ job[j].task = "dispatching"
    /\ job'   = [job EXCEPT ![j].task = "gone", ![j].status = "failed"]
    /\ edisp' = IF edisp = j THEN None ELSE edisp
    /\ UNCHANGED <<done, age, snapped, eval, etodo, epend, alerts, seen>>

\* The API process dies between the commit of a row and its dispatch; the
\* evaluator dies with it.
ApiCrash ==
    /\ \E j \in Slots : job[j].task = "dispatching"
    /\ job' = [j \in Slots |->
                 IF job[j].task = "dispatching" THEN [job[j] EXCEPT !.task = "gone"] ELSE job[j]]
    /\ eval' = "idle" /\ etodo' = {} /\ edisp' = None /\ epend' = {}
    /\ UNCHANGED <<done, age, snapped, alerts, seen>>

-----------------------------------------------------------------------------
(* Execution by a worker.                                                  *)

TaskBegin(j) ==
    /\ job[j].task = "queued"
    /\ job' = [job EXCEPT ![j] = [@ EXCEPT !.task = "begun", !.status = "running",
                                           !.attempts = job[j].attempts + 1]]
    /\ UNCHANGED <<done, age, snapped, evalVars, seen>>

\* The snapshot is committed; anomaly detection follows.
TaskPersistCompleted(j) ==                                            \* mutant
    /\ job[j].task = "begun"
    /\ job' = [job EXCEPT ![j] = [@ EXCEPT !.task = "persisted", !.status = "completed",
                                           !.snaps = job[j].snaps + 1]]
    /\ snapped' = snapped \cup {job[j].source}
    /\ UNCHANGED <<done, age, evalVars, seen>>
TaskPersist(j) ==
    /\ job[j].task = "begun"
    /\ job' = [job EXCEPT ![j] = [@ EXCEPT !.task = "persisted", !.snaps = job[j].snaps + 1]]
    /\ snapped' = snapped \cup {job[j].source}
    /\ UNCHANGED <<done, age, evalVars, seen>>

TaskCompleteEarly(j) ==                                               \* mutant
    /\ job[j].task \in {"begun", "persisted"}
    /\ job'  = [job EXCEPT ![j] = [@ EXCEPT !.task = "gone", !.status = "completed"]]
    /\ done' = done \cup {job[j].source}
    /\ age'  = [age EXCEPT ![job[j].source] = 0]
    /\ UNCHANGED <<snapped, evalVars, seen>>
TaskComplete(j) ==
    /\ job[j].task = "persisted"
    /\ job'  = [job EXCEPT ![j] = [@ EXCEPT !.task = "gone", !.status = "completed"]]
    /\ done' = done \cup {job[j].source}
    /\ age'  = [age EXCEPT ![job[j].source] = 0]
    /\ UNCHANGED <<snapped, evalVars, seen>>

\* self.retry queues the task again while retries are left.
MayRetryOnceMore(j) == job[j].attempts <= MaxRetries + 1              \* mutant
MayRetry(j) == job[j].attempts <= MaxRetries

\* An exception in the body of run_backup, before or after the snapshot's
\* commit: the status becomes failed, then the task is retried unless retries
\* are exhausted or the broker refuses the message.
TaskFail(j) ==
    /\ job[j].task \in {"begun", "persisted"}
    /\ \E next \in IF MayRetry(j) THEN {"queued", "gone"} ELSE {"gone"} :
          job' = [job EXCEPT ![j] = [@ EXCEPT !.status = "failed", !.task = next]]
    /\ UNCHANGED <<done, age, snapped, evalVars, seen>>

\* The worker process dies (the message was acknowledged when execution began),
\* or the exception came from a flush, so that the handler's own db.get raises
\* and neither the status nor a retry is written.
TaskLost(j) ==
    /\ job[j].task \in {"begun", "persisted"}
    /\ job' = [job EXCEPT ![j].task = "gone"]
    /\ UNCHANGED <<done, age, snapped, evalVars, seen>>

\* No process refers to the finished row any more.
Recycle(j) ==
    /\ job[j].status \in {"completed", "failed"}
    /\ job[j].task = "gone"
    /\ job'  = [job EXCEPT ![j] = NoJob]
    /\ seen' = [seen EXCEPT ![j] = "none"]
    /\ UNCHANGED <<done, age, snapped, evalVars>>

-----------------------------------------------------------------------------
(* Other routes that write what the evaluator reads.                       *)

\* synthesize_full_backup: the copy of the latest snapshot comes with a job that
\* is inserted as completed now; no task and no client ever refers to it.
SynthFull(a) ==
    /\ a \in snapped
    /\ done' = done \cup {a}
    /\ age'  = [age EXCEPT ![a] = 0]
    /\ UNCHANGED <<job, snapped, evalVars, seen>>

\* resolve_alert, of the last unresolved alert of its kind.
ResolveAlert(alert) ==
    /\ alerts' = alerts \ {alert}
    /\ UNCHANGED <<job, done, age, snapped, eval, etodo, edisp, epend, seen>>

-----------------------------------------------------------------------------
(* evaluate_all_policies.                                                  *)

\* A clock unit passes.  A run of the evaluator reads the clock once, at its
\* start, and takes no clock unit.
Tick ==
    /\ eval = "idle"
    /\ age' = [a \in Sources |-> IF age[a] < AgeCap THEN age[a] + 1 ELSE age[a]]
    /\ UNCHANGED <<job, done, snapped, evalVars, seen>>

EvalBegin ==
    /\ eval = "idle"
    /\ eval'  = "loop"
    /\ etodo' = Attachments
    /\ UNCHANGED <<job, done, age, snapped, edisp, epend, alerts, seen>>

\* The dedup guard: a pending or running job of the source.
ActivePendingOnly(a) ==                                               \* mutant
    \E j \in Slots : job[j].source = a /\ job[j].status = "pending"
Active(a) == \E j \in Slots : job[j].source = a /\ job[j].status \in {"pending", "running"}

\* Alerts the visit of a row adds to the session.
NewAlerts(a, p) ==
    {<<a, kind>> : kind \in {k \in {"rpo", "gap"} :
        age[a] > (IF k = "rpo" THEN Rpo[p] ELSE 3 * Freq[p])}}

\* The guard skips the whole row, its alert checks included.
EvalSkip(a, p) ==
    /\ eval = "loop" /\ edisp = None
    /\ <<a, p>> \in etodo
    /\ Active(a)
    /\ etodo' = etodo \ {<<a, p>>}
    /\ UNCHANGED <<job, done, age, snapped, eval, edisp, epend, alerts, seen>>

\* No completed job yet, or the frequency has passed.
DueAgain(a, p) == a \in done /\ age[a] >= Freq[p]                        \* mutant
Due(a, p) == a \notin done \/ age[a] >= Freq[p]

\* _dispatch_backup inserts a job and commits, which also commits the alerts of
\* earlier rows.  A source without a completed job gets no alert.
EvalDispatch(a, p, j) ==
    /\ eval = "loop" /\ edisp = None
    /\ <<a, p>> \in etodo
    /\ ~Active(a)
    /\ Due(a, p)
    /\ job[j].status = "none"
    /\ job'    = [job EXCEPT ![j] = NewJob(a, "scheduler")]
    /\ edisp'  = j
    /\ etodo'  = etodo \ {<<a, p>>}
    /\ alerts' = alerts \cup epend
    /\ epend'  = IF a \in done THEN NewAlerts(a, p) ELSE {}
    /\ UNCHANGED <<done, age, snapped, eval, seen>>

\* Not yet due.
EvalWait(a, p) ==
    /\ eval = "loop" /\ edisp = None
    /\ <<a, p>> \in etodo
    /\ ~Active(a)
    /\ a \in done /\ ~Due(a, p)
    /\ etodo' = etodo \ {<<a, p>>}
    /\ epend' = epend \cup NewAlerts(a, p)
    /\ UNCHANGED <<job, done, age, snapped, eval, edisp, alerts, seen>>

EvalCommit ==
    /\ eval = "loop" /\ edisp = None
    /\ etodo = {}
    /\ eval'   = "idle"
    /\ alerts' = alerts \cup epend
    /\ epend'  = {}
    /\ UNCHANGED <<job, done, age, snapped, etodo, edisp, seen>>

\* Any exception outside the dispatch: the run ends, uncommitted alerts are lost.
EvalFail ==
    /\ eval = "loop" /\ edisp = None
    /\ eval' = "idle" /\ etodo' = {} /\ epend' = {}
    /\ UNCHANGED <<job, done, age, snapped, edisp, alerts, seen>>

-----------------------------------------------------------------------------
(* job_status_ws: a client follows a job until its status is terminal.     *)

WsPoll(j) ==
    /\ j \in Streams
    /\ job[j].status # "none"
    /\ seen[j] \notin {"completed", "failed"}
    /\ seen' = [seen EXCEPT ![j] = job[j].status]
    /\ UNCHANGED <<job, done, age, snapped, evalVars>>

-----------------------------------------------------------------------------
Task(j) == TaskBegin(j) \/ TaskPersist(j) \/ TaskComplete(j) \/ TaskFail(j)

Next ==
    \/ \E j \in Slots :
          \/ \E a \in Sources : ApiCreate(j, a)
          \/ Dispatch(j)
          \/ DispatchFail(j)
          \/ Task(j)
          \/ TaskLost(j)
          \/ Recycle(j)
          \/ WsPoll(j)
    \/ ApiCrash
    \/ Tick
    \/ EvalBegin
    \/ \E a \in Sources, p \in Policies :
          \/ EvalSkip(a, p)
          \/ \E j \in Slots : EvalDispatch(a, p, j)
          \/ EvalWait(a, p)
    \/ EvalCommit
    \/ EvalFail
    \/ \E a \in Sources : SynthFull(a)
    \/ \E alert \in alerts : ResolveAlert(alert)

Spec == Init /\ [][Next]_vars

-----------------------------------------------------------------------------
(* Fairness.                                                               *)

\* Time passes, APScheduler keeps starting the evaluator, workers take tasks
\* and finish them, a handler past its commit goes on to the dispatch.  The
\* broker is not down at every dispatch and the evaluator does not raise on
\* every run, hence strong fairness for those two; time passes between runs of
\* the evaluator, hence strong fairness for Tick.
Fairness ==
    /\ SF_vars(Tick)
    /\ WF_vars(EvalBegin)
    /\ WF_vars(EvalCommit)
    /\ \A a \in Sources : \A p \in Policies :
          /\ WF_vars(EvalSkip(a, p))
          /\ WF_vars(EvalWait(a, p))
          /\ SF_vars(\E j \in Slots : EvalDispatch(a, p, j))
    /\ \A a \in Sources : \A j \in Slots : SF_vars(job[j].source = a /\ Dispatch(j))
    /\ \A j \in Slots :
          /\ WF_vars(Task(j))
          /\ WF_vars(Recycle(j))

FairSpec == Spec /\ Fairness

\* No process dies, and no exception leaves the session unusable, between two
\* writes of a job's status.
NoLoss ==
    \A j \in Slots :
        job[j].task # "gone" /\ job'[j].task = "gone" =>
            job'[j].status \in {"completed", "failed"}

LossFreeSpec == Init /\ [][Next /\ NoLoss]_vars /\ Fairness

-----------------------------------------------------------------------------
(* Properties of the program as it is.                                     *)

\* Every variable has its type; in particular no job is executed more than
\* max_retries + 1 times (backup_worker.py 69, 386-389).
TypeOK ==
    /\ job \in [Slots -> JobRec]
    /\ done \subseteq Sources
    /\ age \in [Sources -> 0..AgeCap]
    /\ eval \in {"idle", "loop"}
    /\ snapped \subseteq Sources
    /\ etodo \subseteq Attachments
    /\ edisp \in Slots \cup {None}
    /\ epend \subseteq Sources \X {"rpo", "gap"}
    /\ alerts \subseteq Sources \X {"rpo", "gap"}
    /\ seen \in [Slots -> {"none", "pending", "running", "completed", "failed"}]
    /\ \A j \in Slots : job[j].status # "none" => job[j].source \in Sources

\* A completed job has a snapshot, whatever attempts failed or were lost
\* before (backup_worker.py 248 before 362-367).
CompletedHasSnapshot ==
    \A j \in Slots : job[j].status = "completed" => job[j].snaps > 0

\* The dedup guard, for jobs that have not failed yet: of the jobs the
\* scheduler created for a source, at most one is pending or in its first
\* execution (scheduler.py 80-95), however slowly dispatch, worker and
\* evaluator run.
FirstAttempt(j) ==
    /\ job[j].by = "scheduler"
    /\ job[j].status \in {"pending", "running"}
    /\ job[j].attempts <= 1

FirstAttemptOnce ==
    \A i, j \in Slots :
        FirstAttempt(i) /\ FirstAttempt(j) /\ job[i].source = job[j].source => i = j

\* A stream that ended with "completed" told the truth: the job stays completed
\* (ws.py 69-70).
StreamTruth == \A j \in Slots : seen[j] = "completed" => job[j].status = "completed"

\* Every job that is pending or running gets a terminal status, if no process
\* dies (backup_worker.py 362-389, backups.py 55-66).
JobsSettle ==
    \A j \in Slots :
        job[j].status \in {"pending", "running"} ~>
            job[j].status \notin {"pending", "running"}

Overdue(a, p) == a \notin done \/ age[a] >= Freq[p]

\* "Dispatch overdue backup jobs" (README.md 248): a source that is due by one
\* of its policies has a backup begin sooner or later (scheduler.py 113-125),
\* unless a synthetic full, which reads no data, is taken for its last backup
\* (backups.py 427) and it is due no more.
OverdueServed ==
    \A r \in Attachments :
        Overdue(r[1], r[2]) ~>
            \/ \E j \in Slots : job[j].source = r[1] /\ job[j].task = "begun"
            \/ ~Overdue(r[1], r[2])
=============================================================================
