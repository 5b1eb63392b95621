----------------------- MODULE JobOrchestratorProofs -----------------------
(***************************************************************************)
(* Proofs about JobOrchestrator, for any sources, number of job rows,      *)
(* retry bound and policy.  The inductive invariant JobInv says which      *)
(* status, attempt count and snapshot count go with each stage of a task   *)
(* (RowOK), for every row separately; FirstAttemptOnce is the one fact     *)
(* about two rows and follows because a retry never has attempts <= 1.     *)
(***************************************************************************)
EXTENDS JobOrchestrator, TLAPS

\* What the columns of one row say about its task.
RowOK(r) ==
    /\ r.status # "none" => r.source \in Sources
    /\ r.status = "none" => r.task = "gone"
    /\ r.status = "completed" => r.snaps > 0 /\ r.task = "gone"
    /\ r.task = "dispatching" => r.status = "pending" /\ r.attempts = 0
    /\ r.task = "queued" => \/ r.status = "pending" /\ r.attempts = 0
                            \/ r.status = "failed" /\ r.attempts > 0
    /\ r.task = "queued" => r.attempts <= MaxRetries
    /\ r.task = "begun" => r.status = "running" /\ r.attempts > 0 /\ r.snaps < r.attempts
    /\ r.task = "persisted" => r.status = "running" /\ r.attempts > 0 /\ r.snaps > 0
    /\ r.snaps <= r.attempts

JobInv ==
    /\ TypeOK
    /\ \A j \in Slots : RowOK(job[j])
    /\ StreamTruth
    /\ FirstAttemptOnce

-----------------------------------------------------------------------------
\* A step that writes one row keeps the facts about rows, if the new row is a
\* legal one, is a first attempt only if the old one was, and keeps source and
\* creator; or if no other row of its source is a first attempt.
LEMMA WriteRow ==
    ASSUME JobInv, NEW j \in Slots, NEW r \in JobRec, RowOK(r),
           job' = [job EXCEPT ![j] = r],
           \/ /\ r.source = job[j].source
              /\ r.by = job[j].by
              /\ r.status \in {"pending", "running"} /\ r.attempts <= 1 =>
                    job[j].status \in {"pending", "running"} /\ job[j].attempts <= 1
           \/ r.by = "api"
           \/ \A i \in Slots : job[i].source = r.source =>
                  job[i].status \notin {"pending", "running"}
    PROVE  /\ job' \in [Slots -> JobRec]
           /\ \A i \in Slots : RowOK(job'[i])
           /\ FirstAttemptOnce'
PROOF
<1>1. job \in [Slots -> JobRec] /\ \A i \in Slots : RowOK(job[i])
  BY DEF JobInv, TypeOK
<1>2. job'[j] = r /\ \A i \in Slots \ {j} : job'[i] = job[i]
  BY <1>1
<1>3. job' \in [Slots -> JobRec]
  BY <1>1
<1>4. \A i \in Slots : RowOK(job'[i])
  BY <1>1, <1>2
<1>5. FirstAttemptOnce'
  <2> SUFFICES ASSUME NEW i \in Slots, NEW k \in Slots, FirstAttempt(i)', FirstAttempt(k)',
                      job'[i].source = job'[k].source, i # k
               PROVE  FALSE
    BY DEF FirstAttemptOnce
  <2>1. i # j /\ k # j => FALSE
    BY <1>2 DEF JobInv, FirstAttemptOnce, FirstAttempt
  <2>2. ASSUME NEW m \in Slots, m # j, FirstAttempt(j)', FirstAttempt(m)',
               job'[j].source = job'[m].source
        PROVE  FALSE
    <3>1. FirstAttempt(m) /\ job[m].source = r.source
      BY <1>2, <2>2 DEF FirstAttempt
    <3>2. r.by = "scheduler" /\ r.status \in {"pending", "running"} /\ r.attempts <= 1
      BY <1>2, <2>2 DEF FirstAttempt
    <3>3. FirstAttempt(j) /\ job[j].source = r.source
      BY <3>1, <3>2 DEF FirstAttempt
    <3> QED
      BY <2>2, <3>1, <3>3 DEF JobInv, FirstAttemptOnce
  <2> QED
    BY <2>1, <2>2
<1> QED
  BY <1>3, <1>4, <1>5

\* The same for the whole invariant: a step that writes one row that was not
\* completed and leaves the streams alone.
LEMMA WriteRowInv ==
    ASSUME JobInv, NEW j \in Slots, NEW r \in JobRec, RowOK(r),
           job' = [job EXCEPT ![j] = r], seen' = seen,
           job[j].status # "completed",
           \/ /\ r.source = job[j].source
              /\ r.by = job[j].by
              /\ r.status \in {"pending", "running"} /\ r.attempts <= 1 =>
                    job[j].status \in {"pending", "running"} /\ job[j].attempts <= 1
           \/ r.by = "api"
           \/ \A i \in Slots : job[i].source = r.source =>
                  job[i].status \notin {"pending", "running"},
           done' \subseteq Sources, age' \in [Sources -> 0..AgeCap], snapped' \subseteq Sources,
           eval' \in {"idle", "loop"}, etodo' \subseteq Attachments,
           edisp' \in Slots \cup {None},
           epend' \subseteq Sources \X {"rpo", "gap"}, alerts' \subseteq Sources \X {"rpo", "gap"}
    PROVE  JobInv'
PROOF
<1>1. /\ job' \in [Slots -> JobRec]
      /\ \A i \in Slots : RowOK(job'[i])
      /\ FirstAttemptOnce'
  BY WriteRow
<1>2. TypeOK'
  BY <1>1 DEF TypeOK, JobInv, RowOK
<1>3. \A i \in Slots \ {j} : job'[i] = job[i]
  BY DEF JobInv, TypeOK
<1>4. StreamTruth'
  BY <1>3 DEF JobInv, StreamTruth
<1> QED
  BY <1>1, <1>2, <1>4 DEF JobInv

-----------------------------------------------------------------------------
(* Creation and dispatch.                                                  *)

\* A new row is legal.
LEMMA NewJobOK ==
    ASSUME NEW a \in Sources, NEW who \in {"api", "scheduler"}
    PROVE  NewJob(a, who) \in JobRec /\ RowOK(NewJob(a, who))
BY JobAssumption DEF NewJob, JobRec, RowOK

\* trigger_backup's row is pending, and is not one of the scheduler's.
LEMMA ApiCreateInv ==
    ASSUME JobInv, NEW j \in Slots, NEW a \in Sources, ApiCreate(j, a)
    PROVE  JobInv'
PROOF
<1>1. NewJob(a, "api") \in JobRec /\ RowOK(NewJob(a, "api")) /\ NewJob(a, "api").by = "api"
  BY NewJobOK DEF NewJob
<1>2. job[j].status # "completed"
  BY DEF ApiCreate
<1> QED
  BY <1>1, <1>2, WriteRowInv DEF ApiCreate, evalVars, JobInv, TypeOK

\* The row with another stage and status.
Staged(j, task, status) == [job[j] EXCEPT !.task = task, !.status = status]

\* A row with another stage and status: its other columns are as before.
LEMMA StagedFields ==
    ASSUME JobInv, NEW j \in Slots,
           NEW task \in {"gone", "dispatching", "queued", "begun", "persisted"},
           NEW status \in {"none", "pending", "running", "completed", "failed"}
    PROVE  /\ Staged(j, task, status) \in JobRec
           /\ Staged(j, task, status).task = task
           /\ Staged(j, task, status).status = status
           /\ Staged(j, task, status).source = job[j].source
           /\ Staged(j, task, status).by = job[j].by
           /\ Staged(j, task, status).attempts = job[j].attempts
           /\ Staged(j, task, status).snaps = job[j].snaps
           /\ RowOK(job[j])
           /\ job[j].attempts \in Nat /\ job[j].snaps \in Nat
PROOF
<1>1. job[j] \in JobRec /\ RowOK(job[j])
  BY DEF JobInv, TypeOK
<1>2. job[j].attempts \in Nat /\ job[j].snaps \in Nat
  BY <1>1, JobAssumption DEF JobRec
<1>3. Staged(j, task, status) \in JobRec
  BY <1>1 DEF JobRec, Staged
<1>4. /\ Staged(j, task, status).task = task
      /\ Staged(j, task, status).status = status
      /\ Staged(j, task, status).source = job[j].source
      /\ Staged(j, task, status).by = job[j].by
      /\ Staged(j, task, status).attempts = job[j].attempts
      /\ Staged(j, task, status).snaps = job[j].snaps
  BY <1>1 DEF JobRec, Staged
<1> QED
  BY <1>1, <1>2, <1>3, <1>4

\* Publishing the task keeps the invariant: the row stays pending.
LEMMA DispatchInv ==
    ASSUME JobInv, NEW j \in Slots, Dispatch(j)
    PROVE  JobInv'
PROOF
<1> DEFINE r == Staged(j, "queued", job[j].status)
<1>0. job[j].status \in {"none", "pending", "running", "completed", "failed"}
  BY DEF JobInv, TypeOK, JobRec
<1>1. /\ r \in JobRec /\ r.task = "queued" /\ r.status = job[j].status
      /\ r.source = job[j].source /\ r.by = job[j].by
      /\ r.attempts = job[j].attempts /\ r.snaps = job[j].snaps
      /\ RowOK(job[j])
  BY <1>0, StagedFields
<1>2. job[j].task = "dispatching" /\ job' = [job EXCEPT ![j] = r]
  BY DEF Dispatch, Staged, JobInv, TypeOK, JobRec
<1> HIDE DEF r
<1>3. RowOK(r) /\ job[j].status # "completed"
  BY <1>1, <1>2, JobAssumption DEF RowOK
<1> QED
  BY <1>1, <1>2, <1>3, WriteRowInv DEF Dispatch, JobInv, TypeOK

\* A failed publication keeps the invariant: the row is failed, without a task.
LEMMA DispatchFailInv ==
    ASSUME JobInv, NEW j \in Slots, DispatchFail(j)
    PROVE  JobInv'
PROOF
<1> DEFINE r == Staged(j, "gone", "failed")
<1>1. /\ r \in JobRec /\ r.task = "gone" /\ r.status = "failed"
      /\ r.source = job[j].source /\ r.by = job[j].by
      /\ r.attempts = job[j].attempts /\ r.snaps = job[j].snaps
      /\ RowOK(job[j])
  BY StagedFields
<1>2. job[j].task = "dispatching" /\ job' = [job EXCEPT ![j] = r]
  BY DEF DispatchFail, Staged, JobInv, TypeOK
<1> HIDE DEF r
<1>3. RowOK(r) /\ job[j].status # "completed"
  BY <1>1, <1>2, JobAssumption DEF RowOK
<1> QED
  BY <1>1, <1>2, <1>3, WriteRowInv DEF DispatchFail, JobInv, TypeOK

-----------------------------------------------------------------------------
(* Execution by a worker.                                                  *)

\* Starting an attempt keeps the invariant: it has one attempt more, within the
\* retries.
LEMMA TaskBeginInv ==
    ASSUME JobInv, NEW j \in Slots, TaskBegin(j)
    PROVE  JobInv'
PROOF
<1> DEFINE r == [job[j] EXCEPT !.task = "begun", !.status = "running",
                             !.attempts = job[j].attempts + 1]
<1>1. job[j] \in JobRec /\ RowOK(job[j]) /\ job[j].task = "queued"
  BY DEF JobInv, TypeOK, TaskBegin
<1>2. job[j].attempts \in 0..MaxRetries /\ job[j].snaps \in Nat /\ job[j].status # "completed"
  BY <1>1, JobAssumption DEF JobRec, RowOK
<1>. job[j].attempts + 1 \in 0..(MaxRetries + 1)
  BY <1>2, JobAssumption
<1>3. r \in JobRec
  BY <1>1 DEF JobRec
<1>4. /\ r.task = "begun" /\ r.status = "running" /\ r.attempts = job[j].attempts + 1
      /\ r.source = job[j].source /\ r.by = job[j].by /\ r.snaps = job[j].snaps
  BY <1>1 DEF JobRec
<1>5. job' = [job EXCEPT ![j] = r]
  BY DEF TaskBegin, JobInv, TypeOK
<1> HIDE DEF r
<1>6. RowOK(r)
  BY <1>1, <1>2, <1>4, JobAssumption DEF RowOK
<1>7. r.attempts <= 1 => job[j].status \in {"pending", "running"} /\ job[j].attempts <= 1
  BY <1>1, <1>2, <1>4, JobAssumption DEF RowOK
<1> QED
  BY <1>2, <1>3, <1>4, <1>5, <1>6, <1>7, WriteRowInv DEF TaskBegin, evalVars, JobInv, TypeOK

\* Committing the snapshot keeps the invariant: the attempt has a snapshot now.
LEMMA TaskPersistInv ==
    ASSUME JobInv, NEW j \in Slots, TaskPersist(j)
    PROVE  JobInv'
PROOF
<1> DEFINE r == [job[j] EXCEPT !.task = "persisted", !.snaps = job[j].snaps + 1]
<1>1. job[j] \in JobRec /\ RowOK(job[j]) /\ job[j].task = "begun"
  BY DEF JobInv, TypeOK, TaskPersist
<1>2. /\ job[j].attempts \in 0..(MaxRetries + 1) /\ job[j].snaps \in 0..MaxRetries
      /\ job[j].status = "running"
  BY <1>1, JobAssumption DEF JobRec, RowOK
<1>. job[j].snaps + 1 \in 0..(MaxRetries + 1)
  BY <1>2, JobAssumption
<1>3. r \in JobRec
  BY <1>1 DEF JobRec
<1>4. /\ r.task = "persisted" /\ r.snaps = job[j].snaps + 1 /\ r.status = job[j].status
      /\ r.source = job[j].source /\ r.by = job[j].by /\ r.attempts = job[j].attempts
  BY <1>1 DEF JobRec
<1>5. job' = [job EXCEPT ![j] = r]
  BY DEF TaskPersist, JobInv, TypeOK
<1> HIDE DEF r
<1>6. RowOK(r)
  BY <1>1, <1>2, <1>4, JobAssumption DEF RowOK
<1>7. snapped' \subseteq Sources
  BY <1>1, <1>2 DEF TaskPersist, JobInv, TypeOK, RowOK
<1> QED
  BY <1>2, <1>3, <1>4, <1>5, <1>6, <1>7, WriteRowInv DEF TaskPersist, evalVars, JobInv, TypeOK

\* Completion keeps the invariant: it follows the snapshot's commit and ends
\* the task.
LEMMA TaskCompleteInv ==
    ASSUME JobInv, NEW j \in Slots, TaskComplete(j)
    PROVE  JobInv'
PROOF
<1> DEFINE r == Staged(j, "gone", "completed")
<1>1. /\ r \in JobRec /\ r.task = "gone" /\ r.status = "completed"
      /\ r.source = job[j].source /\ r.by = job[j].by
      /\ r.attempts = job[j].attempts /\ r.snaps = job[j].snaps
      /\ RowOK(job[j])
  BY StagedFields
<1>2. job[j].task = "persisted" /\ job' = [job EXCEPT ![j] = r]
  BY DEF TaskComplete, Staged, JobInv, TypeOK
<1> HIDE DEF r
<1>3. RowOK(r) /\ job[j].status = "running" /\ job[j].source \in Sources
  BY <1>1, <1>2, JobAssumption DEF RowOK
<1>4. done' \subseteq Sources /\ age' \in [Sources -> 0..AgeCap]
  BY <1>3, JobAssumption DEF TaskComplete, JobInv, TypeOK
<1> QED
  BY <1>1, <1>2, <1>3, <1>4, WriteRowInv DEF TaskComplete, evalVars, JobInv, TypeOK

\* A failed attempt keeps the invariant: it is queued again only while retries
\* are left.
LEMMA TaskFailInv ==
    ASSUME JobInv, NEW j \in Slots, TaskFail(j)
    PROVE  JobInv'
PROOF
<1>0. PICK next \in IF MayRetry(j) THEN {"queued", "gone"} ELSE {"gone"} :
          job' = [job EXCEPT ![j] = [@ EXCEPT !.status = "failed", !.task = next]]
  BY DEF TaskFail
<1> DEFINE r == Staged(j, next, "failed")
<1>1. next \in {"queued", "gone"}
  BY <1>0
<1>2. /\ r \in JobRec /\ r.task = next /\ r.status = "failed"
      /\ r.source = job[j].source /\ r.by = job[j].by
      /\ r.attempts = job[j].attempts /\ r.snaps = job[j].snaps
      /\ RowOK(job[j])
  BY <1>1, StagedFields
<1>3. r = [job[j] EXCEPT !.status = "failed", !.task = next]
  BY DEF Staged, JobInv, TypeOK, JobRec
<1>4. job[j].task \in {"begun", "persisted"} /\ job' = [job EXCEPT ![j] = r]
  BY <1>0, <1>3 DEF TaskFail, JobInv, TypeOK
<1> HIDE DEF r
<1>5. next = "queued" => job[j].attempts <= MaxRetries
  BY <1>0 DEF MayRetry
<1>6. RowOK(r) /\ job[j].status = "running"
  BY <1>1, <1>2, <1>4, <1>5, JobAssumption DEF RowOK
<1> QED
  BY <1>2, <1>4, <1>6, WriteRowInv DEF TaskFail, evalVars, JobInv, TypeOK

\* A lost task keeps the invariant: its row stays as it is.
LEMMA TaskLostInv ==
    ASSUME JobInv, NEW j \in Slots, TaskLost(j)
    PROVE  JobInv'
PROOF
<1> DEFINE r == [job[j] EXCEPT !.task = "gone"]
<1>1. job[j] \in JobRec /\ RowOK(job[j]) /\ job[j].task \in {"begun", "persisted"}
  BY DEF JobInv, TypeOK, TaskLost
<1>2. r \in JobRec
  BY <1>1 DEF JobRec
<1>3. /\ r.task = "gone" /\ r.snaps = job[j].snaps /\ r.status = job[j].status
      /\ r.source = job[j].source /\ r.by = job[j].by /\ r.attempts = job[j].attempts
  BY <1>1 DEF JobRec
<1>4. job' = [job EXCEPT ![j] = r]
  BY DEF TaskLost, JobInv, TypeOK
<1> HIDE DEF r
<1>5. RowOK(r) /\ job[j].status = "running"
  BY <1>1, <1>3, JobAssumption DEF RowOK
<1> QED
  BY <1>2, <1>3, <1>4, <1>5, WriteRowInv DEF TaskLost, evalVars, JobInv, TypeOK

-----------------------------------------------------------------------------
(* Steps on several rows, on streams, or on none.                          *)

\* Forgetting a finished row keeps the invariant.
LEMMA RecycleInv ==
    ASSUME JobInv, NEW j \in Slots, Recycle(j)
    PROVE  JobInv'
PROOF
<1>1. NoJob \in JobRec /\ RowOK(NoJob) /\ NoJob.by = "api"
  BY JobAssumption DEF NoJob, JobRec, RowOK
<1>2. job' = [job EXCEPT ![j] = NoJob] /\ seen' = [seen EXCEPT ![j] = "none"]
  BY DEF Recycle
<1>3. /\ job' \in [Slots -> JobRec]
      /\ \A i \in Slots : RowOK(job'[i])
      /\ FirstAttemptOnce'
  BY <1>1, <1>2, WriteRow
<1>4. TypeOK'
  BY <1>2, <1>3 DEF Recycle, evalVars, TypeOK, JobInv, RowOK
<1>5. StreamTruth'
  BY <1>2 DEF JobInv, TypeOK, StreamTruth
<1> QED
  BY <1>3, <1>4, <1>5 DEF JobInv

\* A crash of the API process keeps the invariant: pending rows stay, without a
\* task.
LEMMA ApiCrashInv ==
    ASSUME JobInv, ApiCrash
    PROVE  JobInv'
PROOF
<1>1. job \in [Slots -> JobRec] /\ \A j \in Slots : RowOK(job[j])
  BY DEF JobInv, TypeOK
<1>2. ASSUME NEW j \in Slots
      PROVE  /\ job'[j] \in JobRec /\ RowOK(job'[j])
             /\ job'[j].status = job[j].status /\ job'[j].source = job[j].source
             /\ job'[j].by = job[j].by /\ job'[j].attempts = job[j].attempts
  <2> DEFINE r == [job[j] EXCEPT !.task = "gone"]
  <2>1. job[j] \in JobRec /\ RowOK(job[j])
    BY <1>1
  <2>2. r \in JobRec
    BY <2>1 DEF JobRec
  <2>3. /\ r.task = "gone" /\ r.snaps = job[j].snaps /\ r.status = job[j].status
        /\ r.source = job[j].source /\ r.by = job[j].by /\ r.attempts = job[j].attempts
    BY <2>1 DEF JobRec
  <2>4. job'[j] = IF job[j].task = "dispatching" THEN r ELSE job[j]
    BY DEF ApiCrash
  <2> HIDE DEF r
  <2>5. job[j].task = "dispatching" => RowOK(r)
    BY <2>1, <2>3, JobAssumption DEF RowOK
  <2> QED
    BY <2>1, <2>2, <2>3, <2>4, <2>5
<1>3. job' \in [Slots -> JobRec]
  <2>1. job' = [j \in Slots |-> job'[j]]
    BY DEF ApiCrash
  <2> QED
    BY <1>2, <2>1
<1>4. TypeOK'
  BY <1>2, <1>3 DEF ApiCrash, JobInv, TypeOK
<1>5. StreamTruth' /\ FirstAttemptOnce'
  BY <1>2 DEF ApiCrash, JobInv, StreamTruth, FirstAttemptOnce, FirstAttempt
<1> QED
  BY <1>2, <1>4, <1>5 DEF JobInv

\* A poll reports the row's status, which is final when it is completed.
LEMMA WsPollInv ==
    ASSUME JobInv, NEW j \in Slots, WsPoll(j)
    PROVE  JobInv'
PROOF
<1>1. job' = job /\ seen' = [seen EXCEPT ![j] = job[j].status]
  BY DEF WsPoll
<1>2. job[j].status \in {"none", "pending", "running", "completed", "failed"}
  BY DEF JobInv, TypeOK, JobRec
<1>3. TypeOK'
  BY <1>1, <1>2 DEF WsPoll, evalVars, JobInv, TypeOK
<1>4. StreamTruth' /\ FirstAttemptOnce'
  BY <1>1 DEF JobInv, TypeOK, StreamTruth, FirstAttemptOnce, FirstAttempt
<1> QED
  BY <1>1, <1>3, <1>4 DEF JobInv

\* Steps that leave rows and streams alone.
LEMMA FrameInv ==
    ASSUME JobInv, UNCHANGED <<job, seen>>,
           done' \subseteq Sources, age' \in [Sources -> 0..AgeCap], snapped' \subseteq Sources,
           eval' \in {"idle", "loop"}, etodo' \subseteq Attachments, edisp' \in Slots \cup {None},
           epend' \subseteq Sources \X {"rpo", "gap"}, alerts' \subseteq Sources \X {"rpo", "gap"}
    PROVE  JobInv'
PROOF
<1>1. TypeOK'
  BY DEF JobInv, TypeOK
<1>2. StreamTruth' /\ FirstAttemptOnce'
  BY DEF JobInv, StreamTruth, FirstAttemptOnce, FirstAttempt
<1> QED
  BY <1>1, <1>2 DEF JobInv

\* The clock touches no row.
LEMMA TickInv ==
    ASSUME JobInv, Tick
    PROVE  JobInv'
PROOF
<1>1. age' \in [Sources -> 0..AgeCap]
  BY JobAssumption DEF Tick, JobInv, TypeOK
<1> QED
  BY <1>1, FrameInv DEF Tick, evalVars, JobInv, TypeOK

\* A synthetic full writes no row that anyone refers to.
LEMMA SynthFullInv ==
    ASSUME JobInv, NEW a \in Sources, SynthFull(a)
    PROVE  JobInv'
PROOF
<1>1. done' \subseteq Sources /\ age' \in [Sources -> 0..AgeCap]
  BY JobAssumption DEF SynthFull, JobInv, TypeOK
<1> QED
  BY <1>1, FrameInv DEF SynthFull, evalVars, JobInv, TypeOK

\* Resolving an alert touches the alerts only.
LEMMA ResolveAlertInv ==
    ASSUME JobInv, NEW alert \in alerts, ResolveAlert(alert)
    PROVE  JobInv'
BY FrameInv DEF ResolveAlert, JobInv, TypeOK

-----------------------------------------------------------------------------
(* evaluate_all_policies.                                                  *)

\* The alerts of a visit are RPO and gap alerts of its source.
LEMMA NewAlertsType ==
    ASSUME NEW a \in Sources, NEW p \in Policies
    PROVE  NewAlerts(a, p) \subseteq Sources \X {"rpo", "gap"}
BY DEF NewAlerts

\* The scheduler's new row is the source's only first attempt: the guard found
\* none.
LEMMA EvalDispatchInv ==
    ASSUME JobInv, NEW a \in Sources, NEW p \in Policies, NEW j \in Slots, EvalDispatch(a, p, j)
    PROVE  JobInv'
PROOF
<1> DEFINE r == NewJob(a, "scheduler")
<1>1. r \in JobRec /\ RowOK(r) /\ r.source = a
  BY NewJobOK DEF NewJob
<1>2. \A i \in Slots : job[i].source = a => job[i].status \notin {"pending", "running"}
  BY DEF EvalDispatch, Active
<1>3. job' = [job EXCEPT ![j] = r] /\ job[j].status # "completed"
  BY DEF EvalDispatch
<1> HIDE DEF r
<1>4. epend' \subseteq Sources \X {"rpo", "gap"} /\ alerts' \subseteq Sources \X {"rpo", "gap"}
  BY NewAlertsType DEF EvalDispatch, JobInv, TypeOK
<1> QED
  BY <1>1, <1>2, <1>3, <1>4, WriteRowInv DEF EvalDispatch, JobInv, TypeOK

\* The other steps of the evaluator.
LEMMA EvalInv ==
    ASSUME JobInv,
           \/ EvalBegin \/ EvalCommit \/ EvalFail
           \/ \E a \in Sources, p \in Policies : EvalSkip(a, p) \/ EvalWait(a, p)
    PROVE  JobInv'
PROOF
<1>1. CASE EvalBegin
  BY <1>1, FrameInv DEF EvalBegin, JobInv, TypeOK
<1>2. CASE EvalCommit
  BY <1>2, FrameInv DEF EvalCommit, JobInv, TypeOK
<1>3. CASE EvalFail
  BY <1>3, FrameInv DEF EvalFail, JobInv, TypeOK
<1>4. ASSUME NEW a \in Sources, NEW p \in Policies, EvalSkip(a, p) PROVE JobInv'
  BY <1>4, FrameInv DEF EvalSkip, JobInv, TypeOK
<1>5. ASSUME NEW a \in Sources, NEW p \in Policies, EvalWait(a, p) PROVE JobInv'
  BY <1>5, FrameInv, NewAlertsType DEF EvalWait, JobInv, TypeOK
<1> QED
  BY <1>1, <1>2, <1>3, <1>4, <1>5

-----------------------------------------------------------------------------
(* The invariant.                                                          *)

\* There are no rows at first.
LEMMA InitInv == Init => JobInv
PROOF
<1> SUFFICES ASSUME Init PROVE JobInv
  OBVIOUS
<1>1. NoJob \in JobRec /\ RowOK(NoJob) /\ NoJob.status = "none" /\ NoJob.by = "api"
  BY JobAssumption DEF NoJob, JobRec, RowOK
<1>2. \A j \in Slots : job[j] = NoJob
  BY DEF Init
<1>3. TypeOK
  BY <1>1, <1>2, JobAssumption DEF Init, TypeOK
<1>4. StreamTruth /\ FirstAttemptOnce
  BY <1>1, <1>2 DEF Init, StreamTruth, FirstAttemptOnce, FirstAttempt
<1> QED
  BY <1>1, <1>2, <1>3, <1>4 DEF JobInv

\* Every step keeps the invariant.
LEMMA NextInv == JobInv /\ [Next]_vars => JobInv'
PROOF
<1> SUFFICES ASSUME JobInv, [Next]_vars PROVE JobInv'
  OBVIOUS
<1>1. CASE UNCHANGED vars
  BY <1>1, FrameInv DEF vars, evalVars, JobInv, TypeOK
<1>2. ASSUME NEW j \in Slots, Task(j) PROVE JobInv'
  BY <1>2, TaskBeginInv, TaskPersistInv, TaskCompleteInv, TaskFailInv DEF Task
<1>3. ASSUME NEW j \in Slots, Dispatch(j) \/ DispatchFail(j) \/ TaskLost(j) \/ Recycle(j) \/ WsPoll(j)
      PROVE  JobInv'
  BY <1>3, DispatchInv, DispatchFailInv, TaskLostInv, RecycleInv, WsPollInv
<1>4. ASSUME NEW j \in Slots, NEW a \in Sources,
             ApiCreate(j, a) \/ \E p \in Policies : EvalDispatch(a, p, j)
      PROVE  JobInv'
  BY <1>4, ApiCreateInv, EvalDispatchInv
<1>5. CASE ApiCrash \/ Tick
  BY <1>5, ApiCrashInv, TickInv
<1>6. CASE \/ EvalBegin \/ EvalCommit \/ EvalFail
           \/ \E a \in Sources, p \in Policies : EvalSkip(a, p) \/ EvalWait(a, p)
  BY <1>6, EvalInv
<1>7. CASE (\E a \in Sources : SynthFull(a)) \/ (\E alert \in alerts : ResolveAlert(alert))
  BY <1>7, SynthFullInv, ResolveAlertInv
<1> QED
  BY <1>1, <1>2, <1>3, <1>4, <1>5, <1>6, <1>7 DEF Next

\* The invariant holds throughout.
LEMMA SpecInv == Spec => []JobInv
BY InitInv, NextInv, PTL DEF Spec

\* TypeOK holds in every reachable state: no job is executed more often than
\* max_retries + 1 times and its columns always have their types.
THEOREM JobTypes == Spec => []TypeOK
PROOF
<1>1. JobInv => TypeOK
  BY DEF JobInv
<1> QED
  BY <1>1, SpecInv, PTL

\* A completed job has committed a snapshot, for any retry bound and any mix
\* of failed, lost and repeated attempts.
THEOREM CompletedJobs == Spec => []CompletedHasSnapshot
PROOF
<1>1. JobInv => CompletedHasSnapshot
  BY DEF JobInv, RowOK, CompletedHasSnapshot
<1> QED
  BY <1>1, SpecInv, PTL

\* The dedup guard keeps at most one unfailed scheduled job per source, for any
\* number of jobs, sources and retries.
THEOREM DedupGuard == Spec => []FirstAttemptOnce
PROOF
<1>1. JobInv => FirstAttemptOnce
  BY DEF JobInv
<1> QED
  BY <1>1, SpecInv, PTL

\* A stream that said completed is never contradicted by the job's row.
THEOREM StreamsTellTruth == Spec => []StreamTruth
PROOF
<1>1. JobInv => StreamTruth
  BY DEF JobInv
<1> QED
  BY <1>1, SpecInv, PTL
=============================================================================
