------------------------- MODULE ControlPlaneProofs -------------------------
(***************************************************************************)
(* Proofs about ControlPlane, for every set of policies, sources, requests, *)
(* policy documents and export filters.                                    *)
(***************************************************************************)
EXTENDS ControlPlane, FiniteSetTheorems, TLAPS

-----------------------------------------------------------------------------
(* What the requests in flight, the log and the rows know of each other.   *)

\* The policy and the source a request of this kind works on.
Target(r) ==
    \/ r.kind = "policy" /\ r.op = "created" /\ r.p = None /\ r.a = None /\ r.doc \in Docs
    \/ r.kind = "policy" /\ r.op = "updated" /\ r.p \in PolicyIds /\ r.a = None
    \/ r.kind = "policy" /\ r.op = "attached" /\ r.p \in PolicyIds /\ r.a \in SourceIds
    \/ r.kind = "policy" /\ r.op = "deleted" /\ r.p \in PolicyIds /\ r.a = None
    \/ r.kind = "source" /\ r.op = "created" /\ r.p = None /\ r.a = None
    \/ r.kind = "source" /\ r.op \in {"updated", "deleted"} /\ r.p = None /\ r.a \in SourceIds
    \/ r.kind = "backup" /\ r.op = "triggered" /\ r.p = None /\ r.a \in SourceIds

\* The rows have their domains; a policy that is live has a document.
RowInv ==
    /\ pol = [p \in PolicyIds |-> pol[p]]
    /\ \A p \in PolicyIds : \/ pol[p] \in {NoRow, GoneRow}
                            \/ \E d \in Docs : pol[p] = LiveRow(d, pol[p].cols)
    /\ src \in [SourceIds -> {"unborn", "live", "deleted"}]
    /\ seq \in 1..(MaxEvents + 1) /\ clock \in 1..MaxClock

\* A request has the fields it should.
Shape(r) ==
    r \in [pc : {r.pc}, kind : {r.kind}, op : {r.op}, p : {r.p}, a : {r.a}, doc : {r.doc},
           seen : {r.seen}, load : {r.load}, since : {r.since},
           id : {r.id}, time : {r.time}]

\* A request in flight names rows that have existed, began in the past, and
\* holds an audit id and a time from the interval it has been running.
ReqInv ==
    /\ req = [q \in Requests |-> req[q]] /\ \A q \in Requests : Shape(req[q])
    /\ \A q \in Requests : req[q].pc = "idle" \/
         /\ req[q].pc \in {"read", "flushed"}
         /\ Target(req[q])
         /\ req[q].doc \in Docs \cup {NoDoc}
         /\ req[q].p # None => pol[req[q].p].st # "unborn"
         /\ req[q].a # None => src[req[q].a] # "unborn"
         /\ req[q].since \in Nat /\ req[q].since <= clock
         /\ req[q].pc = "flushed" =>
              /\ req[q].id \in Nat /\ req[q].id < seq
              /\ req[q].time \in Nat /\ req[q].since <= req[q].time /\ req[q].time <= clock

\* Audit ids are given once: no two requests hold the same, and none that has
\* been committed.
IdInv ==
    /\ \A q, r \in Requests :
         req[q].pc = "flushed" /\ req[r].pc = "flushed" /\ q # r => req[q].id # req[r].id
    /\ \A q \in Requests : req[q].pc = "flushed" => \A e \in log : e.id # req[q].id

\* Attachments and jobs belong to rows that exist.
AttInv ==
    \A x \in att : /\ x.policy # None => x.policy \in PolicyIds /\ pol[x.policy].st = "live"
                   /\ x.source \in SourceIds /\ src[x.source] = "live"

\* The log is finite, and its ids and times lie in the past.
LogInv ==
    /\ IsFiniteSet(log)
    /\ \A e \in log : e.id \in Nat /\ e.id < seq /\ e.time \in Nat /\ e.time <= clock

\* The requests that begin, and the ones that commit.
Begins(q) ==
    \/ \E doc \in Docs : CreatePolicy(q, doc)
    \/ \E p \in PolicyIds, doc \in Docs \cup {NoDoc} : UpdatePolicy(q, p, doc)
    \/ \E p \in PolicyIds, a \in SourceIds : AttachPolicy(q, p, a)
    \/ \E p \in PolicyIds : DeletePolicy(q, p)
    \/ CreateSource(q)
    \/ \E a \in SourceIds : UpdateSource(q, a)
    \/ \E a \in SourceIds : DeleteSource(q, a)
    \/ \E a \in SourceIds : TriggerBackup(q, a)

CommitsPolicy(q) ==
    \/ \E p \in PolicyIds : CommitCreatePolicy(q, p)
    \/ \E other \in BOOLEAN : CommitUpdatePolicy(q, other)
    \/ CommitAttachPolicy(q)
    \/ CommitDeletePolicy(q)

CommitsSource(q) ==
    \/ \E a \in SourceIds : CommitCreateSource(q, a)
    \/ \E other \in BOOLEAN : CommitUpdateSource(q, other)
    \/ CommitDeleteSource(q)
    \/ CommitTriggerBackup(q)

PlaneInv == RowInv /\ ReqInv /\ IdInv /\ AttInv /\ LogInv

\* Nothing is in flight and nothing is recorded at first.
LEMMA PlaneInit == Init => PlaneInv
<1> SUFFICES ASSUME Init
             PROVE  PlaneInv
  OBVIOUS
<1>1. LogInv
  BY FS_EmptySet DEF Init, LogInv
<1>2. RowInv /\ AttInv
  BY DocAssumption DEF Init, RowInv, AttInv
<1>3. Shape(IdleReq) /\ IdleReq.pc = "idle"
  BY DEF Shape, IdleReq
<1>4. ReqInv /\ IdInv
  BY <1>3 DEF Init, ReqInv, IdInv
<1> QED
  BY <1>1, <1>2, <1>4 DEF PlaneInv

\* A handler that has found its rows and begins.
LEMMA PlaneBegin ==
  ASSUME PlaneInv, NEW q \in Requests, NEW kind, NEW op, NEW p, NEW a,
         NEW doc \in Docs \cup {NoDoc},
         Begin(q, kind, op, p, a, doc),
         Target([kind |-> kind, op |-> op, p |-> p, a |-> a, doc |-> doc]),
         p # None => pol[p].st # "unborn",
         a # None => src[a] # "unborn"
  PROVE  PlaneInv'
<1> DEFINE new == [pc |-> "read", kind |-> kind, op |-> op, p |-> p, a |-> a, doc |-> doc,
                   seen |-> IF p # None /\ op = "updated" THEN pol[p] ELSE NoRow, load |-> {},
                   since |-> clock, id |-> 0, time |-> 0]
<1>1. req' = [req EXCEPT ![q] = new] /\ UNCHANGED <<pol, src, att, log, seq, clock, exports>>
  BY DEF Begin
<1>2. Target(new) /\ Shape(new)
  BY DEF Target, Shape
<1>3. req'[q] = new /\ \A r \in Requests : r # q => req'[r] = req[r]
  BY <1>1 DEF PlaneInv, ReqInv
<1>4. RowInv' /\ AttInv' /\ LogInv'
  BY <1>1 DEF PlaneInv, RowInv, AttInv, LogInv
<1>a. new.pc = "read" /\ new.p = p /\ new.a = a /\ new.doc = doc /\ new.since = clock
  OBVIOUS
<1> HIDE DEF new
<1>5. ReqInv'
  <2>1. req' = [r \in Requests |-> req'[r]]
    BY <1>1 DEF PlaneInv, ReqInv
  <2>2. clock \in Nat
    BY DocAssumption DEF PlaneInv, RowInv
  <2> QED
    BY <1>1, <1>2, <1>3, <1>a, <2>1, <2>2 DEF PlaneInv, ReqInv
<1>6. IdInv'
  BY <1>1, <1>3, <1>a DEF PlaneInv, IdInv
<1> QED
  BY <1>4, <1>5, <1>6 DEF PlaneInv

\* The flush that gives a request its audit id and time.
LEMMA PlaneFlush ==
  ASSUME PlaneInv, NEW q \in Requests, Flush(q)
  PROVE  PlaneInv'
<1>1. PICK t \in req[q].since..clock :
        req' = [req EXCEPT ![q] =
                    [@ EXCEPT !.pc = "flushed", !.id = seq, !.time = t,
                              !.load = IF req[q].op = "deleted"
                                       THEN AttachedTo(req[q].kind, req[q].p, req[q].a)
                                       ELSE {}]]
  BY DEF Flush
<1>2. req[q].pc = "read" /\ seq <= MaxEvents /\ seq' = seq + 1
      /\ UNCHANGED <<pol, src, att, log, clock, exports>>
  BY DEF Flush
<1>3. seq \in Nat /\ seq' \in 1..(MaxEvents + 1) /\ clock \in Nat
  BY <1>2, DocAssumption DEF PlaneInv, RowInv
<1> DEFINE new == [req[q] EXCEPT !.pc = "flushed", !.id = seq, !.time = t,
                              !.load = IF req[q].op = "deleted"
                                       THEN AttachedTo(req[q].kind, req[q].p, req[q].a)
                                       ELSE {}]
<1>4. req'[q] = new /\ \A r \in Requests : r # q => req'[r] = req[r]
  BY <1>1 DEF PlaneInv, ReqInv
<1>5. /\ new.pc = "flushed" /\ new.id = seq /\ new.time = t /\ new.since = req[q].since
      /\ new.kind = req[q].kind /\ new.op = req[q].op /\ new.p = req[q].p
      /\ new.a = req[q].a /\ new.doc = req[q].doc /\ Shape(new)
  <2>1. Shape(req[q])
    BY DEF PlaneInv, ReqInv
  <2> QED
    BY <2>1 DEF Shape
<1> HIDE DEF new
<1>6. RowInv' /\ AttInv' /\ LogInv'
  BY <1>2, <1>3 DEF PlaneInv, RowInv, AttInv, LogInv
<1>7. ReqInv'
  <2>1. req' = [r \in Requests |-> req'[r]]
    BY <1>1 DEF PlaneInv, ReqInv
  <2>2. req[q].since \in Nat /\ req[q].since <= clock /\ Target(req[q])
    BY <1>2 DEF PlaneInv, ReqInv
  <2>3. t \in Nat /\ req[q].since <= t /\ t <= clock
    BY <1>3, <2>2
  <2>4. Target(new)
    BY <1>5, <2>2 DEF Target
  <2> QED
    BY <1>2, <1>3, <1>4, <1>5, <2>1, <2>2, <2>3, <2>4 DEF PlaneInv, ReqInv
<1>8. IdInv'
  BY <1>2, <1>3, <1>4, <1>5 DEF PlaneInv, IdInv, ReqInv, LogInv
<1> QED
  BY <1>6, <1>7, <1>8 DEF PlaneInv

\* Ids that have been used stay used.
RowsAge ==
    /\ \A p \in PolicyIds : pol[p].st # "unborn" => pol'[p].st # "unborn"
    /\ \A a \in SourceIds : src[a] # "unborn" => src'[a] # "unborn"

\* A request that ends, while no row is unborn again, leaves the others as they
\* were.
LEMMA ReqEnds ==
  ASSUME PlaneInv, NEW q \in Requests, req' = [req EXCEPT ![q] = IdleReq],
         RowsAge, UNCHANGED <<seq, clock>>
  PROVE  ReqInv'
<1>1. req'[q] = IdleReq /\ \A r \in Requests : r # q => req'[r] = req[r]
  BY DEF PlaneInv, ReqInv
<1>2. req' = [r \in Requests |-> req'[r]]
  BY DEF PlaneInv, ReqInv
<1>3. Shape(IdleReq) /\ IdleReq.pc = "idle"
  BY DEF Shape, IdleReq
<1>4. \A r \in Requests : Target(req[r]) => req[r].p \in PolicyIds \cup {None}
                                            /\ req[r].a \in SourceIds \cup {None}
  BY DEF Target
<1> QED
  BY <1>1, <1>2, <1>3, <1>4 DEF PlaneInv, ReqInv, RowsAge

\* A commit adds one event, with an id nobody else has.
LEMMA PlaneCommitted ==
  ASSUME PlaneInv, NEW q \in Requests, req[q].pc = "flushed", Committed(q), RowsAge
  PROVE  ReqInv' /\ IdInv' /\ LogInv'
<1> DEFINE new == [id |-> req[q].id, time |-> req[q].time, kind |-> req[q].kind,
                   op |-> req[q].op, p |-> req[q].p, a |-> req[q].a]
<1>1. log' = log \cup {new} /\ req' = [req EXCEPT ![q] = IdleReq]
      /\ UNCHANGED <<seq, clock, exports>>
  BY DEF Committed
<1>2. ReqInv'
  BY <1>1, ReqEnds
<1>3. req'[q].pc = "idle" /\ \A r \in Requests : r # q => req'[r] = req[r]
  BY <1>1 DEF PlaneInv, ReqInv, IdleReq
<1>4. new.id = req[q].id /\ new.time = req[q].time
  OBVIOUS
<1>5. /\ req[q].id \in Nat /\ req[q].id < seq
      /\ req[q].time \in Nat /\ req[q].time <= clock
  BY DEF PlaneInv, ReqInv
<1> HIDE DEF new
<1>6. IdInv'
  BY <1>1, <1>3, <1>4 DEF PlaneInv, IdInv
<1>7. LogInv'
  <2>1. IsFiniteSet(log')
    BY <1>1, FS_AddElement DEF PlaneInv, LogInv
  <2> QED
    BY <1>1, <1>4, <1>5, <2>1 DEF PlaneInv, LogInv
<1> QED
  BY <1>2, <1>6, <1>7

\* An exception leaves everything but the request as it was.
LEMMA PlaneAbort ==
  ASSUME PlaneInv, NEW q \in Requests, Abort(q)
  PROVE  PlaneInv'
<1>1. req' = [req EXCEPT ![q] = IdleReq] /\ UNCHANGED <<pol, src, att, log, seq, clock, exports>>
  BY DEF Abort
<1>2. ReqInv'
  BY <1>1, ReqEnds DEF RowsAge
<1>3. req'[q].pc = "idle" /\ \A r \in Requests : r # q => req'[r] = req[r]
  BY <1>1 DEF PlaneInv, ReqInv, IdleReq
<1>4. RowInv' /\ AttInv' /\ LogInv'
  BY <1>1 DEF PlaneInv, RowInv, AttInv, LogInv
<1>5. IdInv'
  BY <1>1, <1>3 DEF PlaneInv, IdInv
<1> QED
  BY <1>2, <1>4, <1>5 DEF PlaneInv

\* Time passes.
LEMMA PlaneTick ==
  ASSUME PlaneInv, Tick
  PROVE  PlaneInv'
<1>1. clock \in Nat /\ clock' = clock + 1 /\ clock' \in 1..MaxClock
      /\ UNCHANGED <<pol, src, att, log, seq, req, exports>>
  BY DocAssumption DEF Tick, PlaneInv, RowInv
<1>2. RowInv' /\ AttInv' /\ IdInv'
  BY <1>1 DEF PlaneInv, RowInv, AttInv, IdInv
<1>3. ReqInv'
  BY <1>1 DEF PlaneInv, ReqInv
<1>4. LogInv'
  BY <1>1 DEF PlaneInv, LogInv
<1> QED
  BY <1>2, <1>3, <1>4 DEF PlaneInv

\* A document is no empty answer and an id is no NULL.
LEMMA NoneIsNoId ==
  /\ \A p \in PolicyIds : p # None
  /\ \A a \in SourceIds : a # None
  /\ NoDoc \notin Docs
  BY DocAssumption

\* The rows after one of the commits that change policies: they keep their
\* shapes, no id becomes unborn again, and what is attached is live.
LEMMA CommitPolicyRows ==
  ASSUME PlaneInv, NEW q \in Requests, CommitsPolicy(q)
  PROVE  RowInv' /\ AttInv' /\ RowsAge /\ Committed(q) /\ req[q].pc = "flushed"
<1> USE NoneIsNoId DEF Committing
<1>0. req[q].pc = "flushed" => Target(req[q]) /\ req[q].doc \in Docs \cup {NoDoc}
  BY DEF PlaneInv, ReqInv
<1>1. ASSUME NEW p \in PolicyIds, CommitCreatePolicy(q, p)
      PROVE  RowInv' /\ AttInv' /\ RowsAge /\ Committed(q) /\ req[q].pc = "flushed"
  <2> DEFINE row == LiveRow(req[q].doc, Parse(req[q].doc))
  <2>1. pol' = [pol EXCEPT ![p] = row] /\ UNCHANGED <<src, att, seq, clock>>
    BY <1>1 DEF CommitCreatePolicy, Committed
  <2>2. req[q].doc \in Docs
    BY <1>0, <1>1 DEF CommitCreatePolicy, Target
  <2>3. row = LiveRow(req[q].doc, row.cols) /\ row.st = "live"
    BY DEF LiveRow
  <2> HIDE DEF row
  <2>4. pol'[p] = row /\ \A r \in PolicyIds : r # p => pol'[r] = pol[r]
    BY <2>1 DEF PlaneInv, RowInv
  <2>5. pol' = [r \in PolicyIds |-> pol'[r]]
    BY <2>1 DEF PlaneInv, RowInv
  <2>6. RowInv'
    BY <2>1, <2>2, <2>3, <2>4, <2>5 DEF PlaneInv, RowInv
  <2>7. AttInv' /\ RowsAge
    BY <2>1, <2>3, <2>4 DEF PlaneInv, AttInv, RowsAge
  <2> QED
    BY <1>1, <2>6, <2>7 DEF CommitCreatePolicy
<1>2. ASSUME NEW other \in BOOLEAN, CommitUpdatePolicy(q, other)
      PROVE  RowInv' /\ AttInv' /\ RowsAge /\ Committed(q) /\ req[q].pc = "flushed"
  <2> DEFINE p == req[q].p
             cols == [k \in Keys |-> IF k \in SetCols(q) THEN Parse(req[q].doc)[k]
                                     ELSE pol[p].cols[k]]
             row == LiveRow(IF SetYaml(q) THEN req[q].doc ELSE pol[p].yaml, cols)
  <2>1. p \in PolicyIds
    BY <1>0, <1>2 DEF CommitUpdatePolicy, Target
  <2>2. UNCHANGED <<src, att, seq, clock>>
    BY <1>2 DEF CommitUpdatePolicy, Committed
  <2>3. CASE ~NetChange(q, other)
    <3>1. pol' = pol
      BY <1>2, <2>3 DEF CommitUpdatePolicy
    <3>2. RowInv' /\ AttInv'
      BY <2>2, <3>1 DEF PlaneInv, RowInv, AttInv
    <3>3. RowsAge
      BY <2>2, <3>1 DEF RowsAge
    <3> QED
      BY <1>2, <3>2, <3>3 DEF CommitUpdatePolicy
  <2>4. CASE NetChange(q, other)
    <3>1. pol' = [pol EXCEPT ![p] = row] /\ pol[p].st = "live"
      BY <1>2, <2>4, Zenon DEF CommitUpdatePolicy
    <3>2. pol[p].yaml \in Docs
      BY <2>1, <3>1 DEF PlaneInv, RowInv, LiveRow, NoRow, GoneRow
    <3>3. \E d \in Docs : row = LiveRow(d, row.cols)
      <4>1. (IF SetYaml(q) THEN req[q].doc ELSE pol[p].yaml) \in Docs
        BY <1>0, <1>2, <3>2 DEF SetYaml, CommitUpdatePolicy
      <4> QED
        BY <4>1 DEF LiveRow
    <3>4. row.st = "live"
      BY DEF LiveRow
    <3> HIDE DEF row
    <3>5. pol'[p] = row /\ \A r \in PolicyIds : r # p => pol'[r] = pol[r]
      BY <2>1, <3>1 DEF PlaneInv, RowInv
    <3>6. pol' = [r \in PolicyIds |-> pol'[r]]
      BY <3>1 DEF PlaneInv, RowInv
    <3>7. RowInv'
      BY <2>2, <3>3, <3>5, <3>6 DEF PlaneInv, RowInv
    <3>8. AttInv' /\ RowsAge
      BY <2>2, <3>4, <3>5 DEF PlaneInv, AttInv, RowsAge
    <3> QED
      BY <1>2, <3>7, <3>8 DEF CommitUpdatePolicy
  <2> QED
    BY <2>3, <2>4
<1>3. CASE CommitAttachPolicy(q)
  <2>1. req[q].p \in PolicyIds /\ req[q].a \in SourceIds
    BY <1>0, <1>3 DEF CommitAttachPolicy, Target
  <2> QED
    BY <1>3, <2>1 DEF CommitAttachPolicy, Committed, PlaneInv, RowInv, AttInv, RowsAge
<1>4. CASE CommitDeletePolicy(q)
  <2> DEFINE p == req[q].p
  <2>1. p \in PolicyIds
    BY <1>0, <1>4 DEF CommitDeletePolicy, Target
  <2>2. pol' = [pol EXCEPT ![p] = GoneRow] /\ UNCHANGED <<src, seq, clock>>
    BY <1>4 DEF CommitDeletePolicy, Committed
  <2>3. GoneRow.st = "deleted"
    BY DEF GoneRow
  <2>4. pol'[p] = GoneRow /\ \A r \in PolicyIds : r # p => pol'[r] = pol[r]
    BY <2>1, <2>2 DEF PlaneInv, RowInv
  <2>5. pol' = [r \in PolicyIds |-> pol'[r]]
    BY <2>2 DEF PlaneInv, RowInv
  <2>6. RowInv'
    BY <2>2, <2>4, <2>5 DEF PlaneInv, RowInv
  <2>7. att' \subseteq att /\ \A x \in att' : x.policy # p
    BY <1>4 DEF CommitDeletePolicy, FkSatisfied, AttachedTo
  <2>8. AttInv' /\ RowsAge
    BY <2>2, <2>3, <2>4, <2>7 DEF PlaneInv, AttInv, RowsAge
  <2> QED
    BY <1>4, <2>6, <2>8 DEF CommitDeletePolicy
<1> QED
  BY <1>1, <1>2, <1>3, <1>4 DEF CommitsPolicy

\* The same after one of the commits that change sources and jobs.
LEMMA CommitSourceRows ==
  ASSUME PlaneInv, NEW q \in Requests, CommitsSource(q)
  PROVE  RowInv' /\ AttInv' /\ RowsAge /\ Committed(q) /\ req[q].pc = "flushed"
<1> USE NoneIsNoId DEF Committing, PlaneInv, RowInv, AttInv, RowsAge
<1>0. req[q].pc = "flushed" => Target(req[q])
  BY DEF ReqInv
<1>1. ASSUME NEW a \in SourceIds, CommitCreateSource(q, a)
      PROVE  RowInv' /\ AttInv' /\ RowsAge /\ Committed(q) /\ req[q].pc = "flushed"
  BY <1>1 DEF CommitCreateSource, Committed
<1>2. ASSUME NEW other \in BOOLEAN, CommitUpdateSource(q, other)
      PROVE  RowInv' /\ AttInv' /\ RowsAge /\ Committed(q) /\ req[q].pc = "flushed"
  BY <1>2 DEF CommitUpdateSource, Committed
<1>3. CASE CommitDeleteSource(q)
  <2>1. req[q].a \in SourceIds
    BY <1>0, <1>3 DEF CommitDeleteSource, Target
  <2>2. att' \subseteq att /\ \A x \in att' : x.source # req[q].a
    BY <1>3 DEF CommitDeleteSource, FkSatisfied, AttachedTo
  <2> QED
    BY <1>3, <2>1, <2>2 DEF CommitDeleteSource, Committed
<1>4. CASE CommitTriggerBackup(q)
  <2>1. req[q].a \in SourceIds
    BY <1>0, <1>4 DEF CommitTriggerBackup, Target
  <2>2. req[q].p = None
    BY <1>0, <1>4 DEF CommitTriggerBackup, Target
  <2>3. \A x \in att' : x \in att \/ (x.policy = None /\ x.source = req[q].a)
    BY <1>4 DEF CommitTriggerBackup
  <2> QED
    BY <1>4, <2>1, <2>3 DEF CommitTriggerBackup, Committed
<1> QED
  BY <1>1, <1>2, <1>3, <1>4 DEF CommitsSource

\* The handlers begin with rows they have just found.
LEMMA PlaneBegins ==
  ASSUME PlaneInv, NEW q \in Requests, Begins(q)
  PROVE  PlaneInv' /\ UNCHANGED <<pol, src, att, log, exports>>
<1> USE NoneIsNoId
<1>1. ASSUME NEW kind, NEW op, NEW p, NEW a, NEW doc \in Docs \cup {NoDoc},
             Begin(q, kind, op, p, a, doc),
             Target([kind |-> kind, op |-> op, p |-> p, a |-> a, doc |-> doc]),
             p # None => pol[p].st # "unborn",
             a # None => src[a] # "unborn"
      PROVE  PlaneInv' /\ UNCHANGED <<pol, src, att, log, exports>>
  BY <1>1, PlaneBegin DEF Begin
<1>2. ASSUME NEW doc \in Docs, CreatePolicy(q, doc)
      PROVE  PlaneInv' /\ UNCHANGED <<pol, src, att, log, exports>>
  <2>1. Target([kind |-> "policy", op |-> "created", p |-> None, a |-> None, doc |-> doc])
    BY DEF Target
  <2> QED
    BY <1>1, <1>2, <2>1 DEF CreatePolicy
<1>3. ASSUME NEW p \in PolicyIds, NEW doc \in Docs \cup {NoDoc}, UpdatePolicy(q, p, doc)
      PROVE  PlaneInv' /\ UNCHANGED <<pol, src, att, log, exports>>
  <2>1. Target([kind |-> "policy", op |-> "updated", p |-> p, a |-> None, doc |-> doc])
    BY DEF Target
  <2> QED
    BY <1>1, <1>3, <2>1 DEF UpdatePolicy
<1>4. ASSUME NEW p \in PolicyIds, NEW a \in SourceIds, AttachPolicy(q, p, a)
      PROVE  PlaneInv' /\ UNCHANGED <<pol, src, att, log, exports>>
  <2>1. Target([kind |-> "policy", op |-> "attached", p |-> p, a |-> a, doc |-> NoDoc])
    BY DEF Target
  <2> QED
    BY <1>1, <1>4, <2>1 DEF AttachPolicy
<1>5. ASSUME NEW p \in PolicyIds, DeletePolicy(q, p)
      PROVE  PlaneInv' /\ UNCHANGED <<pol, src, att, log, exports>>
  <2>1. Target([kind |-> "policy", op |-> "deleted", p |-> p, a |-> None, doc |-> NoDoc])
    BY DEF Target
  <2> QED
    BY <1>1, <1>5, <2>1 DEF DeletePolicy
<1>6. ASSUME CreateSource(q)
      PROVE  PlaneInv' /\ UNCHANGED <<pol, src, att, log, exports>>
  <2>1. Target([kind |-> "source", op |-> "created", p |-> None, a |-> None, doc |-> NoDoc])
    BY DEF Target
  <2> QED
    BY <1>1, <1>6, <2>1 DEF CreateSource
<1>7. ASSUME NEW a \in SourceIds, UpdateSource(q, a)
      PROVE  PlaneInv' /\ UNCHANGED <<pol, src, att, log, exports>>
  <2>1. Target([kind |-> "source", op |-> "updated", p |-> None, a |-> a, doc |-> NoDoc])
    BY DEF Target
  <2> QED
    BY <1>1, <1>7, <2>1 DEF UpdateSource
<1>8. ASSUME NEW a \in SourceIds, DeleteSource(q, a)
      PROVE  PlaneInv' /\ UNCHANGED <<pol, src, att, log, exports>>
  <2>1. Target([kind |-> "source", op |-> "deleted", p |-> None, a |-> a, doc |-> NoDoc])
    BY DEF Target
  <2> QED
    BY <1>1, <1>8, <2>1 DEF DeleteSource
<1>9. ASSUME NEW a \in SourceIds, TriggerBackup(q, a)
      PROVE  PlaneInv' /\ UNCHANGED <<pol, src, att, log, exports>>
  <2>1. Target([kind |-> "backup", op |-> "triggered", p |-> None, a |-> a, doc |-> NoDoc])
    BY DEF Target
  <2> QED
    BY <1>1, <1>9, <2>1 DEF TriggerBackup
<1> QED
  BY <1>2, <1>3, <1>4, <1>5, <1>6, <1>7, <1>8, <1>9 DEF Begins

\* Every step is one of these.
LEMMA StepKinds ==
  ASSUME [Next]_vars
  PROVE  \/ \E q \in Requests : Begins(q)
         \/ \E q \in Requests : Flush(q)
         \/ \E q \in Requests : Abort(q)
         \/ \E q \in Requests : CommitsPolicy(q)
         \/ \E q \in Requests : CommitsSource(q)
         \/ \E f \in Filters : ExportAuditLog(f)
         \/ Tick
         \/ UNCHANGED vars
  BY DEF Next, Policy, Source, Begins, CommitsPolicy, CommitsSource

\* Every step keeps the invariant.
LEMMA PlaneStep == PlaneInv /\ [Next]_vars => PlaneInv'
<1> SUFFICES ASSUME PlaneInv, [Next]_vars
             PROVE  PlaneInv'
  OBVIOUS
<1>1. ASSUME NEW q \in Requests, CommitsPolicy(q) \/ CommitsSource(q)
      PROVE  PlaneInv'
  <2>1. RowInv' /\ AttInv' /\ RowsAge /\ Committed(q) /\ req[q].pc = "flushed"
    BY <1>1, CommitPolicyRows, CommitSourceRows
  <2>2. ReqInv' /\ IdInv' /\ LogInv'
    BY <2>1, PlaneCommitted
  <2> QED
    BY <2>1, <2>2 DEF PlaneInv
<1>2. CASE \E f \in Filters : ExportAuditLog(f)
  <2>1. UNCHANGED <<pol, src, att, log, seq, clock, req>>
    BY <1>2 DEF ExportAuditLog
  <2> QED
    BY <2>1 DEF PlaneInv, RowInv, ReqInv, IdInv, AttInv, LogInv
<1>3. CASE UNCHANGED vars
  <2>1. UNCHANGED <<pol, src, att, log, seq, clock, req>>
    BY <1>3 DEF vars
  <2> QED
    BY <2>1 DEF PlaneInv, RowInv, ReqInv, IdInv, AttInv, LogInv
<1> QED
  BY <1>1, <1>2, <1>3, StepKinds, PlaneBegins, PlaneFlush, PlaneAbort, PlaneTick

\* The invariant holds in every state.
LEMMA PlaneCorrect == Spec => []PlaneInv
  BY PlaneInit, PlaneStep, PTL DEF Spec

\* Every attachment and every job belongs to rows that exist, however deletions
\* and attachments overlap, and nothing in the log comes from the future.
THEOREM TypeCorrect == Spec => []TypeOK
<1>1. PlaneInv => TypeOK
  BY DEF PlaneInv, RowInv, AttInv, LogInv, TypeOK
<1> QED
  BY <1>1, PlaneCorrect, PTL

-----------------------------------------------------------------------------
(* UpdateAgrees.                                                           *)

\* An update that brings a document and finds the row it loaded leaves its
\* columns in agreement with the document.
LEMMA UpdateCommit ==
  ASSUME PlaneInv, NEW q \in Requests, NEW other \in BOOLEAN, CommitUpdatePolicy(q, other),
         req[q].doc # NoDoc, pol[req[q].p] = req[q].seen
  PROVE  pol'[req[q].p].yaml = req[q].doc /\ Agrees(pol'[req[q].p])
<1> DEFINE p == req[q].p
           doc == req[q].doc
           cols == [k \in Keys |-> IF k \in SetCols(q) THEN Parse(doc)[k] ELSE pol[p].cols[k]]
           row == LiveRow(IF SetYaml(q) THEN doc ELSE pol[p].yaml, cols)
<1>1. p \in PolicyIds /\ doc \in Docs
  BY DEF PlaneInv, ReqInv, Target, CommitUpdatePolicy, Committing
<1>2. \A k \in Keys : Parse(doc)[k] = IF k \in DOMAIN doc THEN Column(k, doc[k]) ELSE Default[k]
  BY DEF Parse
<1>3. DOMAIN Parse(doc) = Keys
  BY DEF Parse
<1>4. \A k \in Keys : k \in SetCols(q) \/ pol[p].cols[k] = Parse(doc)[k]
  BY <1>3 DEF SetCols
<1>5. SetYaml(q) \/ pol[p].yaml = doc
  BY DEF SetYaml
<1>6. CASE ~NetChange(q, other)
  <2>1. pol' = pol
    BY <1>6 DEF CommitUpdatePolicy
  <2>2. \A k \in Keys : pol[p].cols[k] = Parse(doc)[k]
    BY <1>4, <1>6 DEF NetChange
  <2>3. pol[p].yaml = doc
    BY <1>5, <1>6 DEF NetChange
  <2> QED
    BY <1>2, <2>1, <2>2, <2>3 DEF Agrees
<1>7. CASE NetChange(q, other)
  <2>1. pol' = [pol EXCEPT ![p] = row]
    BY <1>7, Zenon DEF CommitUpdatePolicy
  <2>2. row.yaml = doc
    BY <1>5 DEF LiveRow
  <2>3. \A k \in Keys : row.cols[k] = Parse(doc)[k]
    <3>1. row.cols = cols
      BY DEF LiveRow
    <3> QED
      BY <1>4, <3>1
  <2> HIDE DEF row
  <2>4. pol'[p] = row
    BY <1>1, <2>1 DEF PlaneInv, RowInv
  <2> QED
    BY <1>2, <2>2, <2>3, <2>4 DEF Agrees
<1> QED
  BY <1>6, <1>7

\* A step that ends request q and changes the log is the commit of q.
LEMMA OwnCommit ==
  ASSUME PlaneInv, [Next]_vars, NEW q \in Requests, log' # log,
         Committing(q, "policy", "updated"), req'[q].pc = "idle"
  PROVE  \E other \in BOOLEAN : CommitUpdatePolicy(q, other)
<1> USE DEF Committing
<1>1. ASSUME NEW r \in Requests, Committed(r)
      PROVE  r = q
  <2>1. r # q => req'[q] = req[q]
    BY <1>1 DEF Committed, PlaneInv, ReqInv
  <2> QED
    BY <2>1
<1>2. ASSUME NEW r \in Requests, CommitsPolicy(r)
      PROVE  \E other \in BOOLEAN : CommitUpdatePolicy(q, other)
  BY <1>1, <1>2 DEF CommitsPolicy, CommitCreatePolicy, CommitUpdatePolicy,
     CommitAttachPolicy, CommitDeletePolicy
<1>3. ASSUME NEW r \in Requests, CommitsSource(r)
      PROVE  FALSE
  BY <1>1, <1>3 DEF CommitsSource, CommitCreateSource, CommitUpdateSource,
     CommitDeleteSource, CommitTriggerBackup
<1>4. ASSUME NEW r \in Requests, Begins(r) \/ Flush(r) \/ Abort(r)
      PROVE  log' = log
  BY <1>4, PlaneBegins DEF Flush, Abort
<1>5. ASSUME (\E f \in Filters : ExportAuditLog(f)) \/ Tick \/ UNCHANGED vars
      PROVE  log' = log
  BY <1>5 DEF ExportAuditLog, Tick, vars
<1> QED
  BY <1>2, <1>3, <1>4, <1>5, StepKinds

\* However updates of a policy overlap, one that brings a document and finds the
\* row it loaded leaves in every column what int(), bool() or float() makes of the
\* document's value, although its UPDATE names only the columns that differ from
\* the loaded ones.
THEOREM UpdatesAgree == Spec => UpdateAgrees
<1> DEFINE Step == \A q \in Requests :
          /\ Committing(q, "policy", "updated") /\ log' # log
          /\ req'[q].pc = "idle"
          /\ req[q].doc # NoDoc /\ pol[req[q].p] = req[q].seen
          => pol'[req[q].p].yaml = req[q].doc /\ Agrees(pol'[req[q].p])
<1>1. PlaneInv /\ [Next]_vars => [Step]_vars
  BY OwnCommit, UpdateCommit
<1> QED
  BY <1>1, PlaneCorrect, PTL DEF Spec, UpdateAgrees

-----------------------------------------------------------------------------
(* AuditAtomic.                                                            *)

\* The ids that have been given out.
BornPolicies == {p \in PolicyIds : pol[p].st # "unborn"}
BornSources  == {a \in SourceIds : src[a] # "unborn"}

\* Equal cardinalities mean something for finite sets only.
AuditInv == IsFiniteSet(BornPolicies) /\ IsFiniteSet(BornSources) /\ AuditAtomic

\* The event a request writes.
EventOf(q) == [id |-> req[q].id, time |-> req[q].time, kind |-> req[q].kind,
               op |-> req[q].op, p |-> req[q].p, a |-> req[q].a]

\* A commit adds one event of the request's own kind and none of another.
LEMMA EventAdded ==
  ASSUME PlaneInv, NEW q \in Requests, req[q].pc = "flushed", Committed(q),
         NEW kind, NEW op
  PROVE  /\ req[q].kind = kind /\ req[q].op = op =>
              /\ Event(kind, op)' = Event(kind, op) \cup {EventOf(q)}
              /\ Cardinality(Event(kind, op)') = Cardinality(Event(kind, op)) + 1
         /\ ~(req[q].kind = kind /\ req[q].op = op) => Event(kind, op)' = Event(kind, op)
<1>1. log' = log \cup {EventOf(q)}
  BY DEF Committed, EventOf
<1>2. EventOf(q).kind = req[q].kind /\ EventOf(q).op = req[q].op /\ EventOf(q).id = req[q].id
  BY DEF EventOf
<1>3. EventOf(q) \notin Event(kind, op)
  BY <1>2 DEF PlaneInv, IdInv, Event
<1>4. IsFiniteSet(Event(kind, op))
  BY FS_Subset DEF Event, PlaneInv, LogInv
<1>5. Cardinality(Event(kind, op) \cup {EventOf(q)}) = Cardinality(Event(kind, op)) + 1
  BY <1>3, <1>4, FS_AddElement
<1>6. req[q].kind = kind /\ req[q].op = op =>
         Event(kind, op)' = Event(kind, op) \cup {EventOf(q)}
  BY <1>1, <1>2 DEF Event
<1>7. ~(req[q].kind = kind /\ req[q].op = op) => Event(kind, op)' = Event(kind, op)
  BY <1>1, <1>2 DEF Event
<1> QED
  BY <1>5, <1>6, <1>7

\* Neither rows nor log changed: they still tell the same story.
LEMMA AuditUnchanged ==
  ASSUME AuditInv, UNCHANGED <<pol, src, att, log>>
  PROVE  AuditInv'
  BY DEF AuditInv, AuditAtomic, Event, BornPolicies, BornSources

\* What has to be shown of the next state.
LEMMA AuditParts ==
  ASSUME AuditInv, IsFiniteSet(BornPolicies'), IsFiniteSet(BornSources'),
         Cardinality(BornPolicies') = Cardinality(Event("policy", "created")'),
         Cardinality(BornSources') = Cardinality(Event("source", "created")'),
         \A p \in PolicyIds :
            pol'[p].st = "deleted" <=> \E e \in Event("policy", "deleted")' : e.p = p,
         \A a \in SourceIds :
            src'[a] = "deleted" <=> \E e \in Event("source", "deleted")' : e.a = a,
         \A x \in att' :
            x \in att \/ \E e \in Event("policy", "attached")' \cup Event("backup", "triggered")' :
                            e.id = x.id /\ e.p = x.policy /\ e.a = x.source,
         Event("policy", "attached") \subseteq Event("policy", "attached")',
         Event("backup", "triggered") \subseteq Event("backup", "triggered")'
  PROVE  AuditInv'
<1>1. \A x \in att :
        \E e \in Event("policy", "attached")' \cup Event("backup", "triggered")' :
              e.id = x.id /\ e.p = x.policy /\ e.a = x.source
  BY DEF AuditInv, AuditAtomic
<1> QED
  BY <1>1 DEF AuditInv, AuditAtomic, BornPolicies, BornSources

\* What is known of this one.
LEMMA AuditSays ==
  ASSUME AuditInv
  PROVE  /\ IsFiniteSet(BornPolicies) /\ IsFiniteSet(BornSources)
         /\ Cardinality(BornPolicies) = Cardinality(Event("policy", "created"))
         /\ Cardinality(BornSources) = Cardinality(Event("source", "created"))
         /\ \A p \in PolicyIds :
               pol[p].st = "deleted" <=> \E e \in Event("policy", "deleted") : e.p = p
         /\ \A a \in SourceIds :
               src[a] = "deleted" <=> \E e \in Event("source", "deleted") : e.a = a
  BY DEF AuditInv, AuditAtomic, BornPolicies, BornSources

\* A commit that changes policies.
LEMMA AuditPolicy ==
  ASSUME PlaneInv, AuditInv, NEW q \in Requests, CommitsPolicy(q)
  PROVE  AuditInv'
<1> USE NoneIsNoId DEF Committing
<1>1. Committed(q) /\ req[q].pc = "flushed" /\ Target(req[q])
  BY CommitPolicyRows DEF PlaneInv, ReqInv
<1>2. \A kind, op : Event(kind, op) \subseteq Event(kind, op)'
  BY <1>1, EventAdded
<1>3. EventOf(q).id = req[q].id /\ EventOf(q).p = req[q].p /\ EventOf(q).a = req[q].a
  BY DEF EventOf
<1>4. ASSUME NEW p \in PolicyIds, CommitCreatePolicy(q, p)
      PROVE  AuditInv'
  <2>1. req[q].kind = "policy" /\ req[q].op = "created" /\ UNCHANGED <<src, att>>
    BY <1>4 DEF CommitCreatePolicy
  <2>2. pol[p].st = "unborn" /\ pol'[p].st = "live"
        /\ \A r \in PolicyIds : r # p => pol'[r] = pol[r]
    BY <1>4 DEF CommitCreatePolicy, PlaneInv, RowInv, LiveRow
  <2>3. BornPolicies' = BornPolicies \cup {p} /\ p \notin BornPolicies
    BY <2>2 DEF BornPolicies
  <2>4. /\ IsFiniteSet(BornPolicies')
        /\ Cardinality(BornPolicies') = Cardinality(BornPolicies) + 1
    BY <2>3, FS_AddElement DEF AuditInv
  <2> QED
    BY <1>1, <1>2, <2>1, <2>2, <2>4, EventAdded
       DEF AuditInv, AuditAtomic, BornPolicies, BornSources
<1>5. ASSUME NEW other \in BOOLEAN, CommitUpdatePolicy(q, other)
      PROVE  AuditInv'
  <2>1. req[q].kind = "policy" /\ req[q].op = "updated" /\ UNCHANGED <<src, att>>
    BY <1>5 DEF CommitUpdatePolicy
  <2>2. req[q].p \in PolicyIds
    BY <1>1, <2>1 DEF Target
  <2>3. \A p \in PolicyIds : pol'[p].st = pol[p].st
    BY <1>5, <2>2 DEF CommitUpdatePolicy, PlaneInv, RowInv, LiveRow
  <2>4. BornPolicies' = BornPolicies /\ BornSources' = BornSources
    BY <2>1, <2>3 DEF BornPolicies, BornSources
  <2>5. \A kind \in {"policy", "source", "backup"}, op \in {"created", "deleted", "attached", "triggered"} :
           Event(kind, op)' = Event(kind, op)
    BY <1>1, <2>1, EventAdded
  <2> QED
    BY <2>1, <2>3, <2>4, <2>5, AuditSays, AuditParts
<1>6. CASE CommitAttachPolicy(q)
  <2> DEFINE x == [id |-> req[q].id, policy |-> req[q].p, source |-> req[q].a]
  <2>1. req[q].kind = "policy" /\ req[q].op = "attached" /\ UNCHANGED <<pol, src>>
    BY <1>6 DEF CommitAttachPolicy
  <2>2. att' = att \cup {x}
    BY <1>6 DEF CommitAttachPolicy
  <2>3. BornPolicies' = BornPolicies /\ BornSources' = BornSources
    BY <2>1 DEF BornPolicies, BornSources
  <2>4. EventOf(q) \in Event("policy", "attached")'
    BY <1>1, <2>1, EventAdded
  <2>5. x.id = req[q].id /\ x.policy = req[q].p /\ x.source = req[q].a
    OBVIOUS
  <2> HIDE DEF x
  <2>6. \A y \in att' : \E e \in Event("policy", "attached")' \cup Event("backup", "triggered")' :
              e.id = y.id /\ e.p = y.policy /\ e.a = y.source
    BY <1>2, <1>3, <2>2, <2>4, <2>5 DEF AuditInv, AuditAtomic
  <2> QED
    BY <1>1, <2>1, <2>3, <2>6, EventAdded
       DEF AuditInv, AuditAtomic, BornPolicies, BornSources
<1>7. CASE CommitDeletePolicy(q)
  <2> DEFINE p == req[q].p
  <2>1. req[q].kind = "policy" /\ req[q].op = "deleted" /\ src' = src
    BY <1>7 DEF CommitDeletePolicy
  <2>2. p \in PolicyIds /\ pol[p].st # "unborn"
    BY <1>1, <2>1 DEF Target, PlaneInv, ReqInv
  <2>3. pol'[p].st = "deleted" /\ \A r \in PolicyIds : r # p => pol'[r] = pol[r]
    BY <1>7, <2>2 DEF CommitDeletePolicy, PlaneInv, RowInv, GoneRow
  <2>4. BornPolicies' = BornPolicies /\ BornSources' = BornSources
    BY <2>1, <2>2, <2>3 DEF BornPolicies, BornSources
  <2>5. att' \subseteq att
    BY <1>7 DEF CommitDeletePolicy
  <2>6. Event("policy", "deleted")' = Event("policy", "deleted") \cup {EventOf(q)}
    BY <1>1, <2>1, EventAdded
  <2>7. \A r \in PolicyIds :
           pol'[r].st = "deleted" <=> \E e \in Event("policy", "deleted")' : e.p = r
    BY <1>3, <2>3, <2>6 DEF AuditInv, AuditAtomic
  <2>8. /\ Event("policy", "created")' = Event("policy", "created")
        /\ Event("source", "created")' = Event("source", "created")
        /\ Event("source", "deleted")' = Event("source", "deleted")
        /\ Event("policy", "attached")' = Event("policy", "attached")
        /\ Event("backup", "triggered")' = Event("backup", "triggered")
    BY <1>1, <2>1, EventAdded
  <2> QED
    BY <1>2, <2>1, <2>4, <2>5, <2>7, <2>8, AuditSays, AuditParts
<1> QED
  BY <1>4, <1>5, <1>6, <1>7 DEF CommitsPolicy

\* A commit that changes sources or jobs.
LEMMA AuditSource ==
  ASSUME PlaneInv, AuditInv, NEW q \in Requests, CommitsSource(q)
  PROVE  AuditInv'
<1> USE NoneIsNoId DEF Committing
<1>1. Committed(q) /\ req[q].pc = "flushed" /\ Target(req[q])
  BY CommitSourceRows DEF PlaneInv, ReqInv
<1>2. \A kind, op : Event(kind, op) \subseteq Event(kind, op)'
  BY <1>1, EventAdded
<1>3. EventOf(q).id = req[q].id /\ EventOf(q).p = req[q].p /\ EventOf(q).a = req[q].a
  BY DEF EventOf
<1>4. ASSUME NEW a \in SourceIds, CommitCreateSource(q, a)
      PROVE  AuditInv'
  <2>1. req[q].kind = "source" /\ req[q].op = "created" /\ UNCHANGED <<pol, att>>
    BY <1>4 DEF CommitCreateSource
  <2>2. src[a] = "unborn" /\ src'[a] = "live"
        /\ \A r \in SourceIds : r # a => src'[r] = src[r]
    BY <1>4 DEF CommitCreateSource, PlaneInv, RowInv
  <2>3. BornSources' = BornSources \cup {a} /\ a \notin BornSources
    BY <2>2 DEF BornSources
  <2>4. /\ IsFiniteSet(BornSources')
        /\ Cardinality(BornSources') = Cardinality(BornSources) + 1
    BY <2>3, FS_AddElement DEF AuditInv
  <2> QED
    BY <1>1, <1>2, <2>1, <2>2, <2>4, EventAdded
       DEF AuditInv, AuditAtomic, BornPolicies, BornSources
<1>5. ASSUME NEW other \in BOOLEAN, CommitUpdateSource(q, other)
      PROVE  AuditInv'
  <2>1. req[q].kind = "source" /\ req[q].op = "updated" /\ UNCHANGED <<pol, src, att>>
    BY <1>5 DEF CommitUpdateSource
  <2> QED
    BY <1>1, <1>2, <2>1, EventAdded DEF AuditInv, AuditAtomic, BornPolicies, BornSources
<1>6. CASE CommitDeleteSource(q)
  <2> DEFINE a == req[q].a
  <2>1. req[q].kind = "source" /\ req[q].op = "deleted" /\ pol' = pol
    BY <1>6 DEF CommitDeleteSource
  <2>2. a \in SourceIds /\ src[a] # "unborn"
    BY <1>1, <2>1 DEF Target, PlaneInv, ReqInv
  <2>3. src'[a] = "deleted" /\ \A r \in SourceIds : r # a => src'[r] = src[r]
    BY <1>6, <2>2 DEF CommitDeleteSource, PlaneInv, RowInv
  <2>4. BornPolicies' = BornPolicies /\ BornSources' = BornSources
    BY <2>1, <2>2, <2>3 DEF BornPolicies, BornSources
  <2>5. att' \subseteq att
    BY <1>6 DEF CommitDeleteSource
  <2>6. Event("source", "deleted")' = Event("source", "deleted") \cup {EventOf(q)}
    BY <1>1, <2>1, EventAdded
  <2>7. \A r \in SourceIds :
           src'[r] = "deleted" <=> \E e \in Event("source", "deleted")' : e.a = r
    BY <1>3, <2>3, <2>6 DEF AuditInv, AuditAtomic
  <2>8. /\ Event("policy", "created")' = Event("policy", "created")
        /\ Event("source", "created")' = Event("source", "created")
        /\ Event("policy", "deleted")' = Event("policy", "deleted")
        /\ Event("policy", "attached")' = Event("policy", "attached")
        /\ Event("backup", "triggered")' = Event("backup", "triggered")
    BY <1>1, <2>1, EventAdded
  <2> QED
    BY <1>2, <2>1, <2>4, <2>5, <2>7, <2>8, AuditSays, AuditParts
<1>7. CASE CommitTriggerBackup(q)
  <2> DEFINE x == [id |-> req[q].id, policy |-> None, source |-> req[q].a]
  <2>1. req[q].kind = "backup" /\ req[q].op = "triggered" /\ UNCHANGED <<pol, src>>
    BY <1>7 DEF CommitTriggerBackup
  <2>2. att' = att \cup {x}
    BY <1>7 DEF CommitTriggerBackup
  <2>3. BornPolicies' = BornPolicies /\ BornSources' = BornSources
    BY <2>1 DEF BornPolicies, BornSources
  <2>4. EventOf(q) \in Event("backup", "triggered")'
    BY <1>1, <2>1, EventAdded
  <2>5. x.id = req[q].id /\ x.policy = req[q].p /\ x.source = req[q].a
    BY <1>1, <2>1 DEF Target
  <2> HIDE DEF x
  <2>6. \A y \in att' : \E e \in Event("policy", "attached")' \cup Event("backup", "triggered")' :
              e.id = y.id /\ e.p = y.policy /\ e.a = y.source
    BY <1>2, <1>3, <2>2, <2>4, <2>5 DEF AuditInv, AuditAtomic
  <2> QED
    BY <1>1, <2>1, <2>3, <2>6, EventAdded
       DEF AuditInv, AuditAtomic, BornPolicies, BornSources
<1> QED
  BY <1>4, <1>5, <1>6, <1>7 DEF CommitsSource

\* Every step keeps rows and log together.
LEMMA AuditStep == PlaneInv /\ AuditInv /\ [Next]_vars => AuditInv'
<1> SUFFICES ASSUME PlaneInv, AuditInv, [Next]_vars
             PROVE  AuditInv'
  OBVIOUS
<1>1. ASSUME NEW q \in Requests, Begins(q) \/ Flush(q) \/ Abort(q)
      PROVE  UNCHANGED <<pol, src, att, log>>
  BY <1>1, PlaneBegins DEF Flush, Abort
<1>2. ASSUME (\E f \in Filters : ExportAuditLog(f)) \/ Tick \/ UNCHANGED vars
      PROVE  UNCHANGED <<pol, src, att, log>>
  BY <1>2 DEF ExportAuditLog, Tick, vars
<1> QED
  BY <1>1, <1>2, StepKinds, AuditUnchanged, AuditPolicy, AuditSource

\* An empty log tells the story of an empty database.
LEMMA AuditInit == Init => AuditInv
<1> SUFFICES ASSUME Init
             PROVE  AuditInv
  OBVIOUS
<1>1. BornPolicies = {} /\ BornSources = {}
  BY DEF Init, BornPolicies, BornSources, NoRow
<1>2. \A kind, op : Event(kind, op) = {}
  BY DEF Init, Event
<1>3. IsFiniteSet(BornPolicies) /\ IsFiniteSet(BornSources)
  BY <1>1, FS_EmptySet
<1>4. AuditAtomic
  BY <1>1, <1>2 DEF Init, AuditAtomic, BornPolicies, BornSources, NoRow
<1> QED
  BY <1>3, <1>4 DEF AuditInv

\* The committed log and the rows tell the same story at every moment: each
\* creation, deletion, attachment and job has its event and each such event its
\* change, whatever is aborted and however requests overlap.
THEOREM AuditSharesTransaction == Spec => []AuditAtomic
<1>1. PlaneInv /\ AuditInv /\ [Next]_vars => AuditInv'
  BY AuditStep
<1>2. AuditInv => AuditAtomic
  BY DEF AuditInv
<1> QED
  BY <1>1, <1>2, AuditInit, PlaneCorrect, PTL DEF Spec

-----------------------------------------------------------------------------
(* ExportVerifies.  An export keeps verifying because a settled filter stays *)
(* settled, which is what has to be carried along.                         *)

ExportInv ==
    \A x \in exports :
        /\ x.filter \in Filters
        /\ x.settled => VerifyExport(x) /\ Settled(x.filter)

\* A full page of the lowest ids is not changed by a row with a higher id.
LEMMA FullPageStays ==
  ASSUME NEW S, IsFiniteSet(S), NEW e, NEW n \in Nat,
         \A x \in S \cup {e} : x.id \in Nat,
         Cardinality(FirstRows(S, n)) = n,
         \A x \in FirstRows(S, n) : x.id < e.id
  PROVE  FirstRows(S \cup {e}, n) = FirstRows(S, n)
<1> DEFINE T == S \cup {e}
           Below(U, x) == {t \in U : t.id < x.id}
<1>1. \A x \in T : /\ IsFiniteSet(Below(S, x)) /\ IsFiniteSet(Below(T, x))
                   /\ Cardinality(Below(S, x)) \in Nat /\ Cardinality(Below(T, x)) \in Nat
                   /\ Cardinality(Below(S, x)) <= Cardinality(Below(T, x))
  <2> TAKE x \in T
  <2>1. IsFiniteSet(T)
    BY FS_AddElement
  <2>2. IsFiniteSet(Below(S, x)) /\ IsFiniteSet(Below(T, x))
    BY <2>1, FS_Subset
  <2>3. Below(S, x) \subseteq Below(T, x)
    OBVIOUS
  <2> HIDE DEF Below
  <2> QED
    BY <2>2, <2>3, FS_Subset, FS_CardinalityType
<1>2. \A U : FirstRows(U, n) = {x \in U : Cardinality(Below(U, x)) < n}
  BY DEF FirstRows
<1>3. \A x \in FirstRows(S, n) : x \in S /\ Below(T, x) = Below(S, x)
  <2> TAKE x \in FirstRows(S, n)
  <2>1. x \in S
    BY DEF FirstRows
  <2>2. ~(e.id < x.id)
    BY <2>1
  <2> QED
    BY <2>1, <2>2
<1>4. ASSUME NEW x \in FirstRows(S, n)
      PROVE  x \in FirstRows(T, n)
  BY <1>2, <1>3, <1>4
<1>5. ASSUME NEW x \in FirstRows(T, n), x \in S
      PROVE  x \in FirstRows(S, n)
  <2> HIDE DEF Below
  <2> QED
    BY <1>1, <1>2, <1>5
<1>6. ASSUME e \in FirstRows(T, n)
      PROVE  FALSE
  <2>1. FirstRows(S, n) \subseteq Below(T, e)
    BY <1>2
  <2>2. Cardinality(FirstRows(S, n)) <= Cardinality(Below(T, e))
    BY <1>1, <2>1, FS_Subset
  <2>3. Cardinality(Below(T, e)) < n
    BY <1>2, <1>6
  <2>4. Cardinality(Below(T, e)) \in Nat
    BY <1>1
  <2> HIDE DEF Below
  <2> QED
    BY <2>2, <2>3, <2>4
<1>7. \A x \in FirstRows(T, n) : x \in T
  BY <1>2
<1> QED
  BY <1>4, <1>5, <1>6, <1>7

\* The page of an export is part of the log, and the log is finite.
LEMMA RowsInLog ==
  ASSUME PlaneInv, NEW f
  PROVE  Rows(f) \subseteq Matching(f) /\ Matching(f) \subseteq log /\ IsFiniteSet(Matching(f))
<1>1. Rows(f) \subseteq Matching(f) /\ Matching(f) \subseteq log
  BY DEF Rows, FirstRows, Matching
<1> QED
  BY <1>1, FS_Subset DEF PlaneInv, LogInv

\* A step that leaves the log alone, and only lets requests begin, get a fresh
\* id or end, keeps a settled filter settled.
LEMMA SettledWithLog ==
  ASSUME PlaneInv, NEW f \in Filters, Settled(f), log' = log, clock' \in Nat, clock <= clock',
         \A q \in Requests :
            \/ req'[q].pc = "idle"
            \/ req'[q] = req[q]
            \/ req'[q].pc = "read" /\ req'[q].since = clock
            \/ /\ req[q].pc # "idle" /\ req'[q].since = req[q].since
               /\ req'[q].pc = "flushed" /\ req'[q].id = seq
  PROVE  Settled(f)' /\ Rows(f)' = Rows(f)
<1>1. Rows(f)' = Rows(f)
  <2>1. Matching(f)' = Matching(f)
    BY DEF Matching
  <2> QED
    BY <2>1 DEF Rows, FirstRows
<1>2. f.until \in Nat /\ clock \in Nat /\ seq \in Nat
  BY DocAssumption DEF PlaneInv, RowInv
<1>3. \A e \in Rows(f) : e.id < seq
  BY RowsInLog DEF PlaneInv, LogInv
<1>4. CASE /\ f.until # None /\ f.until < clock
           /\ \A q \in Requests : req[q].pc # "idle" => f.until < req[q].since
  <2>1. f.until < clock'
    BY <1>2, <1>4
  <2>2. \A q \in Requests : req'[q].pc # "idle" => f.until < req'[q].since
    BY <1>4
  <2> QED
    BY <1>1, <1>4, <2>1, <2>2 DEF Settled
<1>5. CASE /\ Cardinality(Rows(f)) = f.limit
           /\ \A q \in Requests : req[q].pc = "flushed" => \A e \in Rows(f) : e.id < req[q].id
  BY <1>1, <1>3, <1>5 DEF Settled
<1> QED
  BY <1>1, <1>4, <1>5 DEF Settled

\* A commit keeps a settled filter settled, and the page as it is: the event is
\* too late for the filter's bound, or comes after a full page.
LEMMA SettledCommit ==
  ASSUME PlaneInv, NEW f \in Filters, Settled(f), NEW q \in Requests,
         req[q].pc = "flushed", Committed(q)
  PROVE  Settled(f)' /\ Rows(f)' = Rows(f)
<1> DEFINE e == EventOf(q)
<1>1. log' = log \cup {e} /\ clock' = clock
  BY DEF Committed, EventOf
<1>2. e.id = req[q].id /\ e.time = req[q].time
  BY DEF EventOf
<1>3. req'[q].pc = "idle" /\ \A r \in Requests : r # q => req'[r] = req[r]
  BY DEF Committed, PlaneInv, ReqInv, IdleReq
<1>4. f.until \in Nat /\ f.limit \in Nat /\ clock \in Nat
  BY DocAssumption DEF PlaneInv, RowInv
<1>5. req[q].since \in Nat /\ req[q].time \in Nat /\ req[q].since <= req[q].time /\ req[q].id \in Nat
  BY DEF PlaneInv, ReqInv
<1> HIDE DEF e
<1>6. Matching(f)' \in {Matching(f), Matching(f) \cup {e}}
  BY <1>1 DEF Matching
<1>7. CASE /\ f.until # None /\ f.until < clock
           /\ \A r \in Requests : req[r].pc # "idle" => f.until < req[r].since
  <2>1. ~(e.time <= f.until)
    BY <1>2, <1>4, <1>5, <1>7
  <2>2. Matching(f)' = Matching(f)
    BY <1>1, <1>7, <2>1 DEF Matching
  <2>3. Rows(f)' = Rows(f)
    BY <2>2 DEF Rows, FirstRows
  <2>4. Settled(f)'
    BY <1>1, <1>3, <1>7 DEF Settled
  <2> QED
    BY <2>3, <2>4
<1>8. CASE /\ Cardinality(Rows(f)) = f.limit
           /\ \A r \in Requests : req[r].pc = "flushed" => \A x \in Rows(f) : x.id < req[r].id
  <2>1. Rows(f)' = Rows(f)
    <3>1. CASE Matching(f)' = Matching(f)
      BY <3>1 DEF Rows, FirstRows
    <3>2. CASE Matching(f)' = Matching(f) \cup {e}
      <4>1. \A x \in Matching(f) \cup {e} : x.id \in Nat
        BY <1>2, <1>5, RowsInLog DEF PlaneInv, LogInv
      <4>2. \A x \in Rows(f) : x.id < e.id
        BY <1>2, <1>8
      <4>3. FirstRows(Matching(f) \cup {e}, f.limit) = FirstRows(Matching(f), f.limit)
        BY <1>4, <1>8, <4>1, <4>2, RowsInLog, FullPageStays DEF Rows
      <4>4. Rows(f)' = FirstRows(Matching(f)', f.limit)
        BY DEF Rows, FirstRows
      <4> QED
        BY <3>2, <4>3, <4>4 DEF Rows
    <3> QED
      BY <1>6, <3>1, <3>2
  <2>2. Settled(f)'
    BY <1>3, <1>8, <2>1 DEF Settled
  <2> QED
    BY <2>1, <2>2
<1> QED
  BY <1>7, <1>8 DEF Settled

\* What a handler that begins does to the requests.
LEMMA BeginsReq ==
  ASSUME PlaneInv, NEW q \in Requests, Begins(q)
  PROVE  /\ req'[q].pc = "read" /\ req'[q].since = clock
         /\ \A r \in Requests : r # q => req'[r] = req[r]
         /\ UNCHANGED <<log, clock, exports>>
<1>1. ASSUME NEW kind, NEW op, NEW p, NEW a, NEW doc,
             Begin(q, kind, op, p, a, doc)
      PROVE  /\ req'[q].pc = "read" /\ req'[q].since = clock
             /\ \A r \in Requests : r # q => req'[r] = req[r]
             /\ UNCHANGED <<log, clock, exports>>
  BY <1>1 DEF Begin, PlaneInv, ReqInv
<1> QED
  BY <1>1 DEF Begins, CreatePolicy, UpdatePolicy, AttachPolicy, DeletePolicy, CreateSource,
     UpdateSource, DeleteSource, TriggerBackup

\* What a flush does to the requests.
LEMMA FlushReq ==
  ASSUME PlaneInv, NEW q \in Requests, Flush(q)
  PROVE  /\ req[q].pc # "idle" /\ req'[q].pc = "flushed"
         /\ req'[q].since = req[q].since /\ req'[q].id = seq
         /\ \A r \in Requests : r # q => req'[r] = req[r]
         /\ UNCHANGED <<log, clock, exports>>
<1>1. Shape(req[q])
  BY DEF PlaneInv, ReqInv
<1>2. PICK t \in req[q].since..clock :
        req' = [req EXCEPT ![q] =
                    [@ EXCEPT !.pc = "flushed", !.id = seq, !.time = t,
                              !.load = IF req[q].op = "deleted"
                                       THEN AttachedTo(req[q].kind, req[q].p, req[q].a)
                                       ELSE {}]]
  BY DEF Flush
<1>3. \A r \in Requests : r # q => req'[r] = req[r]
  BY <1>2 DEF PlaneInv, ReqInv
<1>4. req'[q].pc = "flushed" /\ req'[q].since = req[q].since /\ req'[q].id = seq
  BY <1>1, <1>2 DEF PlaneInv, ReqInv, Shape
<1> QED
  BY <1>3, <1>4 DEF Flush

\* A settled filter stays settled and its page as it is, whatever happens.
LEMMA SettledStays ==
  ASSUME PlaneInv, [Next]_vars, NEW f \in Filters, Settled(f)
  PROVE  Settled(f)' /\ Rows(f)' = Rows(f)
<1>0. clock \in Nat
  BY DocAssumption DEF PlaneInv, RowInv
<1>1. ASSUME NEW q \in Requests, Begins(q)
      PROVE  Settled(f)' /\ Rows(f)' = Rows(f)
  BY <1>0, <1>1, BeginsReq, SettledWithLog
<1>2. ASSUME NEW q \in Requests, Flush(q)
      PROVE  Settled(f)' /\ Rows(f)' = Rows(f)
  BY <1>0, <1>2, FlushReq, SettledWithLog
<1>3. ASSUME NEW q \in Requests, Abort(q)
      PROVE  Settled(f)' /\ Rows(f)' = Rows(f)
  <2>1. \A r \in Requests : req'[r].pc = "idle" \/ req'[r] = req[r]
    BY <1>3 DEF Abort, PlaneInv, ReqInv, IdleReq
  <2>2. log' = log /\ clock' = clock
    BY <1>3 DEF Abort
  <2> QED
    BY <1>0, <2>1, <2>2, SettledWithLog
<1>4. ASSUME NEW q \in Requests, CommitsPolicy(q) \/ CommitsSource(q)
      PROVE  Settled(f)' /\ Rows(f)' = Rows(f)
  BY <1>4, CommitPolicyRows, CommitSourceRows, SettledCommit
<1>5. CASE (\E g \in Filters : ExportAuditLog(g)) \/ Tick \/ UNCHANGED vars
  <2>1. log' = log /\ req' = req /\ clock' \in Nat /\ clock <= clock'
    BY <1>0, <1>5 DEF ExportAuditLog, Tick, vars
  <2> QED
    BY <2>1, SettledWithLog
<1> QED
  BY <1>1, <1>2, <1>3, <1>4, <1>5, StepKinds

\* Only an export replaces the export a client keeps.
LEMMA ExportsKept ==
  ASSUME PlaneInv, [Next]_vars, ~ \E f \in Filters : ExportAuditLog(f)
  PROVE  exports' = exports
<1>1. ASSUME NEW q \in Requests, CommitsPolicy(q) \/ CommitsSource(q)
      PROVE  exports' = exports
  BY <1>1, CommitPolicyRows, CommitSourceRows DEF Committed
<1> QED
  BY <1>1, StepKinds, BeginsReq, FlushReq DEF Abort, Tick, vars

\* The export a client keeps goes on verifying.
LEMMA ExportStep == PlaneInv /\ ExportInv /\ [Next]_vars => ExportInv'
<1> SUFFICES ASSUME PlaneInv, ExportInv, [Next]_vars
             PROVE  ExportInv'
  OBVIOUS
<1>1. ASSUME NEW f \in Filters, ExportAuditLog(f)
      PROVE  ExportInv'
  <2> DEFINE x == [filter |-> f, rows |-> Rows(f), settled |-> Settled(f)]
  <2>1. exports' = {x} /\ UNCHANGED <<log, req, clock>>
    BY <1>1 DEF ExportAuditLog
  <2>2. x.filter = f /\ x.rows = Rows(f) /\ (x.settled <=> Settled(f))
    OBVIOUS
  <2> HIDE DEF x
  <2>3. x.settled => Settled(f)' /\ Rows(f)' = Rows(f)
    BY <2>2, SettledStays
  <2> QED
    BY <2>1, <2>2, <2>3 DEF ExportInv, VerifyExport
<1>2. CASE ~ \E f \in Filters : ExportAuditLog(f)
  <2>1. exports' = exports
    BY <1>2, ExportsKept
  <2> SUFFICES ASSUME NEW x \in exports
               PROVE  /\ x.filter \in Filters
                      /\ x.settled => VerifyExport(x)' /\ Settled(x.filter)'
    BY <2>1 DEF ExportInv
  <2>2. x.filter \in Filters
    BY DEF ExportInv
  <2>3. ASSUME x.settled
        PROVE  VerifyExport(x)' /\ Settled(x.filter)'
    <3>1. Rows(x.filter) = x.rows /\ Settled(x.filter)
      BY <2>3 DEF ExportInv, VerifyExport
    <3>2. Settled(x.filter)' /\ Rows(x.filter)' = Rows(x.filter)
      BY <2>2, <3>1, SettledStays
    <3> QED
      BY <3>1, <3>2 DEF VerifyExport
  <2> QED
    BY <2>2, <2>3
<1> QED
  BY <1>1, <1>2

\* An export that was settled when it was made verifies for ever, whatever
\* requests were in flight and however the log grows.
THEOREM SettledExportsVerify == Spec => []ExportVerifies
<1>1. PlaneInv /\ ExportInv /\ [Next]_vars => ExportInv'
  BY ExportStep
<1>2. Init => ExportInv
  BY DEF Init, ExportInv
<1>3. ExportInv => ExportVerifies
  BY DEF ExportInv, ExportVerifies
<1> QED
  BY <1>1, <1>2, <1>3, PlaneCorrect, PTL DEF Spec
=============================================================================
