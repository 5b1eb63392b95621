---------------------------- MODULE ControlPlane ----------------------------
(***************************************************************************)
(* The handlers that administer policies and sources, the audit rows they  *)
(* write in the same transaction, and the signed export of the audit log:  *)
(*                                                                         *)
(*   app/api/policies.py    create, update, attach, delete                 *)
(*   app/api/sources.py     create, update, delete                         *)
(*   app/api/backups.py     trigger_backup, up to its first commit         *)
(*   app/core/audit.py      log_event                                      *)
(*   app/api/compliance.py  export_audit_log, verify_export_signature      *)
(*                                                                         *)
(* A request reads the rows it needs, flushes (the audit row gets its id   *)
(* and created_at), and commits; requests interleave between these steps.  *)
(* Row locks last from a write to the commit, so the write is put at the   *)
(* commit; a request that had to wait sees the row as it then is.  One     *)
(* tenant: every query filters by tenant_id.  A policy document is the     *)
(* function from the settings it mentions to the YAML values it gives      *)
(* them, of whatever type; canonical JSON and HMAC are injective, so a     *)
(* signature is the set of signed rows.                                    *)
(***************************************************************************)
EXTENDS Integers, FiniteSets

CONSTANTS
    PolicyIds, SourceIds,
    Requests,     \* concurrent requests
    Docs,         \* policy documents
    Required,     \* settings the schema insists on: the int() ones
    Flags,        \* the bool() ones of the optional settings; the others are float()
    Default,      \* optional settings with the value an absent one gets
    Filters,      \* query parameters of an export
    MaxEvents,    \* bound: audit ids issued
    MaxClock      \* bound: clock units

None  == 0
NoDoc == [k \in {} |-> 0]
Keys  == Required \cup DOMAIN Default

ASSUME DocAssumption ==
    /\ MaxEvents \in Nat /\ MaxClock \in Nat \ {0}
    /\ None \notin PolicyIds /\ None \notin SourceIds
    /\ NoDoc \notin Docs
    /\ Required \cap DOMAIN Default = {} /\ Flags \subseteq DOMAIN Default
    /\ \A d \in Docs : Required \subseteq DOMAIN d /\ DOMAIN d \subseteq Keys
    /\ \A f \in Filters : f.limit \in Nat \ {0} /\ f.since \in Nat /\ f.until \in Nat

VARIABLES
    pol,          \* backup_policies: life of the id, document, parsed columns
    src,          \* data_sources: life of the id
    att,          \* policy_attachments rows, and backup_jobs rows (no policy)
    log,          \* committed audit_logs rows
    seq,          \* next audit id
    clock,
    req,          \* requests in flight
    exports       \* the export a client keeps, with its filter

vars == <<pol, src, att, log, seq, clock, req, exports>>

NoRow     == [st |-> "unborn", yaml |-> NoDoc, cols |-> NoDoc]
GoneRow   == [st |-> "deleted", yaml |-> NoDoc, cols |-> NoDoc]
LiveRow(doc, cols) == [st |-> "live", yaml |-> doc, cols |-> cols]

\* since: when the request was taken up; seen: the policy row an update loaded; load:
\* the attachments and jobs its delete cascades to.
IdleReq == [pc |-> "idle", kind |-> "policy", op |-> "created", p |-> None, a |-> None,
            doc |-> NoDoc, seen |-> NoRow, load |-> {}, since |-> 0, id |-> 0, time |-> 0]

Init ==
    /\ pol = [p \in PolicyIds |-> NoRow]
    /\ src = [a \in SourceIds |-> "unborn"]
    /\ att = {} /\ log = {} /\ seq = 1 /\ clock = 1
    /\ req = [q \in Requests |-> IdleReq]
    /\ exports = {}

Tick ==
    /\ clock < MaxClock
    /\ clock' = clock + 1
    /\ UNCHANGED <<pol, src, att, log, seq, req, exports>>

-----------------------------------------------------------------------------
(* Steps all handlers share.                                               *)

\* The handler has read its rows and goes on.
Begin(q, kind, op, p, a, doc) ==
    /\ req[q].pc = "idle"
    /\ seq <= MaxEvents
    /\ req' = [req EXCEPT ![q] =
                 [pc |-> "read", kind |-> kind, op |-> op, p |-> p, a |-> a, doc |-> doc,
                  seen |-> IF p # None /\ op = "updated" THEN pol[p] ELSE NoRow, load |-> {},
                  since |-> clock, id |-> 0, time |-> 0]]
    /\ UNCHANGED <<pol, src, att, log, seq, clock, exports>>

AttachedTo(kind, p, a) ==
    {x \in att : IF kind = "policy" THEN x.policy = p ELSE x.source = a}

\* The audit row is sent to the database: created_at was taken some time since
\* the request began, the id comes from the sequence.  A delete has loaded the
\* attachments and jobs it cascades to.
Flush(q) ==
    /\ req[q].pc = "read"
    /\ seq <= MaxEvents
    /\ \E t \in req[q].since..clock :
          req' = [req EXCEPT ![q] =
                    [@ EXCEPT !.pc = "flushed", !.id = seq, !.time = t,
                              !.load = IF req[q].op = "deleted"
                                       THEN AttachedTo(req[q].kind, req[q].p, req[q].a)
                                       ELSE {}]]
    /\ seq' = seq + 1
    /\ UNCHANGED <<pol, src, att, log, clock, exports>>

\* The audit row's commit, in the transaction of the change it records.  Events
\* of a creation name no resource.
Committing(q, kind, op) == req[q].pc = "flushed" /\ req[q].kind = kind /\ req[q].op = op

Committed(q) ==
    /\ log' = log \cup {[id |-> req[q].id, time |-> req[q].time, kind |-> req[q].kind,
                         op |-> req[q].op, p |-> req[q].p, a |-> req[q].a]}
    /\ req' = [req EXCEPT ![q] = IdleReq]
    /\ UNCHANGED <<seq, clock, exports>>

\* Any exception (invalid document, foreign key, a stale row, a lost connection)
\* or the end of the process: nothing is written, the id is used up.
AbortLogged(q) ==                                                     \* mutant
    req[q].pc = "flushed" /\ Committed(q) /\ UNCHANGED <<pol, src, att>>
Abort(q) ==
    /\ req[q].pc # "idle"
    /\ req' = [req EXCEPT ![q] = IdleReq]
    /\ UNCHANGED <<pol, src, att, log, seq, clock, exports>>

-----------------------------------------------------------------------------
(* Policies.                                                               *)

\* The YAML values a document may give a setting: a number (counted in halves, so
\* that there are whole ones and others), true and false, a text that spells a
\* number, any other text, and nothing ("", null).
Number(v)  == [t |-> "number", v |-> v]
Flag(b)    == [t |-> "flag", v |-> IF b THEN 1 ELSE 0]
Numeral(v) == [t |-> "numeral", v |-> v]
Text       == [t |-> "text", v |-> 0]
Nothing    == [t |-> "nothing", v |-> 0]

\* int(): towards zero; the text of a fraction is refused, as is any other text.
HasInt(x) == x.t \in {"number", "flag"} \/ (x.t = "numeral" /\ x.v % 2 = 0)
AsInt(x)  == IF x.t = "flag" THEN x.v
             ELSE IF x.v >= 0 THEN x.v \div 2 ELSE - ((- x.v) \div 2)

\* float(), in halves.
HasFloat(x) == x.t \in {"number", "flag", "numeral"}
AsFloat(x)  == IF x.t = "flag" THEN 2 * x.v ELSE x.v

\* bool(): every text but the empty one is true, "false" and "0" included.
AsBool(x) == x.t \in {"numeral", "text"} \/ (x.t \in {"number", "flag"} /\ x.v # 0)

\* What the column of a setting holds for a value.
Convertible(k, x) == IF k \in Required THEN HasInt(x) ELSE k \in Flags \/ HasFloat(x)
Column(k, x) ==
    IF k \in Required THEN AsInt(x) ELSE IF k \in Flags THEN AsBool(x) ELSE AsFloat(x)

\* _parse_policy_yaml.  A value that does not convert raises before anything is
\* written: the request ends and has changed nothing.
Parses(doc) == \A k \in DOMAIN doc : Convertible(k, doc[k])

ParseRequired(doc) ==                                                 \* mutant
    [k \in Keys |-> IF k \in Required THEN Column(k, doc[k]) ELSE Default[k]]
Parse(doc) == [k \in Keys |-> IF k \in DOMAIN doc THEN Column(k, doc[k]) ELSE Default[k]]

CreatePolicy(q, doc) ==
    /\ Parses(doc)
    /\ Begin(q, "policy", "created", None, None, doc)

CommitCreatePolicy(q, p) ==
    /\ Committing(q, "policy", "created")
    /\ pol[p].st = "unborn"
    /\ pol' = [pol EXCEPT ![p] = LiveRow(req[q].doc, Parse(req[q].doc))]
    /\ Committed(q)
    /\ UNCHANGED <<src, att>>

UpdatePolicy(q, p, doc) ==
    /\ pol[p].st = "live"
    /\ Parses(doc)
    /\ Begin(q, "policy", "updated", p, None, doc)

\* The UPDATE names only the columns whose new value differs from the loaded
\* one; there is none at all when nothing differs.
SetCols(q) ==
    IF req[q].doc = NoDoc THEN {}
    ELSE LET new == Parse(req[q].doc) IN {k \in DOMAIN new : new[k] # req[q].seen.cols[k]}

SetYaml(q) == req[q].doc # NoDoc /\ req[q].doc # req[q].seen.yaml

NetChange(q, other) == other \/ SetYaml(q) \/ SetCols(q) # {}

\* An UPDATE that matches no row raises.  other: the request changes a column that
\* is not parsed from the document (name, is_active...).
CommitUpdatePolicy(q, other) ==
    LET p == req[q].p IN
    /\ Committing(q, "policy", "updated")
    /\ NetChange(q, other) => pol[p].st = "live"
    /\ pol' = IF ~NetChange(q, other) THEN pol
              ELSE [pol EXCEPT ![p] =
                      LiveRow(IF SetYaml(q) THEN req[q].doc ELSE @.yaml,
                              [k \in Keys |-> IF k \in SetCols(q) THEN Parse(req[q].doc)[k]
                                              ELSE pol[p].cols[k]])]
    /\ Committed(q)
    /\ UNCHANGED <<src, att>>

\* attach_policy finds both rows and no attachment of the one to the other.
AttachPolicy(q, p, a) ==
    /\ pol[p].st = "live"
    /\ src[a] = "live"
    /\ \A x \in att : ~(x.policy = p /\ x.source = a)
    /\ Begin(q, "policy", "attached", p, a, NoDoc)

\* The row is named by the audit id written with it.
CommitAttachPolicy(q) ==
    /\ Committing(q, "policy", "attached")
    /\ pol[req[q].p].st = "live"
    /\ src[req[q].a] = "live"
    /\ att' = att \cup {[id |-> req[q].id, policy |-> req[q].p, source |-> req[q].a]}
    /\ Committed(q)
    /\ UNCHANGED <<pol, src>>

DeletePolicy(q, p) ==
    /\ pol[p].st = "live"
    /\ Begin(q, "policy", "deleted", p, None, NoDoc)

\* The cascade deletes what was loaded; an attachment made since violates its
\* foreign key.  A row another request has deleted meanwhile is only warned about.
FkSatisfiedAlways(q) == TRUE                                          \* mutant
FkSatisfied(q) == AttachedTo(req[q].kind, req[q].p, req[q].a) \subseteq req[q].load

CommitDeletePolicy(q) ==
    /\ Committing(q, "policy", "deleted")
    /\ FkSatisfied(q)
    /\ att' = att \ req[q].load
    /\ pol' = [pol EXCEPT ![req[q].p] = GoneRow]
    /\ Committed(q)
    /\ UNCHANGED src

-----------------------------------------------------------------------------
(* Sources.  What else references a source is in SnapshotStore; a deletion *)
(* it prevents is an Abort here.                                           *)

CreateSource(q) == Begin(q, "source", "created", None, None, NoDoc)

CommitCreateSource(q, a) ==
    /\ Committing(q, "source", "created")
    /\ src[a] = "unborn"
    /\ src' = [src EXCEPT ![a] = "live"]
    /\ Committed(q)
    /\ UNCHANGED <<pol, att>>

UpdateSource(q, a) ==
    /\ src[a] = "live"
    /\ Begin(q, "source", "updated", None, a, NoDoc)

CommitUpdateSource(q, other) ==
    /\ Committing(q, "source", "updated")
    /\ other => src[req[q].a] = "live"
    /\ Committed(q)
    /\ UNCHANGED <<pol, src, att>>

DeleteSource(q, a) ==
    /\ src[a] = "live"
    /\ Begin(q, "source", "deleted", None, a, NoDoc)

CommitDeleteSource(q) ==
    /\ Committing(q, "source", "deleted")
    /\ FkSatisfied(q)
    /\ att' = att \ req[q].load
    /\ src' = [src EXCEPT ![req[q].a] = "deleted"]
    /\ Committed(q)
    /\ UNCHANGED pol

\* trigger_backup: the job and its event; the dispatch that follows, and the
\* rest of the job's life, are in JobOrchestrator.
TriggerBackup(q, a) ==
    /\ src[a] = "live"
    /\ Begin(q, "backup", "triggered", None, a, NoDoc)

CommitTriggerBackup(q) ==
    /\ Committing(q, "backup", "triggered")
    /\ src[req[q].a] = "live"
    /\ att' = att \cup {[id |-> req[q].id, policy |-> None, source |-> req[q].a]}
    /\ Committed(q)
    /\ UNCHANGED <<pol, src>>

-----------------------------------------------------------------------------
(* Compliance export.  None in a filter: the parameter was not given.       *)

Matching(f) ==
    {e \in log : /\ f.since = None \/ e.time >= f.since
                 /\ f.until = None \/ e.time <= f.until
                 /\ f.kind = "any" \/ e.kind = f.kind}

\* ORDER BY id ASC LIMIT n.
LastRows(S, n) == {e \in S : Cardinality({t \in S : t.id > e.id}) < n}  \* mutant
FirstRows(S, n) == {e \in S : Cardinality({t \in S : t.id < e.id}) < n}

Rows(f) == FirstRows(Matching(f), f.limit)

\* Nothing still to come can be among the rows of the query: its upper bound
\* lies before now and before every request in flight began, or its limit is
\* reached and no request in flight holds a smaller id.
Settled(f) ==
    \/ /\ f.until # None /\ f.until < clock
       /\ \A q \in Requests : req[q].pc # "idle" => f.until < req[q].since
    \/ /\ Cardinality(Rows(f)) = f.limit
       /\ \A q \in Requests : req[q].pc = "flushed" => \A e \in Rows(f) : e.id < req[q].id

ExportAuditLog(f) ==
    /\ exports' = {[filter |-> f, rows |-> Rows(f), settled |-> Settled(f)]}
    /\ UNCHANGED <<pol, src, att, log, seq, clock, req>>

\* What verify_export_signature answers for a kept export and its filter.
VerifyExport(x) == Rows(x.filter) = x.rows

-----------------------------------------------------------------------------
Policy(q) ==
    \/ \E doc \in Docs : CreatePolicy(q, doc)
    \/ \E p \in PolicyIds, doc \in Docs \cup {NoDoc} : UpdatePolicy(q, p, doc)
    \/ \E p \in PolicyIds, a \in SourceIds : AttachPolicy(q, p, a)
    \/ \E p \in PolicyIds : DeletePolicy(q, p)
    \/ \E p \in PolicyIds : CommitCreatePolicy(q, p)
    \/ \E other \in BOOLEAN : CommitUpdatePolicy(q, other)
    \/ CommitAttachPolicy(q)
    \/ CommitDeletePolicy(q)

Source(q) ==
    \/ CreateSource(q)
    \/ \E a \in SourceIds : UpdateSource(q, a)
    \/ \E a \in SourceIds : DeleteSource(q, a)
    \/ \E a \in SourceIds : CommitCreateSource(q, a)
    \/ \E other \in BOOLEAN : CommitUpdateSource(q, other)
    \/ CommitDeleteSource(q)
    \/ \E a \in SourceIds : TriggerBackup(q, a)
    \/ CommitTriggerBackup(q)

Next ==
    \/ \E q \in Requests : Policy(q) \/ Source(q) \/ Flush(q) \/ Abort(q)
    \/ \E f \in Filters : ExportAuditLog(f)
    \/ Tick

Spec == Init /\ [][Next]_vars

-----------------------------------------------------------------------------
(* Properties.                                                             *)

\* Every attachment belongs to a policy and a source that exist, and every job to
\* a source, though they may be deleted while it is made (models/policy.py 41-42,
\* models/backup.py 28, policies.py 146-159, 175-180), and the rows have their
\* shapes.
TypeOK ==
    /\ \A p \in PolicyIds : \/ pol[p] \in {NoRow, GoneRow}
                            \/ \E d \in Docs : pol[p] = LiveRow(d, pol[p].cols)
    /\ src \in [SourceIds -> {"unborn", "live", "deleted"}]
    /\ \A x \in att : /\ x.policy # None => x.policy \in PolicyIds /\ pol[x.policy].st = "live"
                      /\ x.source \in SourceIds /\ src[x.source] = "live"
    /\ seq \in 1..(MaxEvents + 1) /\ clock \in 1..MaxClock
    /\ \A e \in log : e.id < seq /\ e.time <= clock

Event(kind, op) == {e \in log : e.kind = kind /\ e.op = op}

\* "the audit record and the business operation share the same transaction and
\* either both succeed or both roll back" (audit.py 6-7): the committed log and
\* the rows tell the same story, at every moment and whatever is aborted.
AuditAtomic ==
    /\ Cardinality({p \in PolicyIds : pol[p].st # "unborn"})
         = Cardinality(Event("policy", "created"))
    /\ Cardinality({a \in SourceIds : src[a] # "unborn"})
         = Cardinality(Event("source", "created"))
    /\ \A p \in PolicyIds :
          pol[p].st = "deleted" <=> \E e \in Event("policy", "deleted") : e.p = p
    /\ \A a \in SourceIds :
          src[a] = "deleted" <=> \E e \in Event("source", "deleted") : e.a = a
    /\ \A x \in att :
          \E e \in Event("policy", "attached") \cup Event("backup", "triggered") :
              e.id = x.id /\ e.p = x.policy /\ e.a = x.source

\* The parsed columns say what the document says, as int(), bool() and float()
\* read it.
Agrees(row) ==
    \A k \in Keys :
        row.cols[k] = IF k \in DOMAIN row.yaml THEN Column(k, row.yaml[k]) ELSE Default[k]

\* An update that brings a document and finds, when it commits, the row it
\* loaded leaves every column with what the document gives for it, though the
\* UPDATE names only the columns that changed, and also when earlier overlapping
\* updates had left columns and document apart (policies.py 105-109; "Parsed
\* fields for quick querying", models/policy.py 18).
UpdateAgrees ==
    [][\A q \in Requests :
          /\ Committing(q, "policy", "updated") /\ log' # log
          /\ req'[q].pc = "idle"
          /\ req[q].doc # NoDoc /\ pol[req[q].p] = req[q].seen
          => pol'[req[q].p].yaml = req[q].doc /\ Agrees(pol'[req[q].p])]_vars

\* "verify a stored export is still intact" (compliance.py 206-207): an export
\* that was settled when it was made verifies for ever, whatever requests were
\* in flight and however the log grows.
ExportVerifies == \A x \in exports : x.settled => VerifyExport(x)
=============================================================================
