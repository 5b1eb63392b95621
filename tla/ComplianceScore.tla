-------------------------- MODULE ComplianceScore --------------------------
(***************************************************************************)
(* The compliance score (app/services/compliance_service.py) that the      *)
(* report and score routes (app/api/anomalies.py) compute from a tenant's  *)
(* sources, their attached policies and their unresolved critical alerts.  *)
(*                                                                         *)
(* The state is the part of the database the score reads; the actions are  *)
(* the operations that change it.  A source with several policies is       *)
(* scored by one of them, any one: the query has LIMIT 1 and no order.     *)
(* A deduction is a violation with its points; a score is in hundredths.   *)
(***************************************************************************)
EXTENDS Integers, FiniteSets, FiniteSetsExt

CONSTANTS
    Sources,
    Policies,
    Settings,     \* the settings a policy may have
    Classes,      \* classifications of sources
    NoPolicy

VARIABLES
    class,        \* source.classification
    setting,      \* the columns of a policy
    attached,     \* policies attached to a source
    critical      \* sources with an unresolved critical alert

scoreVars == <<class, setting, attached, critical>>

-----------------------------------------------------------------------------
(* score_source_compliance.  p is a policy or NoPolicy.                    *)

Deduct(failed, control, points) == IF failed THEN {<<control, points>>} ELSE {}

Soc2(s, p) ==
    Deduct(s \in critical, "alert", 25) \cup
    IF p = NoPolicy THEN {<<"policy", 50>>}
    ELSE LET r == setting[p] IN
         Deduct(r.retention < 30, "retention", 25) \cup
         Deduct(~r.checksum, "checksum", 25) \cup
         Deduct(r.rpo > 1440, "rpo", 25)

HipaaHeavy(s, p) ==                                                   \* mutant
    IF p = NoPolicy THEN {<<"policy", 100>>}
    ELSE LET r == setting[p] IN
         Deduct(~r.checksum, "checksum", 50) \cup
         Deduct(~r.dedup, "dedup", 50) \cup
         Deduct(r.retention < 365, "retention", 50)
Hipaa(s, p) ==
    IF p = NoPolicy THEN {<<"policy", 100>>}
    ELSE LET r == setting[p] IN
         Deduct(~r.checksum, "checksum", 33) \cup
         Deduct(~r.dedup, "dedup", 33) \cup
         Deduct(r.retention < 365, "retention", 34)

Pci(s, p) ==
    IF p = NoPolicy THEN {<<"policy", 100>>}
    ELSE LET r == setting[p] IN
         Deduct(r.retention < 365, "retention", 50) \cup
         Deduct(r.frequency > 1440, "frequency", 50)

\* The frameworks that apply to a source, each with its deductions.
Frameworks(s, p) ==
    {<<"soc2", Soc2(s, p)>>} \cup
    (IF class[s] = "pii" THEN {<<"hipaa", Hipaa(s, p)>>} ELSE {}) \cup
    (IF class[s] = "financial" THEN {<<"pci", Pci(s, p)>>} ELSE {})

Points(deductions) == Max({0, 100 - MapThenSumSet(LAMBDA d : d[2], deductions)})

\* round(x / k, 2), in hundredths.
Average(x, k) == (200 * x + k) \div (2 * k)

\* overall_score, and the violations list as a set.
OverallScoreWithoutPci(s, p) ==                                       \* mutant
    LET fs == {f \in Frameworks(s, p) : f[1] # "pci"} IN
    Average(MapThenSumSet(LAMBDA f : Points(f[2]), fs), Cardinality(fs))
OverallScore(s, p) ==
    LET fs == Frameworks(s, p) IN
    Average(MapThenSumSet(LAMBDA f : Points(f[2]), fs), Cardinality(fs))

Violations(s, p) == UNION {{<<f[1], d[1]>> : d \in f[2]} : f \in Frameworks(s, p)}

\* The policy the report reads for a source.
PolicyChoices(s) == IF attached[s] = {} THEN {NoPolicy} ELSE attached[s]

-----------------------------------------------------------------------------
(* The routes, for any set of sources a tenant may have.                   *)

\* generate_report, given the policy that was read for each source.
Report(tenant, policy) ==
    LET total == MapThenSumSet(LAMBDA s : OverallScore(s, policy[s]), tenant)
        k == Cardinality(tenant)
    IN  [overall_score |-> IF tenant = {} THEN 10000 ELSE (2 * total + k) \div (2 * k),
         total_violations |->
             MapThenSumSet(LAMBDA s : Cardinality(Violations(s, policy[s])), tenant)]

\* compliance_report: what it may answer.  compliance_score answers the same
\* overall_score.
ComplianceReports(tenant) ==
    {Report(tenant, policy) :
        policy \in {f \in [tenant -> Policies \cup {NoPolicy}] :
                        \A s \in tenant : f[s] \in PolicyChoices(s)}}

-----------------------------------------------------------------------------
ScoreInit ==
    /\ class \in [Sources -> Classes]
    /\ setting \in [Policies -> Settings]
    /\ attached = [s \in Sources |-> {}]
    /\ critical = {}

\* update_policy: the parsed YAML replaces every column.
UpdatePolicy(p, r) ==
    /\ setting' = [setting EXCEPT ![p] = r]
    /\ UNCHANGED <<class, attached, critical>>

\* update_source: a source is reclassified.
UpdateSource(s, c) ==
    /\ class' = [class EXCEPT ![s] = c]
    /\ UNCHANGED <<setting, attached, critical>>

\* attach_policy: the same policy is attached to a source once.
AttachPolicy(s, p) ==
    /\ p \notin attached[s]
    /\ attached' = [attached EXCEPT ![s] = @ \cup {p}]
    /\ UNCHANGED <<class, setting, critical>>

\* delete_policy takes the attachments with it; another policy may take its place.
DeletePolicy(p) ==
    /\ attached' = [s \in Sources |-> attached[s] \ {p}]
    /\ UNCHANGED <<class, setting, critical>>

\* A backup of encrypted-looking data, a failed restore check or a long gap.
RaiseAlert(s) ==
    /\ s \notin critical
    /\ critical' = critical \cup {s}
    /\ UNCHANGED <<class, setting, attached>>

\* resolve_alert, of the source's last critical alert.
ResolveAlert(s) ==
    /\ s \in critical
    /\ critical' = critical \ {s}
    /\ UNCHANGED <<class, setting, attached>>

ScoreNext ==
    \/ \E p \in Policies : DeletePolicy(p) \/ \E r \in Settings : UpdatePolicy(p, r)
    \/ \E s \in Sources : \/ \E p \in Policies : AttachPolicy(s, p)
                          \/ \E c \in Classes : UpdateSource(s, c)
                          \/ RaiseAlert(s)
                          \/ ResolveAlert(s)

-----------------------------------------------------------------------------
(* Properties.                                                             *)

\* "The violations list includes a human-readable explanation for every
\* deduction" (README.md 327), and conversely: a tenant's score is 100 exactly
\* when the report lists no violation, whatever sources the tenant has, however
\* they are classified and whichever of its policies a source is scored by.
FullScoreIffClean ==
    \A tenant \in SUBSET Sources : \A report \in ComplianceReports(tenant) :
        report.overall_score = 10000 <=> report.total_violations = 0

\* Every fix counts: a change that removes violations of a source and adds none
\* raises the score of that source, under the same policy and classification.
\* The deductions of a framework never exceed its 100 points, so max(0, .) hides
\* no violation (compliance_service.py 76, 98, 119).  With a classification the
\* frameworks change, and with them what is averaged.
EveryFixCounts ==
    [][\A s \in {t \in Sources : class'[t] = class[t]} :
       \A p \in PolicyChoices(s) \cap PolicyChoices(s)' :
          LET before == Violations(s, p)  after == Violations(s, p)' IN
          after \subseteq before /\ after # before => OverallScore(s, p)' > OverallScore(s, p)
      ]_scoreVars
=============================================================================
