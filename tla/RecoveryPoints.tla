--------------------------- MODULE RecoveryPoints ---------------------------
(***************************************************************************)
(* What BackupOS promises its user, without chunks, rows, a CAS or a       *)
(* pruner: a growing list of recovery points per source.  A recovery point *)
(* appears when a backup commits and holds exactly what the backup read.   *)
(* It disappears in one of two ways only: retention removes a point while  *)
(* a newer one of the same source remains, or the whole source is deleted. *)
(* A point on the list can be restored; nothing else makes one unreadable. *)
(***************************************************************************)
EXTENDS Naturals

CONSTANTS Sources, Contents, Ids

VARIABLE points      \* id -> [source, files], the recovery points there are

Init == points = [s \in {} |-> {}]

\* A backup of source a commits with content F; it is the newest point.
Take(id, a, F) ==
    /\ \A s \in DOMAIN points : s < id
    /\ points' = [s \in DOMAIN points \cup {id} |->
                    IF s = id THEN [source |-> a, files |-> F] ELSE points[s]]

\* Retention removes s; t is newer and stays.
Expire(s, t) ==
    /\ s < t
    /\ points[s].source = points[t].source
    /\ points' = [u \in DOMAIN points \ {s} |-> points[u]]

\* Source a is deleted with everything it has.
DropSource(a) ==
    points' = [u \in {s \in DOMAIN points : points[s].source # a} |-> points[u]]

Next ==
    \/ \E id \in Ids, a \in Sources, F \in Contents : Take(id, a, F)
    \/ \E s, t \in DOMAIN points : Expire(s, t)
    \/ \E a \in Sources : DropSource(a)

Spec == Init /\ [][Next]_points
=============================================================================
