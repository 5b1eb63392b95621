------------------------------ MODULE Webhooks ------------------------------
(***************************************************************************)
(* Webhook endpoints and the delivery of events to them                    *)
(* (app/api/webhooks.py): the fan-out of deliver_event and the single      *)
(* delivery of manual_deliver, which POST outside any transaction and      *)
(* record the outcome afterwards, while other requests register and delete *)
(* endpoints.                                                              *)
(*                                                                         *)
(* A sender is one call of deliver_event or manual_deliver and stands for  *)
(* the event it sends.  deliver_event has no caller in the repository; it  *)
(* is modelled as a handler anybody may call.  Endpoint ids are issued by  *)
(* a sequence and never reused; all belong to one tenant.                  *)
(***************************************************************************)
EXTENDS Naturals

CONSTANTS
    Senders,      \* calls of deliver_event and manual_deliver
    Deleters,     \* concurrent calls of delete_webhook
    MaxEndpoints, \* bound: endpoints registered in a behaviour
    MaxParts      \* bound: parts in which a receiver's answer arrives

ASSUME EndpointAssumption == MaxEndpoints \in Nat /\ MaxParts \in Nat

Ids  == 1..MaxEndpoints
None == 0

VARIABLES
    endpoints,    \* webhook_endpoints: id -> is_active
    nextId,
    rows,         \* webhook_deliveries: <<sender, endpoint, success>>
    snd,          \* senders
    del,          \* delete_webhook calls
    posted        \* history: <<sender, endpoint>> whose POST has ended

vars == <<endpoints, nextId, rows, snd, del, posted>>

Existing == DOMAIN endpoints
Active   == {e \in Existing : endpoints[e]}

\* todo is what the loop has still to visit, in any order the SELECT returned,
\* all what it selected.  pc: "post" while the request is open (parts of the
\* answer seen so far), "record" before the commit of the row, "refresh" before
\* the SELECT that reloads it.  end tells how the call ended: "raised" when the
\* endpoint it served was gone, "dberror" when the database failed it otherwise.
SenderRec == [pc : {"idle", "loop", "post", "record", "refresh", "done"},
              all : SUBSET Ids, todo : SUBSET Ids, cur : Ids \cup {None},
              parts : 0..MaxParts, success : BOOLEAN,
              end : {"none", "returned", "raised", "dberror", "crashed"}]

NewSender == [pc |-> "idle", all |-> {}, todo |-> {}, cur |-> None, parts |-> 0,
              success |-> FALSE, end |-> "none"]

\* loaded is the endpoint's delivery rows the ORM cascade has read.
DeleterRec == [pc : {"idle", "commit"}, ep : Ids \cup {None},
               loaded : SUBSET (Senders \X Ids \X BOOLEAN)]

NewDeleter == [pc |-> "idle", ep |-> None, loaded |-> {}]

Init ==
    /\ endpoints = [e \in {} |-> FALSE]
    /\ nextId = 1
    /\ rows = {}
    /\ snd = [s \in Senders |-> NewSender]
    /\ del = [x \in Deleters |-> NewDeleter]
    /\ posted = {}

RowsOf(e) == {r \in rows : r[2] = e}

-----------------------------------------------------------------------------
(* Registration and deletion of endpoints.                                 *)

\* create_webhook; is_active is set here and by nobody else.
CreateWebhook(active) ==
    /\ nextId \in Ids
    /\ endpoints' = [e \in Existing \cup {nextId} |-> IF e = nextId THEN active ELSE endpoints[e]]
    /\ nextId'    = nextId + 1
    /\ UNCHANGED <<rows, snd, del, posted>>

\* delete_webhook: _get_owned finds the endpoint and db.delete loads the
\* deliveries its cascade will delete.
DeleteLoad(x, e) ==
    /\ del[x].pc = "idle"
    /\ e \in Existing
    /\ del' = [del EXCEPT ![x] = [pc |-> "commit", ep |-> e, loaded |-> RowsOf(e)]]
    /\ UNCHANGED <<endpoints, nextId, rows, snd, posted>>

\* The commit deletes the loaded rows, then the endpoint, in one transaction.
\* A row inserted since makes the second DELETE violate the foreign key; rows
\* that are gone are only warned about.
DeleteCommitUnchecked(x) ==                                           \* mutant
    /\ del[x].pc = "commit"
    /\ rows'      = rows \ del[x].loaded
    /\ endpoints' = [f \in Existing \ {del[x].ep} |-> endpoints[f]]
    /\ del'       = [del EXCEPT ![x] = NewDeleter]
    /\ UNCHANGED <<nextId, snd, posted>>
DeleteCommit(x) ==
    LET e == del[x].ep IN
    /\ del[x].pc = "commit"
    /\ RowsOf(e) \subseteq del[x].loaded
    /\ rows'      = rows \ del[x].loaded
    /\ endpoints' = [f \in Existing \ {e} |-> endpoints[f]]
    /\ del'       = [del EXCEPT ![x] = NewDeleter]
    /\ UNCHANGED <<nextId, snd, posted>>

\* The foreign key violation, or any other error of the database: everything is
\* rolled back, the request fails.  (A commit whose reply is lost is DeleteCommit.)
DeleteFailsPartial(x) ==                                           \* mutant
    /\ del[x].pc = "commit"
    /\ rows' = rows \ del[x].loaded
    /\ del'  = [del EXCEPT ![x] = NewDeleter]
    /\ UNCHANGED <<endpoints, nextId, snd, posted>>
DeleteFails(x) ==
    /\ del[x].pc = "commit"
    /\ del' = [del EXCEPT ![x] = NewDeleter]
    /\ UNCHANGED <<endpoints, nextId, rows, snd, posted>>

-----------------------------------------------------------------------------
(* Delivery.                                                               *)

\* deliver_event selects the active endpoints.
DeliverEvent(s) ==
    /\ snd[s].pc = "idle"
    /\ snd' = [snd EXCEPT ![s].pc = "loop", ![s].all = Active, ![s].todo = Active]
    /\ UNCHANGED <<endpoints, nextId, rows, del, posted>>

\* manual_deliver: one endpoint of the tenant, active or not.
ManualDeliver(s, e) ==
    /\ snd[s].pc = "idle"
    /\ e \in Existing
    /\ snd' = [snd EXCEPT ![s].pc = "loop", ![s].all = {e}, ![s].todo = {e}]
    /\ UNCHANGED <<endpoints, nextId, rows, del, posted>>

\* _deliver for the next endpoint: sign and send.
PostBegin(s, e) ==
    /\ snd[s].pc = "loop"
    /\ e \in snd[s].todo
    /\ snd' = [snd EXCEPT ![s].pc = "post", ![s].cur = e, ![s].parts = 0,
                          ![s].todo = snd[s].todo \ {e}]
    /\ UNCHANGED <<endpoints, nextId, rows, del, posted>>

\* A part of the answer arrives.  The timeout of 10 s is httpx's, which bounds
\* each read and not the request: it starts again.
PostPart(s) ==
    /\ snd[s].pc = "post"
    /\ snd[s].parts < MaxParts
    /\ snd' = [snd EXCEPT ![s].parts = @ + 1]
    /\ UNCHANGED <<endpoints, nextId, rows, del, posted>>

\* The request ends: with a 2xx answer (ok), or another status.
PostAnswer(s, ok) ==
    /\ snd[s].pc = "post"
    /\ snd'    = [snd EXCEPT ![s].pc = "record", ![s].success = ok]
    /\ posted' = posted \cup {<<s, snd[s].cur>>}
    /\ UNCHANGED <<endpoints, nextId, rows, del>>

\* Timeout, refused connection, invalid URL: the exception is caught.
PostFailRaises(s) ==                                                  \* mutant
    /\ snd[s].pc = "post"
    /\ snd'    = [snd EXCEPT ![s].pc = "done", ![s].end = "raised"]
    /\ posted' = posted \cup {<<s, snd[s].cur>>}
    /\ UNCHANGED <<endpoints, nextId, rows, del>>
PostFailConnect(s) ==                                                 \* mutant
    /\ snd[s].pc = "post" /\ snd[s].parts = 0
    /\ snd'    = [snd EXCEPT ![s].pc = "record", ![s].success = FALSE]
    /\ posted' = posted \cup {<<s, snd[s].cur>>}
    /\ UNCHANGED <<endpoints, nextId, rows, del>>
PostFail(s) ==
    /\ snd[s].pc = "post"
    /\ snd'    = [snd EXCEPT ![s].pc = "record", ![s].success = FALSE]
    /\ posted' = posted \cup {<<s, snd[s].cur>>}
    /\ UNCHANGED <<endpoints, nextId, rows, del>>

\* INSERT of the delivery row and commit; the foreign key needs the endpoint.
Record(s) ==
    LET e == snd[s].cur IN
    /\ snd[s].pc = "record"
    /\ e \in Existing
    /\ rows' = rows \cup {<<s, e, snd[s].success>>}
    /\ snd'  = [snd EXCEPT ![s].pc = "refresh"]
    /\ UNCHANGED <<endpoints, nextId, del, posted>>

\* The endpoint was deleted during the POST: the commit raises out of _deliver
\* and out of the loop around it.
RecordRaise(s) ==
    /\ snd[s].pc = "record"
    /\ snd[s].cur \notin Existing
    /\ snd' = [snd EXCEPT ![s].pc = "done", ![s].end = "raised"]
    /\ UNCHANGED <<endpoints, nextId, rows, del, posted>>

\* The commit fails for another reason (a lost connection, an event_type longer
\* than its column, which nothing has validated): it raises out of _deliver and
\* out of the loop in the same way.  When only the reply of the COMMIT was lost
\* the row is there.
RecordError(s, committed) ==
    LET e == snd[s].cur IN
    /\ snd[s].pc = "record"
    /\ committed => e \in Existing
    /\ rows' = rows \cup (IF committed THEN {<<s, e, snd[s].success>>} ELSE {})
    /\ snd'  = [snd EXCEPT ![s].pc = "done", ![s].end = "dberror"]
    /\ UNCHANGED <<endpoints, nextId, del, posted>>

\* db.refresh finds the row, and the loop goes on.
Refresh(s) ==
    /\ snd[s].pc = "refresh"
    /\ <<s, snd[s].cur, snd[s].success>> \in rows
    /\ snd' = [snd EXCEPT ![s].pc = "loop", ![s].cur = None]
    /\ UNCHANGED <<endpoints, nextId, rows, del, posted>>

\* The row went with its endpoint since the commit: refresh raises.
RefreshRaise(s) ==
    /\ snd[s].pc = "refresh"
    /\ <<s, snd[s].cur, snd[s].success>> \notin rows
    /\ snd' = [snd EXCEPT ![s].pc = "done", ![s].end = "raised"]
    /\ UNCHANGED <<endpoints, nextId, rows, del, posted>>

\* The SELECT of refresh fails otherwise.
RefreshError(s) ==
    /\ snd[s].pc = "refresh"
    /\ snd' = [snd EXCEPT ![s].pc = "done", ![s].end = "dberror"]
    /\ UNCHANGED <<endpoints, nextId, rows, del, posted>>

DeliverReturn(s) ==
    /\ snd[s].pc = "loop"
    /\ snd[s].todo = {}
    /\ snd' = [snd EXCEPT ![s].pc = "done", ![s].end = "returned"]
    /\ UNCHANGED <<endpoints, nextId, rows, del, posted>>

\* The process dies.
SenderCrash(s) ==
    /\ snd[s].pc \notin {"idle", "done"}
    /\ snd' = [snd EXCEPT ![s].pc = "done", ![s].end = "crashed"]
    /\ UNCHANGED <<endpoints, nextId, rows, del, posted>>

-----------------------------------------------------------------------------
\* What a call does by itself once it has begun.
Deliver(s) ==
    \/ \E e \in Ids : PostBegin(s, e)
    \/ PostFail(s)
    \/ Record(s)
    \/ RecordRaise(s)
    \/ Refresh(s)
    \/ RefreshRaise(s)
    \/ DeliverReturn(s)

Receive(s) ==
    \/ PostPart(s)
    \/ \E ok \in BOOLEAN : PostAnswer(s, ok)

\* What the database may do to a call at any time.
DatabaseFails(s) ==
    \/ \E committed \in BOOLEAN : RecordError(s, committed)
    \/ RefreshError(s)

Delete(x) ==
    \/ \E e \in Existing : DeleteLoad(x, e)
    \/ DeleteCommit(x)
    \/ DeleteFails(x)

Next ==
    \/ \E active \in BOOLEAN : CreateWebhook(active)
    \/ \E x \in Deleters : Delete(x)
    \/ \E s \in Senders :
          \/ DeliverEvent(s)
          \/ \E e \in Existing : ManualDeliver(s, e)
          \/ Deliver(s)
          \/ Receive(s)
          \/ DatabaseFails(s)
          \/ SenderCrash(s)

Spec == Init /\ [][Next]_vars

\* The process runs and the timeout fires.  Nothing is assumed of receivers,
\* except that an answer has finitely many parts (MaxParts).
Fairness == \A s \in Senders : WF_vars(Deliver(s))

FairSpec == Spec /\ Fairness

-----------------------------------------------------------------------------
(* Properties.                                                             *)

\* Every variable has its type; a delivery row has its endpoint, however
\* deliveries and deletions interleave (webhook.py 36-38).
TypeOK ==
    /\ Existing \subseteq Ids /\ endpoints \in [Existing -> BOOLEAN]
    /\ nextId \in 1..(MaxEndpoints + 1) /\ \A e \in Existing : e < nextId
    /\ rows \subseteq Senders \X Existing \X BOOLEAN
    /\ snd \in [Senders -> SenderRec]
    /\ del \in [Deleters -> DeleterRec]
    /\ posted \subseteq Senders \X Ids

\* "Records a WebhookDelivery row regardless of HTTP outcome" (webhooks.py 116),
\* as far as it is true: a POST that has ended, with whatever outcome, has its
\* row while the endpoint exists, unless the call has yet to commit it or ended
\* there, dead or with a database error of its own (lines 152-154).  So a call
\* that goes on or returns has recorded all it sent, one that ends otherwise all
\* but the last, and a deletion that fails takes no row away.
PostRecorded ==
    \A p \in posted : p[2] \in Existing =>
        \/ \E ok \in BOOLEAN : <<p[1], p[2], ok>> \in rows
        \/ /\ snd[p[1]].cur = p[2]
           /\ snd[p[1]].pc = "record" \/ snd[p[1]].end \in {"crashed", "dberror"}

\* "Fan out an event to all active webhook endpoints" (webhooks.py 165): a call
\* that has ended has sent the event to every endpoint it selected, failing
\* receivers notwithstanding.  Three things cut it short: a crash, an error of the
\* database at its own commit or refresh (end is then "dberror"), and the deletion
\* of the endpoint it was serving, never of another one.
FanoutReachesAll ==
    \A s \in Senders : snd[s].end \in {"returned", "raised"} =>
        \/ \A e \in snd[s].all : <<s, e>> \in posted
        \/ snd[s].cur \in snd[s].all \ Existing

\* "delivery failures are soft so they don't break the caller" (webhooks.py 117):
\* a call ends, whether receivers answer, refuse or stop in the middle of an
\* answer (_DELIVERY_TIMEOUT, webhooks.py 104 and 127).
FanoutEnds == \A s \in Senders : snd[s].pc # "idle" ~> snd[s].pc = "done"
=============================================================================
