--------------------------- MODULE WebhooksProofs ---------------------------
(***************************************************************************)
(* Proofs about Webhooks, for every set of senders and deleting requests   *)
(* and every number of endpoints and answer parts.                         *)
(***************************************************************************)
EXTENDS Webhooks, TLAPS

-----------------------------------------------------------------------------
(* The inductive invariant.                                                *)

\* One call: the endpoints it works on have been registered and selected; where
\* it is agrees with what it holds; what it selected and has not posted is still
\* to be visited, or is what it is posting now; a row it has committed goes only
\* with its endpoint.
SelectInv(s) ==
    /\ \A e \in snd[s].all : e < nextId
    /\ snd[s].todo \subseteq snd[s].all
    /\ snd[s].cur # None => snd[s].cur \in snd[s].all

PlaceInv(s) ==
    /\ snd[s].pc \in {"post", "record", "refresh"} => snd[s].cur # None
    /\ snd[s].pc = "idle" => snd[s].cur = None
    /\ snd[s].pc # "done" => snd[s].end = "none"

ProgressInv(s) ==
    snd[s].pc # "done" =>
        \A e \in snd[s].all :
            e \in snd[s].todo \/ <<s, e>> \in posted \/ (snd[s].pc = "post" /\ snd[s].cur = e)

RowInv(s) ==
    snd[s].pc = "refresh" =>
        <<s, snd[s].cur, snd[s].success>> \in rows \/ snd[s].cur \notin Existing

CallInv(s) == SelectInv(s) /\ PlaceInv(s) /\ ProgressInv(s) /\ RowInv(s)

\* All calls; nothing was sent to an id still to come; a deletion has loaded rows
\* of its own endpoint only.
WebInv ==
    /\ \A s \in Senders : CallInv(s)
    /\ \A p \in posted : p[2] < nextId
    /\ \A x \in Deleters : del[x].pc = "commit" => \A r \in del[x].loaded : r[2] = del[x].ep

-----------------------------------------------------------------------------
(* Type correctness.                                                       *)

\* No endpoint, no call.
LEMMA TypeInit == Init => TypeOK
  BY EndpointAssumption DEF Init, TypeOK, Existing, Ids, SenderRec, NewSender, DeleterRec,
     NewDeleter, None

\* Registration and deletion keep the types: a deletion that a row inserted
\* since would leave behind does not commit.
LEMMA TypeEndpoints ==
  ASSUME TypeOK, \/ \E active \in BOOLEAN : CreateWebhook(active)
                 \/ \E x \in Deleters : Delete(x)
  PROVE  TypeOK'
<1> USE EndpointAssumption DEF TypeOK, Existing, Ids
<1>1. ASSUME NEW active \in BOOLEAN, CreateWebhook(active)
      PROVE  TypeOK'
  <2>1. Existing' = Existing \cup {nextId} /\ nextId' = nextId + 1 /\ nextId \in Ids
        /\ UNCHANGED <<rows, snd, del, posted>>
    BY <1>1 DEF CreateWebhook
  <2>2. endpoints' \in [Existing' -> BOOLEAN]
    BY <1>1 DEF CreateWebhook
  <2>3. rows' \subseteq Senders \X Existing' \X BOOLEAN
    BY <2>1
  <2> QED
    BY <2>1, <2>2, <2>3
<1>2. ASSUME NEW x \in Deleters, NEW e \in Existing, DeleteLoad(x, e)
      PROVE  TypeOK'
  <2>1. RowsOf(e) \in SUBSET (Senders \X Ids \X BOOLEAN)
    BY DEF RowsOf
  <2>2. [pc |-> "commit", ep |-> e, loaded |-> RowsOf(e)] \in DeleterRec
    BY <2>1 DEF DeleterRec
  <2> QED
    BY <1>2, <2>2 DEF DeleteLoad
<1>3. ASSUME NEW x \in Deleters, DeleteCommit(x)
      PROVE  TypeOK'
  <2> DEFINE e == del[x].ep
  <2>1. NewDeleter \in DeleterRec
    BY DEF NewDeleter, DeleterRec, None
  <2>2. endpoints' = [f \in Existing \ {e} |-> endpoints[f]]
    BY <1>3 DEF DeleteCommit
  <2>3. rows' \subseteq Senders \X (Existing \ {e}) \X BOOLEAN
    BY <1>3 DEF DeleteCommit, RowsOf
  <2> QED
    BY <1>3, <2>1, <2>2, <2>3 DEF DeleteCommit
<1>4. ASSUME NEW x \in Deleters, DeleteFails(x)
      PROVE  TypeOK'
  BY <1>4 DEF DeleteFails, NewDeleter, DeleterRec, None
<1> QED
  BY <1>1, <1>2, <1>3, <1>4 DEF Delete

\* What a call of deliver_event or manual_deliver does.
Sends(s) ==
    \/ DeliverEvent(s)
    \/ \E e \in Existing : ManualDeliver(s, e)
    \/ Deliver(s)
    \/ Receive(s)
    \/ DatabaseFails(s)
    \/ SenderCrash(s)

\* A call that puts a well-formed record in its place keeps the types.
LEMMA SenderPut ==
  ASSUME TypeOK, NEW s \in Senders, NEW d \in SenderRec, snd' = [snd EXCEPT ![s] = d]
  PROVE  snd' \in [Senders -> SenderRec]
  BY DEF TypeOK

\* The calls' records after each of their steps.
LEMMA SenderType ==
  ASSUME TypeOK, NEW s \in Senders, Sends(s)
  PROVE  snd' \in [Senders -> SenderRec]
<1>0. snd[s] \in SenderRec
  BY DEF TypeOK
<1>1. ASSUME NEW S \in SUBSET Ids,
             snd' = [snd EXCEPT ![s].pc = "loop", ![s].all = S, ![s].todo = S]
      PROVE  snd' \in [Senders -> SenderRec]
  <2> DEFINE d == [snd[s] EXCEPT !.pc = "loop", !.all = S, !.todo = S]
  <2>1. d \in SenderRec
    BY <1>0 DEF SenderRec
  <2>2. snd' = [snd EXCEPT ![s] = d]
    BY <1>1 DEF TypeOK
  <2> QED
    BY <2>1, <2>2, SenderPut
<1>2. CASE DeliverEvent(s)
  <2>1. Active \in SUBSET Ids
    BY DEF Active, TypeOK
  <2>2. snd' = [snd EXCEPT ![s].pc = "loop", ![s].all = Active, ![s].todo = Active]
    BY <1>2 DEF DeliverEvent
  <2> HIDE DEF SenderRec
  <2> QED
    BY <1>1, <2>1, <2>2
<1>3. ASSUME NEW e \in Existing, ManualDeliver(s, e)
      PROVE  snd' \in [Senders -> SenderRec]
  <2>1. {e} \in SUBSET Ids
    BY <1>3 DEF TypeOK
  <2> QED
    BY <1>1, <1>3, <2>1 DEF ManualDeliver
<1>4. ASSUME NEW e \in Ids, PostBegin(s, e)
      PROVE  snd' \in [Senders -> SenderRec]
  <2> DEFINE T == snd[s].todo \ {e}
             c == [snd[s] EXCEPT !.pc = "post", !.cur = e]
             d == [c EXCEPT !.parts = 0, !.todo = T]
  <2>1. T \in SUBSET Ids /\ 0 \in 0..MaxParts
    BY <1>0, EndpointAssumption DEF SenderRec
  <2>a. c \in SenderRec
    BY <1>0 DEF SenderRec
  <2> HIDE DEF T, c
  <2>2. d \in SenderRec
    BY <2>1, <2>a DEF SenderRec
  <2>3. snd' = [snd EXCEPT ![s] = d]
    BY <1>4 DEF PostBegin, TypeOK, T, c
  <2> QED
    BY <2>2, <2>3, SenderPut
<1>5. CASE PostPart(s)
  BY <1>5, EndpointAssumption DEF PostPart, TypeOK, SenderRec
<1>6. ASSUME NEW ok \in BOOLEAN,
             snd' = [snd EXCEPT ![s].pc = "record", ![s].success = ok]
      PROVE  snd' \in [Senders -> SenderRec]
  <2> DEFINE d == [snd[s] EXCEPT !.pc = "record", !.success = ok]
  <2>1. d \in SenderRec
    BY <1>0 DEF SenderRec
  <2>2. snd' = [snd EXCEPT ![s] = d]
    BY <1>6 DEF TypeOK
  <2> QED
    BY <2>1, <2>2, SenderPut
<1>7. CASE Record(s)
  BY <1>7 DEF Record, TypeOK, SenderRec
<1>8. ASSUME NEW end \in {"returned", "raised", "dberror", "crashed"},
             snd' = [snd EXCEPT ![s].pc = "done", ![s].end = end]
      PROVE  snd' \in [Senders -> SenderRec]
  <2> DEFINE d == [snd[s] EXCEPT !.pc = "done", !.end = end]
  <2>1. d \in SenderRec
    BY <1>0 DEF SenderRec
  <2>2. snd' = [snd EXCEPT ![s] = d]
    BY <1>8 DEF TypeOK
  <2> QED
    BY <2>1, <2>2, SenderPut
<1>9. CASE Refresh(s)
  <2> DEFINE d == [snd[s] EXCEPT !.pc = "loop", !.cur = None]
  <2>1. d \in SenderRec
    BY <1>0 DEF SenderRec
  <2>2. snd' = [snd EXCEPT ![s] = d]
    BY <1>9 DEF Refresh, TypeOK
  <2> QED
    BY <2>1, <2>2, SenderPut
<1>10. CASE PostFail(s)
  BY <1>6, <1>10 DEF PostFail
<1>11. CASE \E ok \in BOOLEAN : PostAnswer(s, ok)
  BY <1>6, <1>11 DEF PostAnswer
<1>12. CASE RecordRaise(s) \/ RefreshRaise(s) \/ DeliverReturn(s) \/ SenderCrash(s)
  BY <1>8, <1>12 DEF RecordRaise, RefreshRaise, DeliverReturn, SenderCrash
<1>13. CASE DatabaseFails(s)
  BY <1>8, <1>13 DEF DatabaseFails, RecordError, RefreshError
<1> QED
  BY <1>2, <1>3, <1>4, <1>5, <1>7, <1>9, <1>10, <1>11, <1>12, <1>13 DEF Sends, Deliver, Receive

\* Every step of a call keeps the types; a row is inserted for an endpoint that
\* exists.
LEMMA TypeSends ==
  ASSUME TypeOK, WebInv, NEW s \in Senders, Sends(s)
  PROVE  TypeOK'
<1>0. snd[s] \in SenderRec
  BY DEF TypeOK
<1>1. UNCHANGED <<endpoints, nextId, del>>
  BY DEF Sends, DeliverEvent, ManualDeliver, Deliver, Receive, DatabaseFails, RecordError,
     RefreshError, SenderCrash, PostBegin, PostFail,
     Record, RecordRaise, Refresh, RefreshRaise, DeliverReturn, PostPart, PostAnswer
<1>2. rows' \subseteq Senders \X Existing \X BOOLEAN
  <2>1. CASE Record(s)
    BY <1>0, <2>1 DEF Record, TypeOK, SenderRec
  <2>2. CASE \E committed \in BOOLEAN : RecordError(s, committed)
    BY <1>0, <2>2 DEF RecordError, TypeOK, SenderRec
  <2>3. CASE ~Record(s) /\ ~\E committed \in BOOLEAN : RecordError(s, committed)
    BY <2>3 DEF Sends, DeliverEvent, ManualDeliver, Deliver, Receive, DatabaseFails, RefreshError, SenderCrash, PostBegin,
       PostFail, RecordRaise, Refresh, RefreshRaise, DeliverReturn, PostPart, PostAnswer, TypeOK
  <2> QED
    BY <2>1, <2>2, <2>3
<1>3. posted' \subseteq Senders \X Ids
  <2>1. CASE PostFail(s) \/ \E ok \in BOOLEAN : PostAnswer(s, ok)
    BY <1>0, <2>1 DEF PostFail, PostAnswer, WebInv, CallInv, PlaceInv, TypeOK, SenderRec
  <2>2. CASE ~(PostFail(s) \/ \E ok \in BOOLEAN : PostAnswer(s, ok))
    BY <2>2 DEF Sends, DeliverEvent, ManualDeliver, Deliver, Receive, DatabaseFails, RecordError,
     RefreshError, SenderCrash, PostBegin,
       Record, RecordRaise, Refresh, RefreshRaise, DeliverReturn, PostPart, TypeOK
  <2> QED
    BY <2>1, <2>2
<1> QED
  BY <1>1, <1>2, <1>3, SenderType DEF TypeOK, Existing

-----------------------------------------------------------------------------
(* The steps of a call, seen in its fields.                                *)

\* What the fields of call s are after the step.
Becomes(s, pc, all, todo, cur, success, end) ==
    /\ snd'[s].pc = pc /\ snd'[s].all = all /\ snd'[s].todo = todo
    /\ snd'[s].cur = cur /\ snd'[s].success = success /\ snd'[s].end = end

\* The kinds of step a call takes.
StepOf(s) ==
    LET c == snd[s] IN
    \/ /\ c.pc = "idle" /\ UNCHANGED <<rows, posted>>
       /\ \E S \in SUBSET Existing : Becomes(s, "loop", S, S, c.cur, c.success, c.end)
    \/ /\ c.pc = "loop" /\ UNCHANGED <<rows, posted>>
       /\ \E e \in c.todo : Becomes(s, "post", c.all, c.todo \ {e}, e, c.success, c.end)
    \/ /\ c.pc = "post" /\ UNCHANGED <<rows, posted>>
       /\ Becomes(s, "post", c.all, c.todo, c.cur, c.success, c.end)
    \/ /\ c.pc = "post" /\ posted' = posted \cup {<<s, c.cur>>} /\ rows' = rows
       /\ \E ok \in BOOLEAN : Becomes(s, "record", c.all, c.todo, c.cur, ok, c.end)
    \/ /\ c.pc = "record" /\ c.cur \in Existing
       /\ rows' = rows \cup {<<s, c.cur, c.success>>} /\ posted' = posted
       /\ Becomes(s, "refresh", c.all, c.todo, c.cur, c.success, c.end)
    \/ /\ c.pc = "refresh" /\ UNCHANGED <<rows, posted>>
       /\ <<s, c.cur, c.success>> \in rows
       /\ Becomes(s, "loop", c.all, c.todo, None, c.success, c.end)
    \/ /\ UNCHANGED <<rows, posted>>
       /\ \/ c.pc = "record" /\ c.cur \notin Existing
          \/ c.pc = "refresh" /\ <<s, c.cur, c.success>> \notin rows
       /\ Becomes(s, "done", c.all, c.todo, c.cur, c.success, "raised")
    \/ /\ c.pc \in {"record", "refresh"} /\ posted' = posted
       /\ \/ rows' = rows
          \/ c.cur \in Existing /\ rows' = rows \cup {<<s, c.cur, c.success>>}
       /\ Becomes(s, "done", c.all, c.todo, c.cur, c.success, "dberror")
    \/ /\ c.pc = "loop" /\ c.todo = {} /\ UNCHANGED <<rows, posted>>
       /\ Becomes(s, "done", c.all, c.todo, c.cur, c.success, "returned")
    \/ /\ c.pc \notin {"idle", "done"} /\ UNCHANGED <<rows, posted>>
       /\ Becomes(s, "done", c.all, c.todo, c.cur, c.success, "crashed")

\* These are all, and they touch no other call, endpoint or deletion.
LEMMA StepFields ==
  ASSUME TypeOK, NEW s \in Senders, Sends(s)
  PROVE  /\ StepOf(s)
         /\ \A t \in Senders : t # s => snd'[t] = snd[t]
         /\ UNCHANGED <<endpoints, nextId, del>>
<1> USE DEF Becomes, TypeOK, SenderRec
<1>1. \A t \in Senders : t # s => snd'[t] = snd[t]
  BY DEF Sends, DeliverEvent, ManualDeliver, Deliver, Receive, DatabaseFails, RecordError,
     RefreshError, SenderCrash, PostBegin, PostFail,
     Record, RecordRaise, Refresh, RefreshRaise, DeliverReturn, PostPart, PostAnswer
<1>2. UNCHANGED <<endpoints, nextId, del>>
  BY DEF Sends, DeliverEvent, ManualDeliver, Deliver, Receive, DatabaseFails, RecordError,
     RefreshError, SenderCrash, PostBegin, PostFail,
     Record, RecordRaise, Refresh, RefreshRaise, DeliverReturn, PostPart, PostAnswer
<1>3. StepOf(s)
  <2>1. CASE DeliverEvent(s)
    <3>1. Becomes(s, "loop", Active, Active, snd[s].cur, snd[s].success, snd[s].end)
      BY <2>1 DEF DeliverEvent
    <3>2. Active \in SUBSET Existing
      BY DEF Active
    <3> HIDE DEF Becomes
    <3> QED
      BY <2>1, <3>1, <3>2 DEF DeliverEvent, StepOf
  <2>2. ASSUME NEW e \in Existing, ManualDeliver(s, e)
        PROVE  StepOf(s)
    <3>1. Becomes(s, "loop", {e}, {e}, snd[s].cur, snd[s].success, snd[s].end)
      BY <2>2 DEF ManualDeliver
    <3>2. {e} \in SUBSET Existing
      BY <2>2
    <3> HIDE DEF Becomes
    <3> QED
      BY <2>2, <3>1, <3>2 DEF ManualDeliver, StepOf
  <2>3. ASSUME NEW e \in Ids, PostBegin(s, e)
        PROVE  StepOf(s)
    <3>1. Becomes(s, "post", snd[s].all, snd[s].todo \ {e}, e, snd[s].success, snd[s].end)
      BY <2>3 DEF PostBegin
    <3> HIDE DEF Becomes
    <3> QED
      BY <2>3, <3>1 DEF PostBegin, StepOf
  <2>4. CASE PostPart(s)
    <3>1. Becomes(s, "post", snd[s].all, snd[s].todo, snd[s].cur, snd[s].success, snd[s].end)
      BY <2>4 DEF PostPart
    <3> HIDE DEF Becomes
    <3> QED
      BY <2>4, <3>1 DEF PostPart, StepOf
  <2>5. ASSUME NEW ok \in BOOLEAN, PostAnswer(s, ok) \/ (PostFail(s) /\ ok = FALSE)
        PROVE  StepOf(s)
    <3>1. Becomes(s, "record", snd[s].all, snd[s].todo, snd[s].cur, ok, snd[s].end)
      BY <2>5 DEF PostAnswer, PostFail
    <3> HIDE DEF Becomes
    <3> QED
      BY <2>5, <3>1 DEF PostAnswer, PostFail, StepOf
  <2>6. CASE Record(s)
    <3>1. Becomes(s, "refresh", snd[s].all, snd[s].todo, snd[s].cur, snd[s].success, snd[s].end)
      BY <2>6 DEF Record
    <3> HIDE DEF Becomes
    <3> QED
      BY <2>6, <3>1 DEF Record, StepOf
  <2>7. CASE Refresh(s)
    <3>1. Becomes(s, "loop", snd[s].all, snd[s].todo, None, snd[s].success, snd[s].end)
      BY <2>7 DEF Refresh
    <3> HIDE DEF Becomes
    <3> QED
      BY <2>7, <3>1 DEF Refresh, StepOf
  <2>8. ASSUME NEW end, snd' = [snd EXCEPT ![s].pc = "done", ![s].end = end]
        PROVE  Becomes(s, "done", snd[s].all, snd[s].todo, snd[s].cur, snd[s].success, end)
    BY <2>8
  <2>9. CASE RecordRaise(s) \/ RefreshRaise(s)
    <3> HIDE DEF Becomes
    <3> QED
      BY <2>8, <2>9 DEF RecordRaise, RefreshRaise, StepOf
  <2>10. CASE DeliverReturn(s)
    <3> HIDE DEF Becomes
    <3> QED
      BY <2>8, <2>10 DEF DeliverReturn, StepOf
  <2>11. CASE SenderCrash(s)
    <3> HIDE DEF Becomes
    <3> QED
      BY <2>8, <2>11 DEF SenderCrash, StepOf
  <2>12. CASE DatabaseFails(s)
    <3>1. snd' = [snd EXCEPT ![s].pc = "done", ![s].end = "dberror"]
          /\ snd[s].pc \in {"record", "refresh"} /\ posted' = posted
      BY <2>12 DEF DatabaseFails, RecordError, RefreshError
    <3>2. \/ rows' = rows
          \/ /\ snd[s].cur \in Existing
             /\ rows' = rows \cup {<<s, snd[s].cur, snd[s].success>>}
      BY <2>12 DEF DatabaseFails, RecordError, RefreshError
    <3> HIDE DEF Becomes
    <3> QED
      BY <2>8, <3>1, <3>2 DEF StepOf
  <2> QED
    BY <2>1, <2>2, <2>3, <2>4, <2>5, <2>6, <2>7, <2>9, <2>10, <2>11, <2>12
       DEF Sends, Deliver, Receive
<1> QED
  BY <1>1, <1>2, <1>3

-----------------------------------------------------------------------------
(* The inductive invariant is one.                                         *)

\* No call has begun.
LEMMA WebInit == Init => WebInv
  BY DEF Init, WebInv, CallInv, SelectInv, PlaceInv, ProgressInv, RowInv, NewSender, NewDeleter,
     None

\* How registration and deletion touch what calls rely on: ids only grow, the
\* next id exists nowhere yet, and a row that goes, goes with its endpoint.
LEMMA EndpointFields ==
  ASSUME TypeOK, WebInv,
         \/ \E active \in BOOLEAN : CreateWebhook(active)
         \/ \E x \in Deleters : Delete(x)
  PROVE  /\ UNCHANGED <<snd, posted>>
         /\ nextId' \in Nat /\ nextId' >= nextId
         /\ \A e \in Existing' : e \in Existing \/ e = nextId
         /\ \A r \in rows : r \in rows' \/ r[2] \notin Existing'
         /\ \A x \in Deleters : del'[x].pc = "commit" => \A r \in del'[x].loaded : r[2] = del'[x].ep
<1> USE EndpointAssumption DEF TypeOK
<1>1. ASSUME NEW active \in BOOLEAN, CreateWebhook(active)
      PROVE  /\ UNCHANGED <<snd, posted, rows, del>>
             /\ nextId' \in Nat /\ nextId' >= nextId
             /\ \A e \in Existing' : e \in Existing \/ e = nextId
  BY <1>1 DEF CreateWebhook, Existing, Ids
<1>2. ASSUME NEW x \in Deleters, NEW e \in Existing, DeleteLoad(x, e)
      PROVE  /\ UNCHANGED <<snd, posted, rows, nextId, endpoints>>
             /\ \A y \in Deleters : del'[y].pc = "commit" =>
                    \A r \in del'[y].loaded : r[2] = del'[y].ep
  BY <1>2 DEF DeleteLoad, RowsOf, WebInv
<1>3. ASSUME NEW x \in Deleters, DeleteCommit(x)
      PROVE  /\ UNCHANGED <<snd, posted, nextId>>
             /\ \A e \in Existing' : e \in Existing
             /\ \A r \in rows : r \in rows' \/ r[2] \notin Existing'
             /\ \A y \in Deleters : del'[y].pc = "commit" =>
                    \A r \in del'[y].loaded : r[2] = del'[y].ep
  <2>1. Existing' = Existing \ {del[x].ep}
    BY <1>3 DEF DeleteCommit, Existing
  <2>2. \A r \in del[x].loaded : r[2] = del[x].ep
    BY <1>3 DEF DeleteCommit, WebInv
  <2>3. \A r \in rows : r \in rows' \/ r[2] \notin Existing'
    BY <1>3, <2>1, <2>2 DEF DeleteCommit
  <2> QED
    BY <1>3, <2>1, <2>3 DEF DeleteCommit, WebInv, NewDeleter
<1>4. ASSUME NEW x \in Deleters, DeleteFails(x)
      PROVE  /\ UNCHANGED <<snd, posted, rows, nextId, endpoints>>
             /\ \A y \in Deleters : del'[y].pc = "commit" =>
                    \A r \in del'[y].loaded : r[2] = del'[y].ep
  BY <1>4 DEF DeleteFails, WebInv, NewDeleter
<1>5. CASE \E active \in BOOLEAN : CreateWebhook(active)
  BY <1>1, <1>5 DEF WebInv
<1>6. CASE \E x \in Deleters : \E e \in Existing : DeleteLoad(x, e)
  BY <1>2, <1>6 DEF Existing
<1>7. CASE \E x \in Deleters : DeleteCommit(x)
  BY <1>3, <1>7
<1>8. CASE \E x \in Deleters : DeleteFails(x)
  BY <1>4, <1>8 DEF Existing
<1> QED
  BY <1>5, <1>6, <1>7, <1>8 DEF Delete

\* Hence they keep the invariant.
LEMMA WebEndpoints ==
  ASSUME TypeOK, WebInv,
         \/ \E active \in BOOLEAN : CreateWebhook(active)
         \/ \E x \in Deleters : Delete(x)
  PROVE  WebInv'
<1>0. /\ UNCHANGED <<snd, posted>>
      /\ nextId' \in Nat /\ nextId' >= nextId
      /\ \A e \in Existing' : e \in Existing \/ e = nextId
      /\ \A r \in rows : r \in rows' \/ r[2] \notin Existing'
      /\ \A x \in Deleters : del'[x].pc = "commit" => \A r \in del'[x].loaded : r[2] = del'[x].ep
  BY EndpointFields
<1>1. ASSUME NEW s \in Senders
      PROVE  CallInv(s)'
  <2>0. /\ snd[s].all \subseteq Ids /\ snd[s].cur \in Ids \cup {None} /\ nextId \in Nat
        /\ Ids \subseteq Nat
    BY EndpointAssumption DEF TypeOK, SenderRec, Ids
  <2>1. SelectInv(s)'
    <3>1. snd' = snd /\ SelectInv(s)
      BY <1>0 DEF WebInv, CallInv
    <3>a. \A a, b, c \in Nat : a < b /\ b <= c => a < c
      OBVIOUS
    <3>2. ASSUME NEW e \in snd[s].all
          PROVE  e < nextId'
      <4>1. e \in Nat /\ e < nextId
        BY <2>0, <3>1 DEF SelectInv
      <4> QED
        BY <1>0, <2>0, <3>a, <4>1
    <3> QED
      BY <3>1, <3>2 DEF SelectInv
  <2>2. PlaceInv(s)' /\ ProgressInv(s)'
    BY <1>0 DEF WebInv, CallInv, PlaceInv, ProgressInv
  <2>3. RowInv(s)'
    <3>1. SUFFICES ASSUME snd[s].pc = "refresh", snd[s].cur \in Existing'
                   PROVE  <<s, snd[s].cur, snd[s].success>> \in rows'
      BY <1>0 DEF RowInv
    <3>2. snd[s].cur < nextId
      BY <3>1 DEF WebInv, CallInv, PlaceInv, SelectInv
    <3>3. snd[s].cur \in Existing
      BY <1>0, <2>0, <3>1, <3>2 DEF None
    <3>4. <<s, snd[s].cur, snd[s].success>> \in rows
      BY <3>1, <3>3 DEF WebInv, CallInv, RowInv
    <3> QED
      BY <1>0, <3>1, <3>4
  <2> QED
    BY <2>1, <2>2, <2>3 DEF CallInv
<1>2. \A p \in posted' : p[2] < nextId'
  <2>1. SUFFICES ASSUME NEW p \in posted
                 PROVE  p[2] < nextId'
    BY <1>0
  <2>2. p[2] \in Ids /\ nextId \in Nat /\ Ids \subseteq Nat /\ p[2] < nextId
    BY EndpointAssumption DEF TypeOK, Ids, WebInv
  <2>3. \A a, b, c \in Nat : a < b /\ b <= c => a < c
    OBVIOUS
  <2> QED
    BY <1>0, <2>2, <2>3
<1> QED
  BY <1>0, <1>1, <1>2 DEF WebInv

\* So does every step of a call.
LEMMA WebSends ==
  ASSUME TypeOK, WebInv, NEW s \in Senders, Sends(s)
  PROVE  WebInv'
<1>0. /\ StepOf(s)
      /\ \A t \in Senders : t # s => snd'[t] = snd[t]
      /\ UNCHANGED <<endpoints, nextId, del>>
  BY StepFields
<1>1. /\ \A e \in Existing : e < nextId
      /\ Existing' = Existing
      /\ rows \subseteq rows' /\ posted \subseteq posted'
  BY <1>0 DEF TypeOK, StepOf, Existing
<1>c. CallInv(s)
  BY DEF WebInv
<1>2. CallInv(s)'
  <2>1. SelectInv(s)'
    <3>1. \A e \in snd'[s].all : e \in snd[s].all \/ e \in Existing
      BY <1>0 DEF StepOf, Becomes
    <3>2. \A e \in snd'[s].all : e < nextId'
      BY <1>0, <1>1, <1>c, <3>1 DEF CallInv, SelectInv
    <3>3. snd'[s].todo \subseteq snd'[s].all
      BY <1>0, <1>c DEF CallInv, SelectInv, StepOf, Becomes
    <3>4. snd'[s].cur # None => snd'[s].cur \in snd'[s].all
      BY <1>0, <1>c DEF CallInv, SelectInv, PlaceInv, StepOf, Becomes
    <3> QED
      BY <3>2, <3>3, <3>4 DEF SelectInv
  <2>2. PlaceInv(s)'
    <3>1. \A e \in snd[s].todo : e # None
      BY EndpointAssumption DEF TypeOK, SenderRec, Ids, None
    <3> QED
      BY <1>0, <1>c, <3>1 DEF CallInv, PlaceInv, StepOf, Becomes
  <2>3. ProgressInv(s)'
    BY <1>0, <1>1, <1>c DEF CallInv, ProgressInv, PlaceInv, StepOf, Becomes
  <2>4. RowInv(s)'
    BY <1>0, <1>1, <1>c DEF CallInv, RowInv, StepOf, Becomes
  <2> QED
    BY <2>1, <2>2, <2>3, <2>4 DEF CallInv
<1>3. ASSUME NEW t \in Senders, t # s
      PROVE  CallInv(t)'
  <2>1. CallInv(t) /\ snd'[t] = snd[t]
    BY <1>0, <1>3 DEF WebInv
  <2> QED
    BY <1>0, <1>1, <2>1 DEF CallInv, SelectInv, PlaceInv, ProgressInv, RowInv
<1>4. \A p \in posted' : p[2] < nextId'
  <2>1. snd[s].pc = "post" => snd[s].cur < nextId
    BY <1>c DEF CallInv, PlaceInv, SelectInv
  <2> QED
    BY <1>0, <2>1 DEF StepOf, WebInv
<1> QED
  BY <1>0, <1>2, <1>3, <1>4 DEF WebInv

\* A step of the specification is one of an endpoint's or of a call's.
LEMMA NextCases ==
  ASSUME Next
  PROVE  \/ \/ \E active \in BOOLEAN : CreateWebhook(active)
            \/ \E x \in Deleters : Delete(x)
         \/ \E s \in Senders : Sends(s)
  BY DEF Next, Sends

\* Types and invariant are kept together.
LEMMA WebStep ==
  ASSUME TypeOK, WebInv, [Next]_vars
  PROVE  TypeOK' /\ WebInv'
<1>1. CASE UNCHANGED vars
  BY <1>1 DEF vars, TypeOK, WebInv, CallInv, SelectInv, PlaceInv, ProgressInv, RowInv, Existing
<1>2. CASE Next
  BY <1>2, NextCases, TypeEndpoints, TypeSends, WebEndpoints, WebSends
<1> QED
  BY <1>1, <1>2

\* TypeOK and WebInv hold in every reachable state.
THEOREM WebInvariant == Spec => [](TypeOK /\ WebInv)
<1>1. Init => TypeOK /\ WebInv
  BY TypeInit, WebInit
<1>2. (TypeOK /\ WebInv) /\ [Next]_vars => (TypeOK /\ WebInv)'
  BY WebStep
<1> QED
  BY <1>1, <1>2, PTL DEF Spec

\* Every variable keeps its type, and no delivery row outlives its endpoint,
\* however calls, registrations and deletions interleave.
THEOREM TypeCorrect == Spec => []TypeOK
  BY WebInvariant, PTL
-----------------------------------------------------------------------------
(* What was sent is recorded.                                              *)

\* Registration and deletion: an endpoint that exists afterwards and was sent
\* something is no new one, and keeps its rows.
LEMMA RecordedEndpoints ==
  ASSUME TypeOK, WebInv, PostRecorded,
         \/ \E active \in BOOLEAN : CreateWebhook(active)
         \/ \E x \in Deleters : Delete(x)
  PROVE  PostRecorded'
<1>0. /\ UNCHANGED <<snd, posted>>
      /\ \A e \in Existing' : e \in Existing \/ e = nextId
      /\ \A r \in rows : r \in rows' \/ r[2] \notin Existing'
  BY EndpointFields
<1>1. SUFFICES ASSUME NEW p \in posted, p[2] \in Existing'
               PROVE  \/ \E ok \in BOOLEAN : <<p[1], p[2], ok>> \in rows'
                      \/ /\ snd[p[1]].cur = p[2]
                         /\ snd[p[1]].pc = "record" \/ snd[p[1]].end \in {"crashed", "dberror"}
  BY <1>0 DEF PostRecorded
<1>2. p[2] < nextId /\ p[2] \in Nat /\ nextId \in Nat
  BY EndpointAssumption DEF WebInv, TypeOK, Ids
<1>3. p[2] \in Existing
  BY <1>0, <1>1, <1>2
<1> QED
  BY <1>0, <1>1, <1>3 DEF PostRecorded

\* Calls: a POST that ends leaves its call before the commit; the commit inserts
\* the row, fails because the endpoint is gone, or ends the call with an error.
LEMMA RecordedSends ==
  ASSUME TypeOK, WebInv, PostRecorded, NEW s \in Senders, Sends(s)
  PROVE  PostRecorded'
<1>0. /\ StepOf(s)
      /\ \A t \in Senders : t # s => snd'[t] = snd[t]
      /\ Existing' = Existing
  BY StepFields DEF Existing
<1>1. SUFFICES ASSUME NEW p \in posted', p[2] \in Existing
               PROVE  \/ \E ok \in BOOLEAN : <<p[1], p[2], ok>> \in rows'
                      \/ /\ snd'[p[1]].cur = p[2]
                         /\ snd'[p[1]].pc = "record" \/ snd'[p[1]].end \in {"crashed", "dberror"}
  BY <1>0 DEF PostRecorded
<1>2. rows \subseteq rows' /\ PlaceInv(s) /\ snd[s].success \in BOOLEAN
  BY <1>0 DEF StepOf, WebInv, CallInv, TypeOK, SenderRec
<1>3. CASE p \notin posted
  <2>1. p = <<s, snd[s].cur>> /\ snd'[s].pc = "record" /\ snd'[s].cur = snd[s].cur
    BY <1>0, <1>1, <1>3 DEF StepOf, Becomes
  <2> QED
    BY <2>1
<1>4. CASE p \in posted /\ p[1] # s
  <2>1. p[1] \in Senders /\ snd'[p[1]] = snd[p[1]]
    BY <1>0, <1>4 DEF TypeOK
  <2> QED
    BY <1>1, <1>2, <1>4, <2>1 DEF PostRecorded
<1>5. CASE p \in posted /\ p[1] = s
  <2>1. CASE \E ok \in BOOLEAN : <<p[1], p[2], ok>> \in rows
    BY <1>2, <2>1
  <2>2. CASE snd[s].cur = p[2] /\ snd[s].pc = "record"
    BY <1>0, <1>1, <1>2, <1>5, <2>2 DEF StepOf, Becomes
  <2>3. CASE snd[s].cur = p[2] /\ snd[s].end \in {"crashed", "dberror"}
    BY <1>0, <1>2, <1>5, <2>3 DEF StepOf, Becomes, PlaceInv
  <2> QED
    BY <1>1, <1>5, <2>1, <2>2, <2>3 DEF PostRecorded
<1> QED
  BY <1>3, <1>4, <1>5

\* A POST that has ended, whatever its outcome, has its row while the endpoint
\* exists, unless its call is about to commit it, died before it could, or ended
\* there with a database error of its own: no receiver's failure and no
\* interleaving with registrations and deletions, failed ones included, loses one.
THEOREM OutcomesRecorded == Spec => []PostRecorded
<1>1. Init => PostRecorded
  BY DEF Init, PostRecorded
<1>2. TypeOK /\ WebInv /\ PostRecorded /\ [Next]_vars => PostRecorded'
  <2>1. ASSUME TypeOK, WebInv, PostRecorded, Next
        PROVE  PostRecorded'
    BY <2>1, NextCases, RecordedEndpoints, RecordedSends
  <2>2. PostRecorded /\ UNCHANGED vars => PostRecorded'
    BY DEF PostRecorded, vars, Existing
  <2> QED
    BY <2>1, <2>2
<1> QED
  BY <1>1, <1>2, WebInvariant, PTL DEF Spec

-----------------------------------------------------------------------------
(* The fan-out reaches every endpoint it selected.                         *)

\* Registration and deletion: the endpoint whose deletion cut a call short does
\* not come back, for its id is not issued again.
LEMMA FanoutEndpoints ==
  ASSUME TypeOK, WebInv, FanoutReachesAll,
         \/ \E active \in BOOLEAN : CreateWebhook(active)
         \/ \E x \in Deleters : Delete(x)
  PROVE  FanoutReachesAll'
<1>0. /\ UNCHANGED <<snd, posted>>
      /\ \A e \in Existing' : e \in Existing \/ e = nextId
  BY EndpointFields
<1>1. SUFFICES ASSUME NEW s \in Senders, snd[s].end \in {"returned", "raised"},
                      snd[s].cur \in snd[s].all \ Existing
               PROVE  snd[s].cur \notin Existing'
  BY <1>0 DEF FanoutReachesAll
<1>2. snd[s].cur < nextId /\ nextId \in Nat
  BY <1>1, EndpointAssumption DEF WebInv, CallInv, SelectInv, TypeOK
<1> QED
  BY <1>0, <1>1, <1>2

\* Calls: one that returns has nothing left to visit and, by ProgressInv, has
\* posted to all; one that raises found its endpoint, or the row, gone.
LEMMA FanoutSends ==
  ASSUME TypeOK, WebInv, FanoutReachesAll, NEW s \in Senders, Sends(s)
  PROVE  FanoutReachesAll'
<1>0. /\ StepOf(s)
      /\ \A t \in Senders : t # s => snd'[t] = snd[t]
      /\ Existing' = Existing
  BY StepFields DEF Existing
<1>1. posted \subseteq posted'
  BY <1>0 DEF StepOf
<1>2. ASSUME NEW t \in Senders, t # s, snd'[t].end \in {"returned", "raised"}
      PROVE  \/ \A e \in snd'[t].all : <<t, e>> \in posted'
             \/ snd'[t].cur \in snd'[t].all \ Existing'
  BY <1>0, <1>1, <1>2 DEF FanoutReachesAll
<1>3. ASSUME snd'[s].end \in {"returned", "raised"}
      PROVE  \/ \A e \in snd'[s].all : <<s, e>> \in posted'
             \/ snd'[s].cur \in snd'[s].all \ Existing'
  <2>0. SelectInv(s) /\ PlaceInv(s) /\ ProgressInv(s) /\ RowInv(s)
    BY DEF WebInv, CallInv
  <2>1. \/ /\ snd[s].pc = "loop" /\ snd[s].todo = {} /\ posted' = posted
           /\ snd'[s].all = snd[s].all
        \/ /\ snd'[s].all = snd[s].all /\ snd'[s].cur = snd[s].cur
           /\ \/ snd[s].pc = "record" /\ snd[s].cur \notin Existing
              \/ snd[s].pc = "refresh" /\ <<s, snd[s].cur, snd[s].success>> \notin rows
    BY <1>0, <1>3, <2>0 DEF StepOf, Becomes, PlaceInv
  <2>2. CASE snd[s].pc = "loop" /\ snd[s].todo = {} /\ posted' = posted
             /\ snd'[s].all = snd[s].all
    BY <2>0, <2>2 DEF ProgressInv
  <2>3. CASE /\ snd'[s].all = snd[s].all /\ snd'[s].cur = snd[s].cur
             /\ \/ snd[s].pc = "record" /\ snd[s].cur \notin Existing
                \/ snd[s].pc = "refresh" /\ <<s, snd[s].cur, snd[s].success>> \notin rows
    BY <1>0, <2>0, <2>3 DEF RowInv, PlaceInv, SelectInv
  <2> QED
    BY <2>1, <2>2, <2>3
<1> QED
  BY <1>2, <1>3 DEF FanoutReachesAll

\* A call of deliver_event or manual_deliver that ends without dying and without
\* an error of the database has sent its event to every endpoint it selected,
\* unless the one it was serving was deleted under it: failing receivers, and the
\* deletion of other endpoints, never cut it short.
THEOREM FanoutComplete == Spec => []FanoutReachesAll
<1>1. Init => FanoutReachesAll
  BY DEF Init, FanoutReachesAll, NewSender
<1>2. TypeOK /\ WebInv /\ FanoutReachesAll /\ [Next]_vars => FanoutReachesAll'
  <2>1. ASSUME TypeOK, WebInv, FanoutReachesAll, Next
        PROVE  FanoutReachesAll'
    BY <2>1, NextCases, FanoutEndpoints, FanoutSends
  <2>2. FanoutReachesAll /\ UNCHANGED vars => FanoutReachesAll'
    BY DEF FanoutReachesAll, vars, Existing
  <2> QED
    BY <2>1, <2>2
<1> QED
  BY <1>1, <1>2, WebInvariant, PTL DEF Spec
=============================================================================
