--------------------------- MODULE CasStoreProofs ---------------------------
(***************************************************************************)
(* Proofs about CasStore, for any digests, writers and inodes: the types,  *)
(* that until two stores of one digest overlap writes are atomic and calls *)
(* take effect in one step, and that until a write fault an incomplete     *)
(* chunk has a writer.                                                     *)
(***************************************************************************)
EXTENDS CasStore, TLAPS

\* What Goto leaves of a writer.
LEMMA GotoFields ==
    ASSUME TypeOK, NEW w \in Writers,
           NEW pc \in {"idle", "mkdir", "open", "write", "rename", "cleanup"}, Goto(w, pc)
    PROVE  /\ wr' \in [Writers -> WriterRec]
           /\ wr'[w].pc = pc /\ wr'[w].digest = wr[w].digest /\ wr'[w].fd = wr[w].fd
           /\ \A v \in Writers \ {w} : wr'[v] = wr[v]
BY DEF Goto, TypeOK, WriterRec

\* What a step that stops writer w leaves.
LEMMA StopFields ==
    ASSUME TypeOK, NEW w \in Writers, wr' = [wr EXCEPT ![w] = IdleWriter]
    PROVE  /\ wr' \in [Writers -> WriterRec]
           /\ wr'[w].pc = "idle" /\ wr'[w].fd = None
           /\ \A v \in Writers \ {w} : wr'[v] = wr[v]
BY DEF IdleWriter, TypeOK, WriterRec

\* What StoreOpen does: a fresh inode, or the one the name .tmp has.
LEMMA OpenFields ==
    ASSUME TypeOK, NEW w \in Writers, StoreOpen(w)
    PROVE  \E i \in Inodes :
              /\ wr[w].digest \in Digests
              /\ IF tmp[wr[w].digest] = None THEN Free(i) ELSE i = tmp[wr[w].digest]
              /\ tmp' \in [Digests -> Inodes \cup {None}]
              /\ tmp'[wr[w].digest] = i
              /\ \A e \in Digests \ {wr[w].digest} : tmp'[e] = tmp[e]
              /\ data' \in [Inodes -> {"short", "full"}]
              /\ data'[i] = "short" /\ \A k \in Inodes \ {i} : data'[k] = data[k]
              /\ wr' \in [Writers -> WriterRec]
              /\ wr'[w].pc = "write" /\ wr'[w].digest = wr[w].digest /\ wr'[w].fd = i
              /\ \A v \in Writers \ {w} : wr'[v] = wr[v]
PROOF
<1> DEFINE d == wr[w].digest
<1>1. d \in Digests
  BY DEF StoreOpen, TypeOK
<1>2. PICK i \in Inodes :
          /\ IF tmp[d] = None THEN Free(i) ELSE i = tmp[d]
          /\ tmp'  = [tmp EXCEPT ![d] = i]
          /\ data' = [data EXCEPT ![i] = "short"]
          /\ wr'   = [wr EXCEPT ![w] = [pc |-> "write", digest |-> d, fd |-> i]]
  BY DEF StoreOpen
<1>3. tmp' \in [Digests -> Inodes \cup {None}] /\ tmp'[d] = i
      /\ \A e \in Digests \ {d} : tmp'[e] = tmp[e]
  BY <1>1, <1>2 DEF TypeOK
<1>4. data' \in [Inodes -> {"short", "full"}] /\ data'[i] = "short"
      /\ \A k \in Inodes \ {i} : data'[k] = data[k]
  BY <1>2 DEF TypeOK
<1>5. /\ wr' \in [Writers -> WriterRec]
      /\ wr'[w].pc = "write" /\ wr'[w].digest = d /\ wr'[w].fd = i
      /\ \A v \in Writers \ {w} : wr'[v] = wr[v]
  BY <1>1, <1>2 DEF TypeOK, WriterRec
<1> QED
  BY <1>1, <1>2, <1>3, <1>4, <1>5

-----------------------------------------------------------------------------
(* Types.                                                                  *)

\* The calls of store keep the types, and open a file only in an existing
\* directory.
LEMMA StoreType ==
    ASSUME TypeOK, NEW w \in Writers, Store(w), raced' \in BOOLEAN, faulted' \in BOOLEAN
    PROVE  TypeOK'
PROOF
<1>1. ASSUME NEW d \in Digests, StoreBegin(w, d) PROVE TypeOK'
  <2>1. /\ wr' \in [Writers -> WriterRec] /\ wr'[w].pc = "mkdir" /\ wr'[w].digest = d
        /\ \A v \in Writers \ {w} : wr'[v] = wr[v]
    BY <1>1 DEF StoreBegin, TypeOK, WriterRec
  <2> QED
    BY <1>1, <2>1 DEF StoreBegin, TypeOK
<1>2. CASE StoreMkdir(w)
  BY <1>2, GotoFields DEF StoreMkdir, TypeOK
<1>3. CASE StoreOpen(w)
  <2>1. dir /\ UNCHANGED <<dir, path, gc>>
    BY <1>3 DEF StoreOpen
  <2> QED
    BY <1>3, <2>1, OpenFields DEF TypeOK
<1>4. CASE StoreOpenFail(w) \/ StoreWriteFail(w) \/ StoreRenameFail(w)
  BY <1>4, GotoFields DEF StoreOpenFail, StoreWriteFail, StoreRenameFail, TypeOK
<1>5. CASE StoreWrite(w)
  <2>1. data' \in [Inodes -> {"short", "full"}]
    BY <1>5 DEF StoreWrite, TypeOK
  <2> QED
    BY <1>5, <2>1, GotoFields DEF StoreWrite, TypeOK
<1>6. CASE StoreRename(w)
  <2>1. wr[w].digest \in Digests /\ dir
    BY <1>6 DEF StoreRename, TypeOK
  <2>2. path' \in [Digests -> Inodes \cup {None}] /\ tmp' \in [Digests -> Inodes \cup {None}]
    BY <1>6, <2>1 DEF StoreRename, TypeOK
  <2>3. gc' = gc /\ dir' = dir /\ data' = data
    BY <1>6 DEF StoreRename
  <2>4. gc.pc = "unlink" => path'[gc.digest] # None
    BY <1>6, <2>1 DEF StoreRename, TypeOK
  <2>5. wr' = [wr EXCEPT ![w] = IdleWriter]
    BY <1>6 DEF StoreRename
  <2> QED
    BY <2>1, <2>2, <2>3, <2>4, <2>5, StopFields DEF TypeOK
<1>7. CASE StoreCleanup(w)
  BY <1>7, StopFields DEF StoreCleanup, TypeOK
<1>8. CASE StoreCrash(w)
  BY <1>8, StopFields DEF StoreCrash, TypeOK
<1> QED
  BY <1>1, <1>2, <1>3, <1>4, <1>5, <1>6, <1>7, <1>8 DEF Store

\* The pruner's unlink and rmdir keep the types: only an empty directory goes.
LEMMA DeleteType ==
    ASSUME TypeOK, Delete, raced' \in BOOLEAN, faulted' \in BOOLEAN
    PROVE  TypeOK'
PROOF
<1>1. ASSUME NEW d \in Digests, DeleteBegin(d) PROVE TypeOK'
  BY <1>1 DEF DeleteBegin, TypeOK, GcRec
<1>2. CASE DeleteUnlink
  BY <1>2 DEF DeleteUnlink, TypeOK, GcRec
<1>3. CASE DeleteRmdir
  BY <1>3 DEF DeleteRmdir, DirEmpty, TypeOK, GcRec, IdleGc
<1> QED
  BY <1>1, <1>2, <1>3 DEF Delete

\* An empty store has its types.
LEMMA InitType == Init => TypeOK
PROOF
<1> SUFFICES ASSUME Init PROVE TypeOK
  OBVIOUS
<1>1. IdleWriter \in WriterRec /\ IdleWriter.pc = "idle"
  BY DEF IdleWriter, WriterRec
<1>2. IdleGc \in GcRec /\ IdleGc.pc = "idle"
  BY DEF IdleGc, GcRec
<1>3. \A w \in Writers : wr[w] = IdleWriter
  BY DEF Init
<1>4. wr \in [Writers -> WriterRec] /\ gc \in GcRec /\ gc.pc = "idle"
  BY <1>1, <1>2 DEF Init
<1> QED
  BY <1>1, <1>3, <1>4 DEF Init, TypeOK

\* Every call of store and delete keeps the types.
LEMMA NextType == TypeOK /\ [Next]_vars => TypeOK'
PROOF
<1> SUFFICES ASSUME TypeOK, [Next]_vars PROVE TypeOK'
  OBVIOUS
<1>1. CASE UNCHANGED vars
  BY <1>1 DEF vars, calls, TypeOK
<1>2. CASE Next
  <2>1. raced' \in BOOLEAN /\ faulted' \in BOOLEAN
    BY <1>2 DEF Next
  <2> QED
    BY <1>2, <2>1, StoreType, DeleteType DEF Next, Calls
<1> QED
  BY <1>1, <1>2

\* In every reachable state names live in an existing directory and the
\* pruner's unlink finds its file, however stores and deletes interleave.
THEOREM CasTypes == Spec => []TypeOK
BY InitType, NextType, PTL DEF Spec

-----------------------------------------------------------------------------
(* Atomic writes.                                                          *)

\* Without overlapping stores of a digest, a writer past open owns the name
\* .tmp, no inode has both a final and a temporary name, and the chunk a writer
\* has not found is still missing.
SoloInv ==
    /\ TypeOK
    /\ Complete
    /\ \A d, e \in Digests : path[d] # None => path[d] # tmp[e]
    /\ \A d, e \in Digests : d # e /\ tmp[d] # None => tmp[d] # tmp[e]
    /\ \A v, w \in Writers :
          v # w /\ wr[v].pc # "idle" /\ wr[w].pc # "idle" => wr[v].digest # wr[w].digest
    /\ \A w \in Writers :
          wr[w].pc \in {"write", "rename"} => tmp[wr[w].digest] = wr[w].fd
    /\ \A w \in Writers : wr[w].pc = "rename" => data[wr[w].fd] = "full"
    /\ \A w \in Writers : wr[w].pc # "idle" => path[wr[w].digest] = None

\* A store that is alone with its digest renames only what it has written in
\* full.
LEMMA StoreSolo ==
    ASSUME SoloInv, TypeOK', ~Overlap', NEW w \in Writers, Store(w)
    PROVE  SoloInv'
PROOF
<1> USE InodeAssumption
<1>0. TypeOK
  BY DEF SoloInv
<1>e. \A v, u \in Writers :
         v # u /\ wr'[v].pc # "idle" /\ wr'[u].pc # "idle" => wr'[v].digest # wr'[u].digest
  BY DEF Overlap
<1>1. ASSUME NEW d \in Digests, StoreBegin(w, d) PROVE SoloInv'
  <2>1. /\ wr'[w].pc = "mkdir"
        /\ \A v \in Writers \ {w} : wr'[v] = wr[v]
    BY <1>0, <1>1 DEF StoreBegin, TypeOK
  <2> QED
    BY <1>1, <1>e, <2>1 DEF StoreBegin, SoloInv, Complete
<1>2. ASSUME StoreMkdir(w) \/ StoreOpenFail(w) \/ StoreWriteFail(w) \/ StoreRenameFail(w)
      PROVE  SoloInv'
  <2>1. /\ wr'[w].pc \in {"open", "cleanup"}
        /\ wr[w].pc # "idle" /\ wr'[w].digest = wr[w].digest
        /\ \A v \in Writers \ {w} : wr'[v] = wr[v]
        /\ UNCHANGED <<path, tmp, data, gc>>
    BY <1>0, <1>2, GotoFields DEF StoreMkdir, StoreOpenFail, StoreWriteFail, StoreRenameFail
  <2> QED
    BY <1>e, <2>1 DEF SoloInv, Complete
<1>3. CASE StoreOpen(w)
  <2> DEFINE d == wr[w].digest
  <2>1. PICK i \in Inodes :
              /\ d \in Digests
              /\ IF tmp[d] = None THEN Free(i) ELSE i = tmp[d]
              /\ tmp' \in [Digests -> Inodes \cup {None}]
              /\ tmp'[d] = i
              /\ \A e \in Digests \ {d} : tmp'[e] = tmp[e]
              /\ data' \in [Inodes -> {"short", "full"}]
              /\ data'[i] = "short" /\ \A k \in Inodes \ {i} : data'[k] = data[k]
              /\ wr' \in [Writers -> WriterRec]
              /\ wr'[w].pc = "write" /\ wr'[w].digest = d /\ wr'[w].fd = i
              /\ \A v \in Writers \ {w} : wr'[v] = wr[v]
    BY <1>0, <1>3, OpenFields
  <2>2. path' = path /\ wr[w].pc = "open"
    BY <1>3 DEF StoreOpen
  <2>3. \A e \in Digests : path[e] # i
    BY <2>1 DEF SoloInv, Free
  <2>4. \A e \in Digests \ {d} : tmp[e] # i
    BY <2>1 DEF SoloInv, Free
  <2>5. Complete'
    BY <1>0, <2>1, <2>2, <2>3 DEF SoloInv, Complete, TypeOK
  <2>6. \A a, b \in Digests : path'[a] # None => path'[a] # tmp'[b]
    BY <2>1, <2>2, <2>3 DEF SoloInv
  <2>7. \A a, b \in Digests : a # b /\ tmp'[a] # None => tmp'[a] # tmp'[b]
    BY <2>1, <2>4 DEF SoloInv
  <2>8. ASSUME NEW v \in Writers, v # w, wr[v].pc \in {"write", "rename"}
        PROVE  wr[v].digest \in Digests \ {d} /\ wr[v].fd \in Inodes \ {i}
    BY <1>0, <2>1, <2>2, <2>4, <2>8 DEF SoloInv, TypeOK
  <2>9. \A v \in Writers :
          /\ wr'[v].pc \in {"write", "rename"} => tmp'[wr'[v].digest] = wr'[v].fd
          /\ wr'[v].pc = "rename" => data'[wr'[v].fd] = "full"
    BY <2>1, <2>8 DEF SoloInv
  <2>10. \A v \in Writers : wr'[v].pc # "idle" => path'[wr'[v].digest] = None
    BY <2>1, <2>2 DEF SoloInv
  <2> QED
    BY <1>e, <2>5, <2>6, <2>7, <2>9, <2>10 DEF SoloInv
<1>4. CASE StoreWrite(w)
  <2>1. /\ wr[w].fd \in Inodes /\ path' = path /\ tmp' = tmp
        /\ wr[w].pc = "write" /\ data' = [data EXCEPT ![wr[w].fd] = "full"]
        /\ wr'[w].pc = "rename" /\ wr'[w].digest = wr[w].digest /\ wr'[w].fd = wr[w].fd
        /\ \A v \in Writers \ {w} : wr'[v] = wr[v]
    BY <1>0, <1>4, GotoFields DEF StoreWrite, TypeOK
  <2>2. \A k \in Inodes : data[k] = "full" => data'[k] = "full"
    BY <1>0, <2>1 DEF TypeOK
  <2>3. data'[wr[w].fd] = "full"
    BY <1>0, <2>1 DEF TypeOK
  <2>4. Complete'
    BY <1>0, <2>1, <2>2 DEF SoloInv, Complete, TypeOK
  <2> QED
    BY <1>0, <1>e, <2>1, <2>2, <2>3, <2>4 DEF SoloInv, TypeOK
<1>5. CASE StoreRename(w)
  <2> DEFINE d == wr[w].digest
  <2>1. /\ d \in Digests /\ tmp[d] \in Inodes /\ data' = data
        /\ wr[w].pc = "rename" /\ tmp[d] = wr[w].fd
        /\ path'[d] = tmp[d] /\ \A e \in Digests \ {d} : path'[e] = path[e]
        /\ tmp'[d] = None /\ \A e \in Digests \ {d} : tmp'[e] = tmp[e]
    BY <1>0, <1>5 DEF StoreRename, SoloInv, TypeOK
  <2>2. wr'[w].pc = "idle" /\ \A v \in Writers \ {w} : wr'[v] = wr[v]
    BY <1>0, <1>5, StopFields DEF StoreRename
  <2>3. Complete'
    BY <2>1 DEF SoloInv, Complete
  <2>4. \A a, b \in Digests : path'[a] # None => path'[a] # tmp'[b]
    BY <2>1 DEF SoloInv
  <2>5. \A a, b \in Digests : a # b /\ tmp'[a] # None => tmp'[a] # tmp'[b]
    BY <2>1 DEF SoloInv
  <2>6. \A v \in Writers \ {w} : wr[v].pc # "idle" => wr[v].digest \in Digests \ {d}
    BY <1>0, <2>1 DEF SoloInv, TypeOK
  <2>7. \A v \in Writers :
          /\ wr'[v].pc \in {"write", "rename"} => tmp'[wr'[v].digest] = wr'[v].fd
          /\ wr'[v].pc = "rename" => data'[wr'[v].fd] = "full"
    BY <2>1, <2>2, <2>6 DEF SoloInv
  <2>8. \A v \in Writers : wr'[v].pc # "idle" => path'[wr'[v].digest] = None
    BY <2>1, <2>2, <2>6 DEF SoloInv
  <2> QED
    BY <1>e, <2>3, <2>4, <2>5, <2>7, <2>8 DEF SoloInv
<1>6. ASSUME StoreCleanup(w) \/ StoreCrash(w) PROVE SoloInv'
  <2> DEFINE d == wr[w].digest
  <2>1. /\ d \in Digests /\ data' = data /\ path' = path /\ wr[w].pc # "idle"
        /\ tmp'[d] \in {tmp[d], None} /\ \A e \in Digests \ {d} : tmp'[e] = tmp[e]
    BY <1>0, <1>6 DEF StoreCleanup, StoreCrash, TypeOK
  <2>2. wr'[w].pc = "idle" /\ \A v \in Writers \ {w} : wr'[v] = wr[v]
    BY <1>0, <1>6, StopFields DEF StoreCleanup, StoreCrash
  <2>3. Complete'
    BY <2>1 DEF SoloInv, Complete
  <2>4. \A a, b \in Digests : path'[a] # None => path'[a] # tmp'[b]
    BY <2>1 DEF SoloInv
  <2>5. \A a, b \in Digests : a # b /\ tmp'[a] # None => tmp'[a] # tmp'[b]
    BY <2>1 DEF SoloInv
  <2>6. \A v \in Writers \ {w} : wr[v].pc # "idle" => wr[v].digest \in Digests \ {d}
    BY <1>0, <2>1 DEF SoloInv, TypeOK
  <2>7. \A v \in Writers :
          /\ wr'[v].pc \in {"write", "rename"} => tmp'[wr'[v].digest] = wr'[v].fd
          /\ wr'[v].pc = "rename" => data'[wr'[v].fd] = "full"
    BY <2>1, <2>2, <2>6 DEF SoloInv
  <2>8. \A v \in Writers : wr'[v].pc # "idle" => path'[wr'[v].digest] = None
    BY <2>1, <2>2, <2>6 DEF SoloInv
  <2> QED
    BY <1>e, <2>3, <2>4, <2>5, <2>7, <2>8 DEF SoloInv
<1> QED
  BY <1>1, <1>2, <1>3, <1>4, <1>5, <1>6 DEF Store

\* Deleting a chunk leaves the other names and their data alone.
LEMMA DeleteSolo ==
    ASSUME SoloInv, TypeOK', Delete
    PROVE  SoloInv'
PROOF
<1>1. UNCHANGED <<tmp, data, wr>> /\ \A d \in Digests : path'[d] \in {path[d], None}
  BY DEF Delete, DeleteBegin, DeleteUnlink, DeleteRmdir, SoloInv, TypeOK
<1>2. \A w \in Writers : wr'[w].pc # "idle" => path'[wr'[w].digest] = None
  BY <1>1 DEF SoloInv, TypeOK
<1> QED
  BY <1>1, <1>2 DEF SoloInv, Complete

\* What holds until two stores of one digest overlap.
AtomicInv == TypeOK /\ (~raced => SoloInv)

\* It is an invariant of the calls.
LEMMA AtomicInductive == Spec => []AtomicInv
PROOF
<1>1. Init => AtomicInv
  <2> SUFFICES ASSUME Init PROVE SoloInv
    BY DEF SoloInv, AtomicInv
  <2>1. TypeOK
    BY InitType
  <2>2. /\ \A w \in Writers : wr[w].pc = "idle"
        /\ \A d \in Digests : path[d] = None /\ tmp[d] = None
    BY DEF Init, IdleWriter
  <2> QED
    BY <2>1, <2>2 DEF SoloInv, Complete
<1>2. AtomicInv /\ [Next]_vars => AtomicInv'
  <2> SUFFICES ASSUME AtomicInv, [Next]_vars, ~raced' PROVE SoloInv'
    BY NextType DEF AtomicInv
  <2>1. TypeOK'
    BY NextType DEF AtomicInv
  <2>2. CASE UNCHANGED vars
    BY <2>1, <2>2 DEF vars, calls, SoloInv, Complete, AtomicInv
  <2>3. CASE Next
    <3>1. ~Overlap' /\ SoloInv /\ Calls
      BY <2>3 DEF Next, AtomicInv
    <3> QED
      BY <2>1, <3>1, StoreSolo, DeleteSolo DEF Calls
  <2> QED
    BY <2>2, <2>3
<1> QED
  BY <1>1, <1>2, PTL DEF Spec

\* Until two stores of the same digest overlap, every chunk under its final name
\* is complete, whatever crashes, write errors and deletes happen.
THEOREM AtomicWhenSolo == Spec => []AtomicWrite
PROOF
<1>1. AtomicInv => AtomicWrite
  BY DEF AtomicInv, SoloInv, AtomicWrite
<1> QED
  BY <1>1, AtomicInductive, PTL

\* Until then, what retrieve returns changes only in the step by which a store or a
\* delete succeeds, by its one digest: every name is bound to a complete file, so
\* that only rename and unlink show, and rename finds the name free.
THEOREM CallsAtomic == Spec => CallsTakeEffect
PROOF
<1> DEFINE Came(w) == /\ wr[w].pc = "rename" /\ wr'[w].pc = "idle"
                      /\ wr[w].digest \notin Stored
                      /\ Stored' = Stored \cup {wr[w].digest}
           Went == /\ gc.pc = "unlink" /\ gc'.pc = "rmdir"
                   /\ gc.digest \in Stored
                   /\ Stored' = Stored \ {gc.digest}
           Step == \/ raced'
                   \/ path' = path /\ Stored' = Stored
                   \/ \E w \in Writers : Came(w)
                   \/ Went
<1>1. ASSUME AtomicInv, AtomicInv', [Next]_vars PROVE [Step]_vars
  <2> SUFFICES ASSUME Next, ~raced' PROVE Step
    BY <1>1
  <2>1. Calls /\ SoloInv /\ SoloInv' /\ TypeOK /\ TypeOK'
    BY <1>1 DEF Next, AtomicInv
  <2>2. /\ Stored = {d \in Digests : path[d] # None}
        /\ Stored' = {d \in Digests : path'[d] # None}
    BY <2>1 DEF SoloInv, Complete, Stored
  <2>3. ASSUME NEW w \in Writers, StoreRename(w)
        PROVE  Came(w)
    <3> DEFINE d == wr[w].digest
    <3>1. /\ d \in Digests /\ path[d] = None /\ tmp[d] # None /\ wr[w].pc = "rename"
          /\ path' = [path EXCEPT ![d] = tmp[d]]
      BY <2>1, <2>3 DEF StoreRename, SoloInv, TypeOK
    <3>2. wr'[w].pc = "idle"
      BY <2>1, <2>3, StopFields DEF StoreRename
    <3>3. path'[d] # None /\ \A e \in Digests \ {d} : path'[e] = path[e]
      BY <2>1, <3>1 DEF TypeOK
    <3> QED
      BY <2>2, <3>1, <3>2, <3>3
  <2>4. CASE DeleteUnlink
    <3>1. /\ gc.digest \in Digests /\ path[gc.digest] # None /\ gc.pc = "unlink" /\ gc'.pc = "rmdir"
          /\ path' = [path EXCEPT ![gc.digest] = None]
      BY <2>1, <2>4 DEF DeleteUnlink, TypeOK
    <3>2. path'[gc.digest] = None /\ \A e \in Digests \ {gc.digest} : path'[e] = path[e]
      BY <2>1, <3>1 DEF TypeOK
    <3>3. Went
      BY <2>2, <3>1, <3>2
    <3> QED
      BY <3>3
  <2>5. CASE path' = path
    BY <2>2, <2>5
  <2>6. \/ path' = path
        \/ DeleteUnlink
        \/ \E w \in Writers : StoreRename(w)
    <3>1. CASE Delete
      BY <3>1 DEF Delete, DeleteBegin, DeleteRmdir
    <3>2. ASSUME NEW w \in Writers, Store(w)
          PROVE  path' = path \/ StoreRename(w)
      BY <3>2 DEF Store, StoreBegin, StoreMkdir, StoreOpen, StoreOpenFail, StoreWrite,
                  StoreWriteFail, StoreRenameFail, StoreCleanup, StoreCrash
    <3> QED
      BY <2>1, <3>1, <3>2 DEF Calls
  <2> HIDE DEF Came, Went
  <2> QED
    BY <2>3, <2>4, <2>5, <2>6
<1>2. Spec => [][Step]_vars
  BY <1>1, AtomicInductive, PTL DEF Spec
<1> QED
  BY <1>2 DEF CallsTakeEffect

-----------------------------------------------------------------------------
(* Incomplete chunks have a writer.                                        *)

\* The property for temporary names too: rename may move any of them.
Held(i) == data[i] = "short" => \E w \in Writers : wr[w].pc = "write" /\ wr[w].fd = i

HeldInv ==
    /\ TypeOK
    /\ \A d \in Digests : path[d] # None => Held(path[d])
    /\ \A d \in Digests : tmp[d] # None => Held(tmp[d])

\* Steps that leave the data alone and interrupt no writer keep Held.
LEMMA HeldKept ==
    ASSUME data' = data,
           \A v \in Writers : wr[v].pc = "write" => wr'[v].pc = "write" /\ wr'[v].fd = wr[v].fd
    PROVE  \A i \in Inodes : Held(i) => Held(i)'
BY DEF Held

\* A store that is not interrupted while writing leaves no short file without a
\* writer.
LEMMA StoreHeld ==
    ASSUME HeldInv, TypeOK', ~WriteFault, NEW w \in Writers, Store(w)
    PROVE  HeldInv'
PROOF
<1> USE InodeAssumption
<1>0. TypeOK
  BY DEF HeldInv
<1>1. ASSUME NEW d \in Digests, StoreBegin(w, d) PROVE HeldInv'
  <2>1. /\ wr[w].pc # "write" /\ UNCHANGED <<path, tmp, data>>
        /\ \A v \in Writers \ {w} : wr'[v] = wr[v]
    BY <1>0, <1>1 DEF StoreBegin, TypeOK
  <2>2. \A i \in Inodes : Held(i) => Held(i)'
    BY <2>1, HeldKept
  <2> QED
    BY <1>0, <2>1, <2>2 DEF HeldInv, TypeOK
<1>2. ASSUME StoreMkdir(w) \/ StoreOpenFail(w) \/ StoreRenameFail(w) PROVE HeldInv'
  <2>1. /\ wr[w].pc # "write" /\ UNCHANGED <<path, tmp, data>>
        /\ \A v \in Writers \ {w} : wr'[v] = wr[v]
    BY <1>0, <1>2, GotoFields DEF StoreMkdir, StoreOpenFail, StoreRenameFail
  <2>2. \A i \in Inodes : Held(i) => Held(i)'
    BY <2>1, HeldKept
  <2> QED
    BY <1>0, <2>1, <2>2 DEF HeldInv, TypeOK
<1>3. CASE StoreWriteFail(w)
  BY <1>0, <1>3, GotoFields DEF StoreWriteFail, WriteFault
<1>4. CASE StoreOpen(w)
  <2> DEFINE d == wr[w].digest
  <2>1. PICK i \in Inodes :
              /\ d \in Digests
              /\ tmp'[d] = i
              /\ \A e \in Digests \ {d} : tmp'[e] = tmp[e]
              /\ data'[i] = "short" /\ \A k \in Inodes \ {i} : data'[k] = data[k]
              /\ wr'[w].pc = "write" /\ wr'[w].fd = i
              /\ \A v \in Writers \ {w} : wr'[v] = wr[v]
    BY <1>0, <1>4, OpenFields
  <2>2. path' = path /\ wr[w].pc = "open"
    BY <1>4 DEF StoreOpen
  <2>3. \A k \in Inodes : k = i \/ Held(k) => Held(k)'
    BY <2>1, <2>2 DEF Held
  <2> QED
    BY <1>0, <2>1, <2>2, <2>3 DEF HeldInv, TypeOK
<1>5. CASE StoreWrite(w)
  <2>1. /\ wr[w].fd \in Inodes /\ path' = path /\ tmp' = tmp
        /\ data' = [data EXCEPT ![wr[w].fd] = "full"]
        /\ \A v \in Writers \ {w} : wr'[v] = wr[v]
    BY <1>0, <1>5, GotoFields DEF StoreWrite, TypeOK
  <2>2. data'[wr[w].fd] = "full" /\ \A k \in Inodes \ {wr[w].fd} : data'[k] = data[k]
    BY <1>0, <2>1 DEF TypeOK
  <2>3. \A k \in Inodes : Held(k) => Held(k)'
    BY <2>1, <2>2 DEF Held
  <2> QED
    BY <1>0, <2>1, <2>3 DEF HeldInv, TypeOK
<1>6. ASSUME StoreRename(w) \/ StoreCleanup(w) \/ StoreCrash(w) PROVE HeldInv'
  <2> DEFINE d == wr[w].digest
  <2>1. /\ d \in Digests /\ data' = data
        /\ path'[d] \in {path[d], tmp[d]} /\ \A e \in Digests \ {d} : path'[e] = path[e]
        /\ tmp'[d] \in {tmp[d], None} /\ \A e \in Digests \ {d} : tmp'[e] = tmp[e]
    BY <1>0, <1>6 DEF StoreRename, StoreCleanup, StoreCrash, TypeOK
  <2>2. wr'[w].pc = "idle" /\ \A v \in Writers \ {w} : wr'[v] = wr[v]
    BY <1>0, <1>6, StopFields DEF StoreRename, StoreCleanup, StoreCrash
  <2>3. wr[w].pc # "write"
    BY <2>2 DEF WriteFault
  <2>4. \A k \in Inodes : Held(k) => Held(k)'
    BY <2>1, <2>2, <2>3, HeldKept
  <2> QED
    BY <1>0, <2>1, <2>4 DEF HeldInv, TypeOK
<1> QED
  BY <1>1, <1>2, <1>3, <1>4, <1>5, <1>6 DEF Store

\* Deleting a chunk interrupts no writer.
LEMMA DeleteHeld ==
    ASSUME HeldInv, TypeOK', Delete
    PROVE  HeldInv'
PROOF
<1>1. UNCHANGED <<tmp, data, wr>> /\ \A d \in Digests : path'[d] \in {path[d], None}
  BY DEF Delete, DeleteBegin, DeleteUnlink, DeleteRmdir, HeldInv, TypeOK
<1> QED
  BY <1>1 DEF HeldInv, Held

\* Until a write fails or a worker dies with the file open, a chunk that racing
\* stores left incomplete is still being written by one of them.
THEOREM TornIsBeingWritten == Spec => []TornHasWriter
PROOF
<1> DEFINE Inv == TypeOK /\ (~faulted => HeldInv)
<1>1. Init => Inv
  <2> SUFFICES ASSUME Init PROVE HeldInv
    BY DEF HeldInv
  <2>1. TypeOK
    BY InitType
  <2> QED
    BY <2>1 DEF Init, HeldInv
<1>2. Inv /\ [Next]_vars => Inv'
  <2> SUFFICES ASSUME Inv, [Next]_vars, ~faulted' PROVE HeldInv'
    BY NextType
  <2>1. TypeOK'
    BY NextType
  <2>2. CASE UNCHANGED vars
    BY <2>1, <2>2 DEF vars, calls, HeldInv, Held
  <2>3. CASE Next
    <3>1. ~WriteFault /\ HeldInv /\ Calls
      BY <2>3 DEF Next
    <3> QED
      BY <2>1, <3>1, StoreHeld, DeleteHeld DEF Calls
  <2> QED
    BY <2>2, <2>3
<1>3. Inv => TornHasWriter
  BY DEF HeldInv, Held, TornHasWriter
<1> QED
  BY <1>1, <1>2, <1>3, PTL DEF Spec
=============================================================================
