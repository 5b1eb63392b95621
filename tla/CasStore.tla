------------------------------ MODULE CasStore ------------------------------
(***************************************************************************)
(* CASStore.store, retrieve and delete at the level of the file system     *)
(* calls they make (app/core/cas.py), run concurrently by backup workers   *)
(* and the retention pruner, which share nothing but the directory.        *)
(*                                                                         *)
(* All digests here fall into the same shard directory.  A digest has two  *)
(* names in it, <digest> and <digest>.tmp; a name is bound to an inode,    *)
(* and an inode's data is "short" (truncated by open, or partly written)   *)
(* or "full" (the whole payload).  All writers of a digest write the same  *)
(* payload, from the start of the file.                                    *)
(***************************************************************************)
EXTENDS Naturals

CONSTANTS
    Digests,
    Writers,      \* tasks inside CASStore.store
    Inodes        \* bound: enough for every name and open file

None == 0
ASSUME InodeAssumption == None \notin Inodes

VARIABLES
    dir,          \* the shard directory exists
    path,         \* <digest> -> inode
    tmp,          \* <digest>.tmp -> inode
    data,         \* inode -> "short" or "full"
    wr,           \* writers: where they are, their digest and open inode
    gc,           \* the pruner's delete: digest it works on and next call
    raced,        \* history: two stores of one digest have overlapped
    faulted       \* history: a write failed, or a worker died while writing

calls == <<dir, path, tmp, data, wr, gc>>
vars  == <<calls, raced, faulted>>

WriterRec == [pc : {"idle", "mkdir", "open", "write", "rename", "cleanup"},
              digest : Digests \cup {None}, fd : Inodes \cup {None}]

IdleWriter == [pc |-> "idle", digest |-> None, fd |-> None]

GcRec == [pc : {"idle", "unlink", "rmdir"}, digest : Digests \cup {None}]

IdleGc == [pc |-> "idle", digest |-> None]

Init ==
    /\ dir = FALSE
    /\ path = [d \in Digests |-> None]
    /\ tmp  = [d \in Digests |-> None]
    /\ data = [i \in Inodes |-> "short"]
    /\ wr   = [w \in Writers |-> IdleWriter]
    /\ gc   = IdleGc
    /\ raced = FALSE /\ faulted = FALSE

Free(i) ==
    /\ \A d \in Digests : path[d] # i /\ tmp[d] # i
    /\ \A w \in Writers : wr[w].fd # i

Goto(w, pc) == wr' = [wr EXCEPT ![w] = [pc |-> pc, digest |-> wr[w].digest, fd |-> wr[w].fd]]

-----------------------------------------------------------------------------
(* store.                                                                  *)

\* path.exists() is false.  When it is true store returns at once, a dedup hit.
StoreBeginUnchecked(w, d) ==                                          \* mutant
    /\ wr[w].pc = "idle"
    /\ wr' = [wr EXCEPT ![w] = [pc |-> "mkdir", digest |-> d, fd |-> None]]
    /\ UNCHANGED <<dir, path, tmp, data, gc>>
StoreBegin(w, d) ==
    /\ wr[w].pc = "idle"
    /\ path[d] = None
    /\ wr' = [wr EXCEPT ![w] = [pc |-> "mkdir", digest |-> d, fd |-> None]]
    /\ UNCHANGED <<dir, path, tmp, data, gc>>

\* path.parent.mkdir(exist_ok=True), then the payload is compressed or not.
StoreMkdir(w) ==
    /\ wr[w].pc = "mkdir"
    /\ dir' = TRUE
    /\ Goto(w, "open")
    /\ UNCHANGED <<path, tmp, data, gc>>

\* open(tmp_path, "wb") creates the file, or truncates the one that is there.
StoreOpenInPlace(w) ==                                                \* mutant
    LET d == wr[w].digest IN
    /\ wr[w].pc = "open"
    /\ dir
    /\ \E i \in Inodes :
          /\ Free(i)
          /\ path' = [path EXCEPT ![d] = i]
          /\ data' = [data EXCEPT ![i] = "short"]
          /\ wr'   = [wr EXCEPT ![w] = [pc |-> "write", digest |-> d, fd |-> i]]
    /\ UNCHANGED <<dir, tmp, gc>>
StoreOpen(w) ==
    LET d == wr[w].digest IN
    /\ wr[w].pc = "open"
    /\ dir
    /\ \E i \in Inodes :
          /\ IF tmp[d] = None THEN Free(i) ELSE i = tmp[d]
          /\ tmp'  = [tmp EXCEPT ![d] = i]
          /\ data' = [data EXCEPT ![i] = "short"]
          /\ wr'   = [wr EXCEPT ![w] = [pc |-> "write", digest |-> d, fd |-> i]]
    /\ UNCHANGED <<dir, path, gc>>

\* The pruner has removed the directory since mkdir: FileNotFoundError.
StoreOpenFail(w) ==
    /\ wr[w].pc = "open"
    /\ ~dir
    /\ Goto(w, "cleanup")
    /\ UNCHANGED <<dir, path, tmp, data, gc>>

StoreWriteUnflushed(w) ==                                             \* mutant
    /\ wr[w].pc = "write"
    /\ Goto(w, "rename")
    /\ UNCHANGED <<dir, path, tmp, data, gc>>
StoreWrite(w) ==
    /\ wr[w].pc = "write"
    /\ data' = [data EXCEPT ![wr[w].fd] = "full"]
    /\ Goto(w, "rename")
    /\ UNCHANGED <<dir, path, tmp, gc>>

\* The write raises (disk full, I/O error).
StoreWriteFail(w) ==
    /\ wr[w].pc = "write"
    /\ Goto(w, "cleanup")
    /\ UNCHANGED <<dir, path, tmp, data, gc>>

\* tmp_path.rename(path) moves whatever the name .tmp is bound to now.
StoreRename(w) ==
    LET d == wr[w].digest IN
    /\ wr[w].pc = "rename"
    /\ tmp[d] # None
    /\ path' = [path EXCEPT ![d] = tmp[d]]
    /\ tmp'  = [tmp EXCEPT ![d] = None]
    /\ wr'   = [wr EXCEPT ![w] = IdleWriter]
    /\ UNCHANGED <<dir, data, gc>>

\* Another writer of the digest has renamed or removed it: FileNotFoundError.
StoreRenameFail(w) ==
    /\ wr[w].pc = "rename"
    /\ tmp[wr[w].digest] = None
    /\ Goto(w, "cleanup")
    /\ UNCHANGED <<dir, path, tmp, data, gc>>

\* tmp_path.unlink(missing_ok=True), and store raises.
StoreCleanup(w) ==
    /\ wr[w].pc = "cleanup"
    /\ tmp' = [tmp EXCEPT ![wr[w].digest] = None]
    /\ wr'  = [wr EXCEPT ![w] = IdleWriter]
    /\ UNCHANGED <<dir, path, data, gc>>

\* The worker process dies; its files stay as they are.
StoreCrash(w) ==
    /\ wr[w].pc # "idle"
    /\ wr' = [wr EXCEPT ![w] = IdleWriter]
    /\ UNCHANGED <<dir, path, tmp, data, gc>>

-----------------------------------------------------------------------------
(* delete, called by the pruner only.                                      *)

DeleteBegin(d) ==
    /\ gc.pc = "idle"
    /\ path[d] # None
    /\ gc' = [pc |-> "unlink", digest |-> d]
    /\ UNCHANGED <<dir, path, tmp, data, wr>>

DeleteUnlink ==
    /\ gc.pc = "unlink"
    /\ path' = [path EXCEPT ![gc.digest] = None]
    /\ gc'   = [pc |-> "rmdir", digest |-> gc.digest]
    /\ UNCHANGED <<dir, tmp, data, wr>>

\* path.parent.rmdir(), which fails silently unless the directory is empty.
DirEmptyOfChunks == \A d \in Digests : path[d] = None                 \* mutant
DirEmpty == \A d \in Digests : path[d] = None /\ tmp[d] = None

DeleteRmdir ==
    /\ gc.pc = "rmdir"
    /\ dir' = (dir /\ ~DirEmpty)
    /\ gc'  = IdleGc
    /\ UNCHANGED <<path, tmp, data, wr>>

-----------------------------------------------------------------------------
Store(w) ==
    \/ \E d \in Digests : StoreBegin(w, d)
    \/ StoreMkdir(w)
    \/ StoreOpen(w)
    \/ StoreOpenFail(w)
    \/ StoreWrite(w)
    \/ StoreWriteFail(w)
    \/ StoreRename(w)
    \/ StoreRenameFail(w)
    \/ StoreCleanup(w)
    \/ StoreCrash(w)

Delete ==
    \/ \E d \in Digests : DeleteBegin(d)
    \/ DeleteUnlink
    \/ DeleteRmdir

Calls == (\E w \in Writers : Store(w)) \/ Delete

\* What the properties remember of the past.  The code prevents neither.
Overlap ==
    \E v, w \in Writers :
        v # w /\ wr[v].pc # "idle" /\ wr[w].pc # "idle" /\ wr[v].digest = wr[w].digest

WriteFault ==
    \E w \in Writers : wr[w].pc = "write" /\ wr'[w].pc \notin {"write", "rename"}

Next ==
    /\ Calls
    /\ raced'   = (raced \/ Overlap')
    /\ faulted' = (faulted \/ WriteFault)

Spec == Init /\ [][Next]_vars

-----------------------------------------------------------------------------
(* Properties.                                                             *)

\* Every variable has its type; a bound name lies in an existing directory and
\* the pruner's unlink finds its file (cas.py 123-130: the unlink may not raise).
TypeOK ==
    /\ dir \in BOOLEAN
    /\ path \in [Digests -> Inodes \cup {None}]
    /\ tmp \in [Digests -> Inodes \cup {None}]
    /\ data \in [Inodes -> {"short", "full"}]
    /\ wr \in [Writers -> WriterRec]
    /\ gc \in GcRec
    /\ raced \in BOOLEAN /\ faulted \in BOOLEAN
    /\ \A w \in Writers : wr[w].pc # "idle" => wr[w].digest \in Digests
    /\ \A w \in Writers : wr[w].pc \in {"write", "rename"} => wr[w].fd \in Inodes
    /\ ~dir => \A d \in Digests : path[d] = None /\ tmp[d] = None
    /\ gc.pc = "unlink" => gc.digest \in Digests /\ path[gc.digest] # None

\* The chunks that retrieve returns whole.
Stored == {d \in Digests : path[d] # None /\ data[path[d]] = "full"}

\* Every chunk that can be retrieved is complete.
Complete == \A d \in Digests : path[d] # None => data[path[d]] = "full"

\* "The write is atomic: data goes to a temp file then is renamed" (cas.py 65):
\* unless two stores of one digest have overlapped, a chunk under its final name
\* is complete, whatever crashes, write errors and deletes there were, so a
\* later store may take it for a dedup hit (cas.py 70-71) and a restore may read
\* it.
AtomicWrite == raced \/ Complete

\* An incomplete chunk under its final name is being completed: unless a write
\* has failed or a worker died while writing, some writer has it open and has
\* yet to write the whole payload (cas.py 89-90), however many stores race.
\* Without this nothing ever repairs it, every later store being a dedup hit.
TornHasWriter ==
    faulted \/ \A d \in Digests :
        path[d] # None /\ data[path[d]] = "short" =>
            \E w \in Writers : wr[w].pc = "write" /\ wr[w].fd = path[d]

\* Calls take effect in one step: a chunk comes with the rename of a store that
\* then returns is_new True (cas.py 90, 95), and was not there before; it goes
\* with the unlink of a delete that then returns True (cas.py 126-131), and was
\* there whole.  No other call, failure or crash shows in what retrieve returns,
\* unless two stores of one digest have overlapped.
CallsTakeEffect ==
    [][\/ raced'
       \/ path' = path /\ Stored' = Stored
       \/ \E w \in Writers :
             /\ wr[w].pc = "rename" /\ wr'[w].pc = "idle"
             /\ wr[w].digest \notin Stored
             /\ Stored' = Stored \cup {wr[w].digest}
       \/ /\ gc.pc = "unlink" /\ gc'.pc = "rmdir"
          /\ gc.digest \in Stored
          /\ Stored' = Stored \ {gc.digest}
      ]_vars
=============================================================================
