---------------------------- MODULE FileService ----------------------------
(***************************************************************************)
(* internal/service/file.go: the operations on a user's tree of files, as  *)
(* the HTTP handlers and the daily jobs of app.go run them concurrently.   *)
(*                                                                         *)
(* A request is a record of what it has read so far; its next action acts  *)
(* on that record, whatever happened to the tables since.  The reads an    *)
(* operation makes before its transaction are one step, the reads inside   *)
(* the transaction one more (InnoDB's REPEATABLE READ snapshot), and its   *)
(* statements and COMMIT the last one.                                     *)
(***************************************************************************)
EXTENDS FileTable

CONSTANTS
    Handlers,       \* goroutines of HTTP requests
    Cleaner,        \* the goroutine of the 3h timer (AutoCleanRecycle)
    Calibrator,     \* the goroutine of the 4h timer (CalibrateAllStorage)
    Uploads,        \* ids of chunked uploads
    NoUpload,
    MaxActive,      \* bound: requests and jobs in flight
    MaxUsed,        \* bound: no request adds bytes once storage_used exceeds it
    ConflictMode,   \* upload.on_name_conflict: "overwrite", or anything else
    Failures        \* may statements of the database fail?

ASSUME ServiceAssumption ==
    /\ Cleaner \notin Handlers /\ Calibrator \notin Handlers
    /\ Cleaner # Calibrator
    /\ Uploads \cap (Handlers \cup {Cleaner, Calibrator}) = {}
    /\ NoUpload \notin Uploads
    /\ MaxUsed \in Nat
    /\ Failures \in BOOLEAN

VARIABLES req       \* what each goroutine is doing, and the session of each upload

vars == <<rows, disk, used, req>>

Workers == Handlers \cup {Cleaner, Calibrator}
Procs == Workers \cup Uploads

-----------------------------------------------------------------------------
(* Requests between two of their steps *)

Idle == [pc |-> "idle"]

Session ==      \* session.json of a chunked upload: it outlives the process
    [pc : {"session"}, user : Users, dest : Parents, name : Names]
From == Uploads \cup {NoUpload}     \* the upload that is completed, if it is chunked
Uploading ==    \* the body is in a temporary file and its hash is known
    [pc : {"hashed"}, user : Users, dest : Parents, name : Names, hash : Contents, from : From]
LookedUp ==     \* FileByHash answered: the key of a duplicate, or none
    [pc : {"lookedUp"}, user : Users, dest : Parents, name : Names,
     hash : Contents, key : Keys \cup {NoBlob}, from : From]
Stored ==       \* the name is resolved and the blob is in place
    [pc : {"stored"}, user : Users, dest : Parents, name : Names, hash : Contents,
     key : Keys, fresh : BOOLEAN, old : SUBSET Ids, freed : Nat, from : From]
Uploaded ==     \* CompleteUpload has committed
    [pc : {"uploaded"}, from : Uploads]
Mkdir ==
    [pc : {"mkdir"}, user : Users, dest : Parents, name : Names]
Rename ==
    [pc : {"rename"}, id : Ids, name : Names]
Moving ==       \* checked before the transaction, then inside it
    [pc : {"moveTx", "batchMoveTx", "move"},
     user : Users, ids : SUBSET Ids, dest : Parents]
Copying ==
    [pc : {"copyTx", "copy"}, user : Users, dest : Parents, name : Names,
     hash : Contents, key : Keys]
Deleting ==
    [pc : {"delete", "purge"}, user : Users, ids : SUBSET Ids, freed : Nat]
Restoring ==
    [pc : {"restore"}, user : Users, ids : SUBSET Ids, lifted : SUBSET Ids, gained : Nat]
Cleaning ==     \* AutoCleanRecycle collected its items, then counted their keys
    [pc : {"count", "clean"}, ids : SUBSET Ids, keys : SUBSET Keys, owed : [Users -> Nat]]
Sweeping ==     \* rows are gone; blobs to delete, then bytes to charge back
    [pc : {"sweep"}, keys : SUBSET Keys, owed : [Users -> Nat]]
Summed ==       \* CalibrateStorage after SumActiveStorage
    [pc : {"summed"}, user : Users, actual : Nat]
Calibrating ==  \* and after UserByID
    [pc : {"calibrate"}, user : Users, delta : Int]

Request ==
    {Idle} \cup Session \cup Uploading \cup LookedUp \cup Stored \cup Uploaded \cup Mkdir \cup Rename
    \cup Moving \cup Copying \cup Deleting \cup Restoring \cup Cleaning
    \cup Sweeping \cup Summed \cup Calibrating

TypeOK == TableTypeOK /\ req \in [Procs -> Request]

Init == TableInit /\ req = [w \in Procs |-> Idle]

CanStart(w) ==
    /\ req[w] = Idle
    /\ Cardinality({v \in Workers : req[v] # Idle}) < MaxActive

\* Bounds storage_used: no more bytes are added once it exceeds MaxUsed.
CanGrow(w, u) == CanStart(w) /\ used[u] <= MaxUsed

Goto(w, r) == req' = [req EXCEPT ![w] = r]

Finish(w) == Goto(w, Idle)

-----------------------------------------------------------------------------
(* Checks shared by the operations *)

\* Mutant: the owner of the directory is not compared.
ValidAnyDir(p, u) == p # Root => Exists(p) /\ IsDir(p) /\ Live(p)

\* validateParentDir; NULL is not validated.
ValidDir(p, u) == p # Root => Owned(p, u) /\ IsDir(p) /\ Live(p)

\* The foreign key lets a row hang below p.  HardDeleteFiles outside a
\* transaction of its caller switches the key off, and if its DELETE fails the
\* pooled connection is left so: any later statement may be given it.
Referable(p) == ValidParent(p) \/ Failures

\* Candidates "base (i).ext": some other name that is free, if there is one.
FreeNames(p, u) == {n \in Names : ~FileNameExists(p, u, n)}

\* resolveNameConflict: the name to use and the row it replaces.
Resolved(p, u, n) ==
    IF ~FileNameExists(p, u, n) THEN {[name |-> n, old |-> {}]}
    ELSE IF ConflictMode = "overwrite"
    THEN {[name |-> n, old |-> {i}] : i \in FilesByName(p, u, n)}
    ELSE {[name |-> m, old |-> {}] : m \in FreeNames(p, u)}

\* isDescendantOf(ancestorID, descendantID)
IsDescendantOf(ancestor, descendant) ==
    ancestor = descendant \/ descendant \in DescendantIDs(ancestor, FALSE)

\* The guard of MoveFile and BatchMove, with the arguments in their order:
\* the target is passed as the ancestor.  An error of the walk refuses too.
CycleCheck(i, p) ==
    (IsDir(i) /\ p # Root) => ~CycleAt(p) /\ ~IsDescendantOf(p, i)

-----------------------------------------------------------------------------
(* UploadFile *)

UploadFile(w, u, p, n, h) ==
    /\ CanGrow(w, u)
    /\ ValidDir(p, u)
    /\ Goto(w, [pc |-> "hashed", user |-> u, dest |-> p, name |-> n, hash |-> h,
                from |-> NoUpload])
    /\ UNCHANGED tableVars

\* The section under lockHash holds this one query.
LookupHash(w) ==
    /\ req[w].pc = "hashed"
    /\ LET r == req[w]
           found == {rows[i].key : i \in FilesByHash(r.hash)}
       IN  \E k \in IF found = {} THEN {NoBlob} ELSE found :
              Goto(w, [pc |-> "lookedUp", user |-> r.user, dest |-> r.dest,
                       name |-> r.name, hash |-> r.hash, key |-> k, from |-> r.from])
    /\ UNCHANGED tableVars

\* The name is resolved; a content seen for the first time gets a new key and
\* its temporary file is renamed to it.
StoreBlob(w) ==
    /\ req[w].pc = "lookedUp" /\ req[w].from = NoUpload
    /\ LET r == req[w]
           fresh == r.key = NoBlob
           Resume(t, k) == Goto(w,
                [pc |-> "stored", user |-> r.user, dest |-> r.dest, name |-> t.name,
                 hash |-> r.hash, key |-> k, fresh |-> fresh, old |-> t.old,
                 freed |-> Bytes(t.old), from |-> NoUpload])
       IN  \/ \E t \in Resolved(r.dest, r.user, r.name) :
                \/ ~fresh /\ Resume(t, r.key) /\ UNCHANGED disk
                \/ fresh /\ \E k \in Keys :
                      /\ disk[k] = NoBlob
                      /\ disk' = [disk EXCEPT ![k] = r.hash]
                      /\ Resume(t, k)
           \/ Resolved(r.dest, r.user, r.name) = {} /\ Finish(w) /\ UNCHANGED disk
    /\ UNCHANGED <<rows, used>>

\* The transaction: soft delete and credit of the replaced row, insert, charge.
\* A parent purged meanwhile fails the insert, and a fresh blob is removed.
CommitUpload(w) ==
    /\ req[w].pc = "stored"
    /\ LET r == req[w]
       IN  \/ /\ Referable(r.dest)
              /\ \E i \in Ids :
                   /\ rows[i].st = "unused"
                   /\ rows' = Inserted(r.old, i, NewRow(r.user, r.dest, r.name, r.hash, r.key))
              /\ used' = [used EXCEPT ![r.user] = Clamp(@ - r.freed) + Size[r.hash]]
              /\ UNCHANGED disk
              /\ IF r.from # NoUpload /\ r.fresh
                 THEN Goto(w, [pc |-> "uploaded", from |-> r.from])
                 ELSE Finish(w)
           \/ /\ ~ValidParent(r.dest)
              /\ disk' = IF r.fresh THEN [disk EXCEPT ![r.key] = Removed] ELSE disk
              /\ Finish(w)
              /\ UNCHANGED <<rows, used>>

\* A failed statement rolls back; every error path but the one after
\* UpdateUserStorageUsed removes the fresh blob.
FailUpload(w) ==
    /\ Failures
    /\ req[w].pc = "stored"
    /\ LET r == req[w]
       IN  disk' \in {disk, [disk EXCEPT ![r.key] = IF r.fresh THEN Removed ELSE @]}
    /\ Finish(w)
    /\ UNCHANGED <<rows, used>>

-----------------------------------------------------------------------------
(* Chunked uploads: the chunks themselves are module ChunkUpload *)

\* An id stands for another upload once nothing refers to it any more.
Unused(s) == req[s] = Idle /\ \A w \in Handlers : "from" \in DOMAIN req[w] => req[w].from # s

InitUpload(s, u, p, n) ==
    /\ Unused(s)
    /\ ValidDir(p, u)
    /\ Goto(s, [pc |-> "session", user |-> u, dest |-> p, name |-> n])
    /\ UNCHANGED tableVars

\* The chunks are merged; the parent is not validated again.
CompleteUpload(w, s, h) ==
    /\ req[s].pc = "session"
    /\ CanGrow(w, req[s].user)
    /\ Goto(w, [pc |-> "hashed", user |-> req[s].user, dest |-> req[s].dest,
                name |-> req[s].name, hash |-> h, from |-> s])
    /\ UNCHANGED tableVars

\* The session of s goes while w goes on to r.
GotoWithout(w, r, s) ==
    req' = [v \in Procs |-> IF v = w THEN r ELSE IF v = s THEN Idle ELSE req[v]]

Stores(r, n, k) ==
    [pc |-> "stored", user |-> r.user, dest |-> r.dest, name |-> n, hash |-> r.hash, key |-> k,
     fresh |-> r.key = NoBlob, old |-> {}, freed |-> 0, from |-> r.from]

\* The session is deleted first; of the name conflict, the row to replace is ignored.
LinkDuplicate(w) ==
    /\ req[w].pc = "lookedUp" /\ req[w].from # NoUpload /\ req[w].key # NoBlob
    /\ LET r == req[w]
           found == Resolved(r.dest, r.user, r.name)
       IN  \/ \E t \in found : GotoWithout(w, Stores(r, t.name, r.key), r.from)
           \/ found = {} /\ GotoWithout(w, Idle, r.from)
    /\ UNCHANGED tableVars

\* A new content keeps the name of its session, whatever bears it by now.
StoreMerged(w) ==
    /\ req[w].pc = "lookedUp" /\ req[w].from # NoUpload /\ req[w].key = NoBlob
    /\ \E k \in Keys :
        /\ disk[k] = NoBlob
        /\ disk' = [disk EXCEPT ![k] = req[w].hash]
        /\ Goto(w, Stores(req[w], req[w].name, k))
    /\ UNCHANGED <<rows, used>>

CleanupUploadSession(w) ==
    /\ req[w].pc = "uploaded"
    /\ GotoWithout(w, Idle, req[w].from)
    /\ UNCHANGED tableVars

\* CancelUpload, CleanStaleChunks
DropSession(s) ==
    /\ req[s].pc = "session"
    /\ Finish(s)
    /\ UNCHANGED tableVars

-----------------------------------------------------------------------------
(* CreateDir and RenameFile *)

CreateDir(w, u, p, n) ==
    /\ CanStart(w)
    /\ ValidDir(p, u)
    /\ ~FileNameExists(p, u, n)
    /\ Goto(w, [pc |-> "mkdir", user |-> u, dest |-> p, name |-> n])
    /\ UNCHANGED tableVars

InsertDir(w) ==
    /\ req[w].pc = "mkdir"
    /\ LET r == req[w]
       IN  \/ /\ Referable(r.dest)
              /\ \E i \in Ids :
                   /\ rows[i].st = "unused"
                   /\ rows' = Inserted({}, i, NewRow(r.user, r.dest, r.name, NoBlob, NoBlob))
           \/ ~ValidParent(r.dest) /\ UNCHANGED rows
    /\ Finish(w)
    /\ UNCHANGED <<disk, used>>

\* Mutant: no FileNameExists.
RenameUnchecked(w, u, i, n) ==
    /\ CanStart(w)
    /\ Owned(i, u)
    /\ rows[i].name # n
    /\ Goto(w, [pc |-> "rename", id |-> i, name |-> n])
    /\ UNCHANGED tableVars

\* The owner is checked, is_deleted is not.
RenameFile(w, u, i, n) ==
    /\ CanStart(w)
    /\ Owned(i, u)
    /\ rows[i].name # n
    /\ ~FileNameExists(rows[i].parent, u, n)
    /\ Goto(w, [pc |-> "rename", id |-> i, name |-> n])
    /\ UNCHANGED tableVars

CommitRename(w) ==
    /\ req[w].pc = "rename"
    /\ rows' = Renamed(req[w].id, req[w].name)
    /\ Finish(w)
    /\ UNCHANGED <<disk, used>>

-----------------------------------------------------------------------------
(* MoveFile, BatchMove and CopyFile *)

MoveFile(w, u, i, p) ==
    /\ CanStart(w)
    /\ p # i
    /\ ValidDir(p, u)
    /\ Owned(i, u) /\ Live(i)
    /\ CycleCheck(i, p)
    /\ Goto(w, [pc |-> "moveTx", user |-> u, ids |-> {i}, dest |-> p])
    /\ UNCHANGED tableVars

\* Inside the transaction MoveFile looks the row and the name up again.
MoveInTx(w) ==
    /\ req[w].pc = "moveTx"
    /\ LET r == req[w]
           ok == \A i \in r.ids :
                    /\ Owned(i, r.user) /\ Live(i)
                    /\ ~FileNameExists(r.dest, r.user, rows[i].name)
       IN  \/ ok /\ Goto(w, [r EXCEPT !.pc = "move"])
           \/ ~ok /\ Finish(w)
    /\ UNCHANGED tableVars

BatchMove(w, u, S, p) ==
    /\ CanStart(w)
    /\ S # {}
    /\ ValidDir(p, u)
    /\ Goto(w, [pc |-> "batchMoveTx", user |-> u, ids |-> S, dest |-> p])
    /\ UNCHANGED tableVars

\* Every check of the batch precedes the first UPDATE: two members of the
\* batch with one name do not see each other.
BatchMoveInTx(w) ==
    /\ req[w].pc = "batchMoveTx"
    /\ LET r == req[w]
           ok == \A i \in r.ids :
                    /\ Owned(i, r.user) /\ Live(i)
                    /\ r.dest # i
                    /\ CycleCheck(i, r.dest)
                    /\ ~FileNameExists(r.dest, r.user, rows[i].name)
       IN  \/ ok /\ Goto(w, [r EXCEPT !.pc = "move"])
           \/ ~ok /\ Finish(w)
    /\ UNCHANGED tableVars

CommitMove(w) ==
    /\ req[w].pc = "move"
    /\ \/ Referable(req[w].dest) /\ rows' = Moved(req[w].ids, req[w].dest)
       \/ ~ValidParent(req[w].dest) /\ UNCHANGED rows
    /\ Finish(w)
    /\ UNCHANGED <<disk, used>>

CopyFile(w, u, i, p) ==
    /\ CanGrow(w, u)
    /\ Owned(i, u) /\ Live(i) /\ ~IsDir(i)
    /\ ValidDir(p, u)
    /\ Goto(w, [pc |-> "copyTx", user |-> u, dest |-> p, name |-> rows[i].name,
                hash |-> rows[i].hash, key |-> rows[i].key])
    /\ UNCHANGED tableVars

\* Whatever on_name_conflict says, a copy takes a free name.
CopyInTx(w) ==
    /\ req[w].pc = "copyTx"
    /\ LET r == req[w]
           names == IF FileNameExists(r.dest, r.user, r.name)
                    THEN FreeNames(r.dest, r.user) ELSE {r.name}
       IN  \/ \E n \in names : Goto(w, [r EXCEPT !.pc = "copy", !.name = n])
           \/ names = {} /\ Finish(w)
    /\ UNCHANGED tableVars

CommitCopy(w) ==
    /\ req[w].pc = "copy"
    /\ LET r == req[w]
       IN  \/ /\ Referable(r.dest)
              /\ \E i \in Ids :
                   /\ rows[i].st = "unused"
                   /\ rows' = Inserted({}, i, NewRow(r.user, r.dest, r.name, r.hash, r.key))
              /\ used' = Charged(r.user, Size[r.hash])
           \/ ~ValidParent(r.dest) /\ UNCHANGED <<rows, used>>
    /\ Finish(w)
    /\ UNCHANGED disk

-----------------------------------------------------------------------------
(* DeleteFile, BatchDelete, RestoreFile *)

\* A row already in the recycle bin passes.  The rows below are those live now.
DeleteFile(w, u, i) ==
    /\ CanStart(w)
    /\ Owned(i, u)
    /\ IsDir(i) => ~CycleAt(i)
    /\ LET S == {i} \cup IF IsDir(i) THEN DescendantIDs(i, FALSE) ELSE {}
       IN  Goto(w, [pc |-> "delete", user |-> u, ids |-> S, freed |-> Bytes(S)])
    /\ UNCHANGED tableVars

\* A row selected together with a directory above it is counted twice.
BatchDelete(w, u, S) ==
    /\ CanStart(w)
    /\ S # {}
    /\ \A i \in S : Owned(i, u) /\ Live(i) /\ (IsDir(i) => ~CycleAt(i))
    /\ LET tree(i) == {i} \cup IF IsDir(i) THEN DescendantIDs(i, FALSE) ELSE {}
           counted == {p \in S \X (Ids \X (1..MaxSize)) :
                          p[2][1] \in tree(p[1]) /\ p[2][2] <= SizeOf(p[2][1])}
       IN  Goto(w, [pc |-> "delete", user |-> u, ids |-> {j \in Ids : \E i \in S : j \in tree(i)},
                    freed |-> Cardinality(counted)])
    /\ UNCHANGED tableVars

\* Mutant: no UpdateUserStorageUsed.
DeleteUncharged(w) ==
    /\ req[w].pc = "delete"
    /\ rows' = SoftDeleted(req[w].ids)
    /\ Finish(w)
    /\ UNCHANGED <<disk, used>>

CommitDelete(w) ==
    /\ req[w].pc = "delete"
    /\ rows' = SoftDeleted(req[w].ids)
    /\ used' = Charged(req[w].user, -req[w].freed)
    /\ Finish(w)
    /\ UNCHANGED disk

\* A directory whose parent is gone, deleted or not the user's goes to the
\* root; a file then stays in the recycle bin.
RestoreFile(w, u, i) ==
    /\ CanGrow(w, u)
    /\ Owned(i, u) /\ Deleted(i)
    /\ LET p == rows[i].parent
           reachable == p # Root => Owned(p, u) /\ Live(p)
           S == {i} \cup IF IsDir(i) THEN DescendantIDs(i, TRUE) ELSE {}
       IN  /\ ~IsDir(i) => reachable
           /\ IsDir(i) => ~CycleAt(i)
           /\ Goto(w, [pc |-> "restore", user |-> u, ids |-> S,
                       lifted |-> IF reachable THEN {} ELSE {i}, gained |-> Bytes(S)])
    /\ UNCHANGED tableVars

CommitRestore(w) ==
    /\ req[w].pc = "restore"
    /\ rows' = Restored(req[w].ids, req[w].lifted)
    /\ used' = Charged(req[w].user, req[w].gained)
    /\ Finish(w)
    /\ UNCHANGED disk

-----------------------------------------------------------------------------
(* PermanentDeleteFile and AutoCleanRecycle *)

KeysOf(S) == {rows[i].key : i \in {j \in S : Exists(j) /\ ~IsDir(j)}}

\* After the rows: the blobs, then storage_used, outside any transaction.
Sweep(keys, owed) ==
    IF keys = {} /\ \A u \in Users : owed[u] = 0
    THEN Idle
    ELSE [pc |-> "sweep", keys |-> keys, owed |-> owed]

\* Mutant: a row outside the recycle bin passes.
PurgeAny(w, u, i) ==
    /\ CanStart(w)
    /\ Owned(i, u)
    /\ IsDir(i) => ~CycleAt(i)
    /\ LET S == {i} \cup IF IsDir(i) THEN DescendantIDs(i, TRUE) ELSE {}
       IN  Goto(w, [pc |-> "purge", user |-> u, ids |-> S, freed |-> Bytes(S)])
    /\ UNCHANGED tableVars

PermanentDeleteFile(w, u, i) ==
    /\ CanStart(w)
    /\ Owned(i, u) /\ Deleted(i)
    /\ IsDir(i) => ~CycleAt(i)
    /\ LET S == {i} \cup IF IsDir(i) THEN DescendantIDs(i, TRUE) ELSE {}
       IN  Goto(w, [pc |-> "purge", user |-> u, ids |-> S, freed |-> Bytes(S)])
    /\ UNCHANGED tableVars

\* The keys no other row counts on; a count that fails keeps its blob.
Unshared(keys) ==
    LET sole == {k \in keys : CountByStorageKey(k) <= 1}
    IN  IF Failures THEN SUBSET sole ELSE {sole}

\* Keys are counted FOR UPDATE in the transaction of the DELETE.
CommitPurge(w) ==
    /\ req[w].pc = "purge"
    /\ LET r == req[w]
       IN  /\ rows' = HardDeleted(r.ids)
           /\ \E keys \in Unshared(KeysOf(r.ids)) :
                Goto(w, Sweep(keys, [u \in Users |-> IF u = r.user THEN r.freed ELSE 0]))
    /\ UNCHANGED <<disk, used>>

\* The candidates are the rows whose deleted_at lies before the cutoff: any
\* set of deleted rows.  A directory on a cycle contributes itself alone.
AutoCleanRecycle(expired) ==
    /\ CanStart(Cleaner)
    /\ expired # {}
    /\ \A i \in expired : Deleted(i)
    /\ LET tree(i) == IF IsDir(i) /\ ~CycleAt(i) THEN DescendantIDs(i, TRUE) ELSE {}
           S == {j \in Ids : j \in expired \/ \E i \in expired : j \in tree(i)}
       IN  Goto(Cleaner, [pc |-> "count", ids |-> S, keys |-> KeysOf(S),
                  owed |-> [u \in Users |-> Bytes({j \in S : rows[j].owner = u})]])
    /\ UNCHANGED tableVars

\* Here the keys are counted with no lock, before the transaction.
CountKeys ==
    LET r == req[Cleaner]
    IN  /\ r.pc = "count"
        /\ \E keys \in Unshared(r.keys) :
              Goto(Cleaner, [r EXCEPT !.pc = "clean", !.keys = keys])
        /\ UNCHANGED tableVars

\* If the batch fails, rows are deleted one at a time while they are in the
\* recycle bin; some of these statements fail too, for instance on a row left
\* below.  Blobs and sizes follow all the same.
CleanRows ==
    LET r == req[Cleaner]
    IN  /\ r.pc = "clean"
        /\ \/ rows' = HardDeleted(r.ids)
           \/ /\ Failures
              /\ \E S \in SUBSET {i \in r.ids : Deleted(i)} : rows' = HardDeleted(S)
        /\ Goto(Cleaner, Sweep(r.keys, r.owed))
        /\ UNCHANGED <<disk, used>>

\* The error of fileStore.Delete is not looked at.
DeleteBlob(w) ==
    /\ req[w].pc = "sweep"
    /\ \E k \in req[w].keys :
        /\ \/ disk' = [disk EXCEPT ![k] = Removed]
           \/ Failures /\ UNCHANGED disk
        /\ Goto(w, Sweep(req[w].keys \ {k}, req[w].owed))
    /\ UNCHANGED <<rows, used>>

ChargeBack(w) ==
    /\ req[w].pc = "sweep" /\ req[w].keys = {}
    /\ \E u \in Users :
        /\ req[w].owed[u] > 0
        /\ \/ used' = Charged(u, -req[w].owed[u])
           \/ Failures /\ UNCHANGED used
        /\ Goto(w, Sweep({}, [req[w].owed EXCEPT ![u] = 0]))
    /\ UNCHANGED <<rows, disk>>

-----------------------------------------------------------------------------
(* CalibrateStorage: the sum, the user's row and the correction are three  *)
(* statements with no transaction around them.                             *)

\* Mutant: the sum has no condition on is_deleted.
CalibrateBin(u) ==
    /\ CanStart(Calibrator)
    /\ Goto(Calibrator, [pc |-> "summed", user |-> u,
                         actual |-> Bytes({i \in Ids : Owned(i, u)})])
    /\ UNCHANGED tableVars

Calibrate(u) ==
    /\ CanStart(Calibrator)
    /\ Goto(Calibrator, [pc |-> "summed", user |-> u, actual |-> SumActiveStorage(u)])
    /\ UNCHANGED tableVars

ReadUsed(u) ==
    LET r == req[Calibrator]
    IN  /\ r.pc = "summed" /\ r.user = u
        /\ Goto(Calibrator, [pc |-> "calibrate", user |-> u, delta |-> r.actual - used[u]])
        /\ UNCHANGED tableVars

CorrectUsed(u) ==
    LET r == req[Calibrator]
    IN  /\ r.pc = "calibrate" /\ r.user = u
        /\ used' = Charged(u, r.delta)
        /\ Finish(Calibrator)
        /\ UNCHANGED <<rows, disk>>

-----------------------------------------------------------------------------
(* Failures *)

\* A statement fails before COMMIT: the transaction rolls back and the request
\* ends.  The steps that go on after an error have it as an alternative.
Fail(w) ==
    /\ Failures
    /\ req[w].pc \notin {"idle", "session", "stored", "uploaded", "count", "clean", "sweep"}
    /\ Finish(w)
    /\ UNCHANGED tableVars

\* The process dies and is started again: tables, blobs and sessions stay, temporary
\* files go (CleanupTempFiles), and nothing resumes a request.
Crash ==
    /\ \E w \in Workers : req[w] # Idle
    /\ req' = [w \in Procs |-> IF w \in Uploads THEN req[w] ELSE Idle]
    /\ UNCHANGED tableVars

-----------------------------------------------------------------------------
UploadStep(w) ==
    \/ LookupHash(w) \/ StoreBlob(w) \/ CommitUpload(w) \/ FailUpload(w)
    \/ LinkDuplicate(w) \/ StoreMerged(w) \/ CleanupUploadSession(w)

TreeStep(w) ==
    \/ InsertDir(w) \/ CommitRename(w)
    \/ MoveInTx(w) \/ BatchMoveInTx(w) \/ CommitMove(w)
    \/ CopyInTx(w) \/ CommitCopy(w)

BinStep(w) ==
    \/ CommitDelete(w) \/ CommitRestore(w) \/ CommitPurge(w)

Start(w, u) ==
    \/ \E p \in Parents, n \in Names :
          \/ \E h \in Contents : UploadFile(w, u, p, n, h)
          \/ CreateDir(w, u, p, n)
    \/ \E i \in Ids :
          \/ \E n \in Names : RenameFile(w, u, i, n)
          \/ \E p \in Parents : MoveFile(w, u, i, p) \/ CopyFile(w, u, i, p)
          \/ DeleteFile(w, u, i)
          \/ RestoreFile(w, u, i)
          \/ PermanentDeleteFile(w, u, i)
    \/ \E S \in SUBSET Ids :
          \/ \E p \in Parents : BatchMove(w, u, S, p)
          \/ BatchDelete(w, u, S)

Chunked ==
    \E s \in Uploads :
        \/ \E u \in Users, p \in Parents, n \in Names : InitUpload(s, u, p, n)
        \/ \E w \in Handlers, h \in Contents : CompleteUpload(w, s, h)
        \/ DropSession(s)

Jobs ==
    \/ \E S \in SUBSET Ids : AutoCleanRecycle(S)
    \/ CountKeys \/ CleanRows
    \/ \E u \in Users : Calibrate(u) \/ ReadUsed(u) \/ CorrectUsed(u)

Next ==
    \/ \E w \in Handlers :
          \/ \E u \in Users : Start(w, u)
          \/ UploadStep(w) \/ TreeStep(w) \/ BinStep(w)
    \/ Chunked
    \/ Jobs
    \/ \E w \in Procs : DeleteBlob(w) \/ ChargeBack(w) \/ Fail(w)
    \/ Crash

Spec == Init /\ [][Next]_vars

\* The daily timer calibrates every user in turn, day after day (app.go): no
\* user is passed over for ever, nor is the process killed in the middle of
\* the same user's calibration every single day.
FairSpec ==
    /\ Spec
    /\ \A u \in Users : SF_vars(Calibrate(u)) /\ SF_vars(ReadUsed(u)) /\ SF_vars(CorrectUsed(u))

-----------------------------------------------------------------------------
(* Whatever runs concurrently *)

\* A row hangs below a directory of the same owner, as long as that directory
\* is there: no operation, however stale the parent it validated, puts a row
\* of one user into the tree of another or below a file.
TenantIsolation ==
    \A i \in Ids : (Exists(i) /\ rows[i].parent # Root) =>
        LET p == rows[i].parent
        IN  Exists(p) => IsDir(p) /\ rows[p].owner = rows[i].owner

\* Deduplication never gives a row another content: the blob a row's key names
\* is the content the row was created with, or was deleted.
DedupSound ==
    \A i \in Ids : (Exists(i) /\ ~IsDir(i)) => disk[rows[i].key] \in {rows[i].hash, Removed}

\* Why both hold.  p is fit to be the parent of a row of u: it was inserted
\* once, and while it is there it is a directory of u.
OwnDir(p, u) ==
    p # Root => rows[p].st # "unused" /\ (Exists(p) => IsDir(p) /\ rows[p].owner = u)

KeyHolds(k, h) == disk[k] \in {h, Removed}

\* What a request captured stays good until the rows or blobs are gone.
Captured(r) ==
    /\ r.pc \in {"session", "hashed", "lookedUp", "stored", "mkdir", "moveTx", "batchMoveTx",
                  "move", "copyTx", "copy"} => OwnDir(r.dest, r.user)
    /\ r.pc = "move" =>
          \A i \in r.ids : rows[i].st # "unused" /\ (Exists(i) => rows[i].owner = r.user)
    /\ r.pc = "lookedUp" => r.key = NoBlob \/ KeyHolds(r.key, r.hash)
    /\ r.pc \in {"stored", "copyTx", "copy"} => KeyHolds(r.key, r.hash)

\* The inductive invariant behind TenantIsolation and DedupSound: what they
\* say of the rows, a parent that was never inserted ruled out, together with
\* what every pending request still relies on.
IInv ==
    /\ TypeOK
    /\ \A i \in Ids : Exists(i) =>
          /\ OwnDir(rows[i].parent, rows[i].owner)
          /\ ~IsDir(i) => KeyHolds(rows[i].key, rows[i].hash)
    /\ \A w \in Procs : Captured(req[w])

-----------------------------------------------------------------------------
(* One request at a time *)

\* Every row, in the recycle bin or not, still has its blob.
RowsHaveBlobs ==
    \A i \in Ids : (Exists(i) /\ ~IsDir(i)) => disk[rows[i].key] = rows[i].hash

\* Live rows below a deleted directory, and rows below a purged one.
Orphans ==
    {i \in Ids : /\ Exists(i) /\ rows[i].parent # Root
                 /\ ~Exists(rows[i].parent) \/ (Live(i) /\ ~Live(rows[i].parent))}

CommitsChunked(w) == req[w].pc = "stored" /\ req[w].from # NoUpload

\* A row is left behind by the deletion or the purge of its directory in one way
\* only: the directory was deleted after InitUpload, and CompleteUpload puts its
\* file into it without looking.  Nothing else ever makes an orphan: no delete,
\* purge, restore or move of a tree of whatever shape.
OrphansOnlyBy ==
    [][~(Orphans' \subseteq Orphans) => \E w \in Handlers : CommitsChunked(w) /\ req'[w] # req[w]]_vars

\* storage_used drifts to one side only: a user is never charged for more
\* than the live files, even after a crash between a purge and its charge.
NeverOvercharged == \A u \in Users : used[u] <= SumActiveStorage(u)

Clash(i, j) ==
    /\ i # j /\ Live(i) /\ Live(j)
    /\ rows[i].owner = rows[j].owner
    /\ rows[i].parent = rows[j].parent /\ rows[i].name = rows[j].name

Clashes == {p \in Ids \X Ids : Clash(p[1], p[2])}

\* Two live siblings come to share a name in three ways only: a restore, which
\* checks no name; a batch move of several rows, whose members do not see each
\* other; a chunked upload of a new content, which takes the name of its session.
\* Other uploads, copies, renames and single moves never cause it.
NamesClashOnlyBy ==
    [][~(Clashes' \subseteq Clashes) =>
        \E w \in Handlers : /\ req'[w] # req[w]
                            /\ \/ req[w].pc = "restore"
                               \/ req[w].pc = "move" /\ Cardinality(req[w].ids) > 1
                               \/ CommitsChunked(w) /\ req[w].fresh]_vars

\* A row leaves the table from the recycle bin only.
PurgedFromBin == [][\A i \in Ids : Live(i) => rows'[i].st # "purged"]_vars

\* Why these hold: whatever a request captured is still so, since no other
\* request ran in between.
OneAtATime ==
    /\ \A v, w \in Workers : req[v] # Idle /\ req[w] # Idle => v = w
    /\ \A s \in Uploads : req[s].pc \in {"idle", "session"}

\* What is about to be purged lies in the recycle bin.
BinOnly(r) == r.pc \in {"purge", "count", "clean"} => \A i \in r.ids : Deleted(i)

\* A blob that a row will name is there; one that will go has no row but
\* those that go with it.
BlobsInHand(r) ==
    /\ r.pc = "lookedUp" => r.key = NoBlob \/ disk[r.key] = r.hash
    /\ r.pc \in {"stored", "copyTx", "copy"} => disk[r.key] = r.hash
    /\ r.pc = "stored" /\ r.fresh => \A i \in Ids : Exists(i) => rows[i].key # r.key
    /\ r.pc = "count" => r.keys \subseteq KeysOf(r.ids)
    /\ r.pc = "clean" => \A i \in Ids : Exists(i) /\ rows[i].key \in r.keys => i \in r.ids
    /\ r.pc = "sweep" => \A i \in Ids : Exists(i) => rows[i].key \notin r.keys

\* A name that was resolved or checked is free.
NameFree(r) ==
    /\ r.pc = "stored" =>
          /\ r.old = {}
          /\ r.from = NoUpload \/ ~r.fresh => ~FileNameExists(r.dest, r.user, r.name)
    /\ r.pc \in {"mkdir", "copy"} => ~FileNameExists(r.dest, r.user, r.name)
    /\ r.pc = "rename" =>
          /\ Exists(r.id)
          /\ ~FileNameExists(rows[r.id].parent, rows[r.id].owner, r.name)
    /\ r.pc = "move" => \A i \in r.ids :
          Owned(i, r.user) /\ ~FileNameExists(r.dest, r.user, rows[i].name)

DirLive(p) == p # Root => Live(p)

\* Rows go below live directories; a tree that is deleted, restored or purged
\* leaves no row behind.
TreeWhole(r) ==
    /\ r.pc \in {"hashed", "lookedUp", "stored"} /\ r.from = NoUpload => DirLive(r.dest)
    /\ r.pc \in {"mkdir", "moveTx", "batchMoveTx", "move", "copyTx", "copy"} => DirLive(r.dest)
    /\ r.pc = "delete" =>
          /\ \A i \in r.ids : Exists(i) /\ ~CycleAt(i)
          /\ \A j \in Children(r.ids) : Live(j) => j \in r.ids
    /\ r.pc = "restore" => \A i \in r.ids :
          /\ Exists(i)
          /\ i \in r.lifted \/ DirLive(rows[i].parent) \/ rows[i].parent \in r.ids
    /\ r.pc \in {"purge", "count", "clean"} =>
          \A j \in Children(r.ids) : Deleted(j) => j \in r.ids

\* The live directories form trees below the root, and only they can lie on a
\* cycle: no deletion is ever stopped by one half way.
LiveDirsHang == \A i \in Ids : Live(i) /\ IsDir(i) => DirLive(rows[i].parent)
DeletedAcyclic == \A i \in Ids : Deleted(i) => ~CycleAt(i)

\* Bytes that were summed up are those of the rows.
SumsRight(r) ==
    /\ r.pc = "stored" =>
          /\ \A i \in r.old : Live(i) /\ rows[i].owner = r.user
          /\ r.freed = Bytes(r.old)
    /\ r.pc = "delete" =>
          /\ \A i \in r.ids : Owned(i, r.user)
          /\ Bytes(r.ids) <= r.freed
    /\ r.pc = "restore" =>
          /\ \A i \in r.ids : Deleted(i) /\ Owned(i, r.user)
          /\ r.gained = Bytes(r.ids)
    /\ r.pc = "summed" => r.actual = SumActiveStorage(r.user)
    /\ r.pc = "calibrate" => r.delta = SumActiveStorage(r.user) - used[r.user]

\* The inductive invariant of serial execution.
SerialIInv ==
    /\ OneAtATime /\ RowsHaveBlobs /\ LiveDirsHang /\ DeletedAcyclic /\ NeverOvercharged
    /\ \A w \in Workers :
          LET r == req[w]
          IN  BinOnly(r) /\ BlobsInHand(r) /\ NameFree(r) /\ TreeWhole(r) /\ SumsRight(r)
-----------------------------------------------------------------------------
(* Calibration *)

Exact == \A u \in Users : used[u] = SumActiveStorage(u)

\* Once users and the cleaner have stopped, storage_used becomes what the
\* live files add up to and stays so, whatever happened before, a correction
\* computed from a stale sum included.
CalibrationHeals ==
    (<>[](\A w \in Workers \ {Calibrator} : req[w] = Idle)) => <>[]Exact

-----------------------------------------------------------------------------
(* What the code or its documents say, and the code does not do *)

\* file.go:753 refuses to move a directory below itself: no directory is its
\* own descendant.
NoCycle == \A i \in Ids : Exists(i) => ~CycleAt(i)

\* README.md:48: usage is accounted per user, so with nothing in flight and
\* no crash it is the sum CalibrateStorage compares it with.
UsageExact == (\A w \in Workers : req[w] = Idle) => Exact
=============================================================================
