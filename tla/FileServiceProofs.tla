------------------------- MODULE FileServiceProofs -------------------------
(***************************************************************************)
(* What holds of the file service for every number of users, rows, keys,   *)
(* handlers and concurrent requests.                                       *)
(***************************************************************************)
EXTENDS FileService, FiniteSetTheorems, TLAPS

-----------------------------------------------------------------------------
(* The operators of FileTable *)

\* A sum of sizes is a natural number.
LEMMA BytesType ==
    ASSUME NEW S \in SUBSET Ids
    PROVE  Bytes(S) \in Nat
<1>1. IsFiniteSet(S)
    BY TableAssumption, FS_Subset
<1>2. IsFiniteSet(1..MaxSize)
    BY TableAssumption, FS_Interval DEF TableAssumption
<1>3. IsFiniteSet(S \X (1..MaxSize))
    BY <1>1, <1>2, FS_Product
<1>4. IsFiniteSet({p \in S \X (1..MaxSize) : p[2] <= SizeOf(p[1])})
    BY <1>3, FS_Subset
<1> QED
    BY <1>4, FS_CardinalityType DEF Bytes

LEMMA CountedType ==
    ASSUME NEW S \in SUBSET Ids, NEW T \in SUBSET (S \X (Ids \X (1..MaxSize)))
    PROVE  Cardinality(T) \in Nat
<1>1. IsFiniteSet(S)
    BY TableAssumption, FS_Subset
<1>2. IsFiniteSet(1..MaxSize)
    BY TableAssumption, FS_Interval DEF TableAssumption
<1>3. IsFiniteSet(Ids \X (1..MaxSize))
    BY <1>2, TableAssumption, FS_Product DEF TableAssumption
<1>4. IsFiniteSet(S \X (Ids \X (1..MaxSize)))
    BY <1>1, <1>3, FS_Product
<1>5. IsFiniteSet(T)
    BY <1>4, FS_Subset
<1> QED
    BY <1>5, FS_CardinalityType

LEMMA ClampType == \A n \in Int : Clamp(n) \in Nat
BY DEF Clamp

\* A row that exists has its columns.
LEMMA RowType ==
    ASSUME TableTypeOK, NEW i \in Ids, Exists(i)
    PROVE  /\ rows[i] \in Row
           /\ rows[i].owner \in Users /\ rows[i].parent \in Parents /\ rows[i].name \in Names
           /\ IsDir(i) => rows[i].hash = NoBlob
           /\ ~IsDir(i) => rows[i].hash \in Contents /\ rows[i].key \in Keys
BY TableAssumption DEF TableTypeOK, TableAssumption, Exists, NoRow, Row, RowOf, IsDir

\* The statements on the table keep its type.
LEMMA MarkedType ==
    ASSUME TableTypeOK, NEW S, NEW st \in {"live", "deleted"}
    PROVE  Marked(S, st) \in [Ids -> NoRow \cup Row]
<1> SUFFICES ASSUME NEW i \in Ids, i \in S, Exists(i)
             PROVE  [rows[i] EXCEPT !.st = st] \in Row
    BY DEF Marked, TableTypeOK
<1> QED
    BY RowType DEF Row, RowOf

LEMMA HardDeletedType ==
    ASSUME TableTypeOK, NEW S
    PROVE  HardDeleted(S) \in [Ids -> NoRow \cup Row]
BY DEF HardDeleted, TableTypeOK, NoRow

LEMMA RestoredType ==
    ASSUME TableTypeOK, NEW S, NEW lifted
    PROVE  Restored(S, lifted) \in [Ids -> NoRow \cup Row]
<1> SUFFICES ASSUME NEW i \in Ids, i \in S, Exists(i)
             PROVE  [rows[i] EXCEPT !.st = "live",
                                    !.parent = IF i \in lifted THEN Root ELSE @] \in Row
    BY DEF Restored, TableTypeOK
<1> QED
    BY RowType DEF Row, RowOf, Parents

LEMMA MovedType ==
    ASSUME TableTypeOK, NEW S, NEW p \in Parents
    PROVE  Moved(S, p) \in [Ids -> NoRow \cup Row]
<1> SUFFICES ASSUME NEW i \in Ids, i \in S, Exists(i)
             PROVE  [rows[i] EXCEPT !.parent = p] \in Row
    BY DEF Moved, TableTypeOK
<1> QED
    BY RowType DEF Row, RowOf

LEMMA RenamedType ==
    ASSUME TableTypeOK, NEW i \in Ids, NEW n \in Names
    PROVE  Renamed(i, n) \in [Ids -> NoRow \cup Row]
<1>1. Exists(i) => [rows[i] EXCEPT !.name = n] \in Row
    BY RowType DEF Row, RowOf
<1> QED
    BY <1>1 DEF Renamed, TableTypeOK

LEMMA InsertedType ==
    ASSUME TableTypeOK, NEW old, NEW i \in Ids, NEW row \in Row
    PROVE  Inserted(old, i, row) \in [Ids -> NoRow \cup Row]
BY MarkedType DEF Inserted, SoftDeleted

LEMMA ChargedType ==
    ASSUME TableTypeOK, NEW u \in Users, NEW d \in Int
    PROVE  Charged(u, d) \in [Users -> Nat]
BY ClampType DEF Charged, TableTypeOK

-----------------------------------------------------------------------------
(* Requests *)

\* The pc of a request tells what it carries.
LEMMA RequestType ==
    ASSUME NEW r \in Request
    PROVE  /\ r.pc = "session" => r \in Session
           /\ r.pc = "uploaded" => r \in Uploaded
           /\ r.pc = "hashed" => r \in Uploading
           /\ r.pc = "lookedUp" => r \in LookedUp
           /\ r.pc = "stored" => r \in Stored
           /\ r.pc = "mkdir" => r \in Mkdir
           /\ r.pc = "rename" => r \in Rename
           /\ r.pc \in {"moveTx", "batchMoveTx", "move"} => r \in Moving
           /\ r.pc \in {"copyTx", "copy"} => r \in Copying
           /\ r.pc \in {"delete", "purge"} => r \in Deleting
           /\ r.pc = "restore" => r \in Restoring
           /\ r.pc \in {"count", "clean"} => r \in Cleaning
           /\ r.pc = "sweep" => r \in Sweeping
           /\ r.pc = "summed" => r \in Summed
           /\ r.pc = "calibrate" => r \in Calibrating
BY DEF Request, Idle, Session, Uploaded, Uploading, LookedUp, Stored, Mkdir, Rename, Moving, Copying,
       Deleting, Restoring, Cleaning, Sweeping, Summed, Calibrating

LEMMA GotoType ==
    ASSUME TypeOK, NEW w \in Procs, NEW r \in Request, Goto(w, r)
    PROVE  req' \in [Procs -> Request]
BY DEF TypeOK, Goto

LEMMA IdleType == Idle \in Request
BY DEF Request

LEMMA GotoWithoutType ==
    ASSUME TypeOK, NEW w \in Procs, NEW r \in Request, NEW s, GotoWithout(w, r, s)
    PROVE  req' \in [Procs -> Request]
BY IdleType DEF TypeOK, GotoWithout

-----------------------------------------------------------------------------
(* Type correctness, one lemma per group of actions *)

LEMMA UploadType ==
    ASSUME TypeOK, NEW w \in Handlers
    PROVE  /\ \A u \in Users, p \in Parents, n \in Names, h \in Contents :
                  UploadFile(w, u, p, n, h) => TypeOK'
           /\ UploadStep(w) => TypeOK'
<1> w \in Procs
    BY DEF Procs, Workers
<1> DEFINE r == req[w]
<1> r \in Request /\ TableTypeOK
    BY DEF TypeOK
<1> HIDE DEF r
<1>1. ASSUME NEW u \in Users, NEW p \in Parents, NEW n \in Names, NEW h \in Contents,
             UploadFile(w, u, p, n, h)
      PROVE  TypeOK'
  <2>1. [pc |-> "hashed", user |-> u, dest |-> p, name |-> n, hash |-> h,
         from |-> NoUpload] \in Request
      BY DEF Request, Uploading, From
  <2> QED
      BY <1>1, <2>1, GotoType DEF UploadFile, TypeOK, TableTypeOK, tableVars
<1>2. ASSUME LookupHash(w) PROVE TypeOK'
  <2>1. r \in Uploading
      BY <1>2, RequestType DEF LookupHash, r
  <2>2. PICK k \in Keys \cup {NoBlob} :
            Goto(w, [pc |-> "lookedUp", user |-> r.user, dest |-> r.dest,
                     name |-> r.name, hash |-> r.hash, key |-> k, from |-> r.from])
    <3>1. \A i \in FilesByHash(r.hash) : rows[i].key \in Keys
        BY RowType DEF FilesByHash, Live, Exists
    <3> QED
        BY <1>2, <3>1 DEF LookupHash, r
  <2>3. [pc |-> "lookedUp", user |-> r.user, dest |-> r.dest,
         name |-> r.name, hash |-> r.hash, key |-> k, from |-> r.from] \in Request
      BY <2>1 DEF Uploading, Request, LookedUp
  <2> QED
      BY <1>2, <2>2, <2>3, GotoType DEF LookupHash, TypeOK, TableTypeOK, tableVars
<1>3. ASSUME StoreBlob(w) PROVE TypeOK'
  <2>1. r \in LookedUp
      BY <1>3, RequestType DEF StoreBlob, r
  <2>2. rows' = rows /\ used' = used
      BY <1>3 DEF StoreBlob
  <2>3. CASE Finish(w) /\ UNCHANGED disk
      BY <2>2, <2>3, IdleType, GotoType DEF Finish, TypeOK, TableTypeOK
  <2>4. CASE ~(Finish(w) /\ UNCHANGED disk)
    <3> DEFINE next(t, k) == [pc |-> "stored", user |-> r.user, dest |-> r.dest,
                              name |-> t.name, hash |-> r.hash, key |-> k,
                              fresh |-> (r.key = NoBlob), old |-> t.old,
                              freed |-> Bytes(t.old), from |-> NoUpload]
    <3>1. PICK t \in Resolved(r.dest, r.user, r.name), k \in Keys :
            /\ Goto(w, next(t, k))
            /\ disk' = disk \/ disk' = [disk EXCEPT ![k] = r.hash]
        BY <1>3, <2>1, <2>4 DEF StoreBlob, r, LookedUp
    <3>2. t.name \in Names /\ t.old \in SUBSET Ids
        BY <2>1 DEF Resolved, FilesByName, FreeNames, LookedUp
    <3>3. next(t, k) \in Request
        BY <2>1, <3>2, BytesType DEF LookedUp, Stored, Request, From
    <3>4. disk' \in [Keys -> Contents \cup {NoBlob, Removed}]
        BY <2>1, <3>1 DEF LookedUp, TableTypeOK
    <3> QED
        BY <2>2, <3>1, <3>3, <3>4, GotoType DEF TypeOK, TableTypeOK
  <2> QED
      BY <2>3, <2>4
<1>4. ASSUME CommitUpload(w) PROVE TypeOK'
  <2>1. r \in Stored
      BY <1>4, RequestType DEF CommitUpload, r
  <2>2. req' \in [Procs -> Request]
    <3>1. r.from # NoUpload => [pc |-> "uploaded", from |-> r.from] \in Request
        BY <2>1 DEF Stored, From, Uploaded, Request
    <3> QED
        BY <1>4, <3>1, IdleType, GotoType DEF CommitUpload, Finish, r
  <2>3. ASSUME NEW i \in Ids,
               rows' = Inserted(r.old, i, NewRow(r.user, r.dest, r.name, r.hash, r.key))
        PROVE  rows' \in [Ids -> NoRow \cup Row]
    <3>1. NewRow(r.user, r.dest, r.name, r.hash, r.key) \in Row
        BY <2>1 DEF Stored, NewRow, Row, RowOf
    <3> QED
        BY <2>3, <3>1, InsertedType
  <2>4. CASE rows' = rows /\ used' = used
    <3>1. disk' \in [Keys -> Contents \cup {NoBlob, Removed}]
        BY <1>4, <2>1 DEF CommitUpload, r, Stored, TableTypeOK
    <3> QED
        BY <2>2, <2>4, <3>1 DEF TypeOK, TableTypeOK
  <2>5. CASE ~(rows' = rows /\ used' = used)
    <3>1. /\ \E i \in Ids : rows' = Inserted(r.old, i, NewRow(r.user, r.dest, r.name, r.hash, r.key))
          /\ used' = [used EXCEPT ![r.user] = Clamp(@ - r.freed) + Size[r.hash]]
          /\ disk' = disk
        BY <1>4, <2>5 DEF CommitUpload, r
    <3>2. Clamp(used[r.user] - r.freed) \in Nat /\ Size[r.hash] \in Nat
        BY <2>1, ClampType, TableAssumption DEF Stored, TableTypeOK, TableAssumption
    <3> DEFINE sum == Clamp(used[r.user] - r.freed) + Size[r.hash]
    <3>3. sum \in Nat
        BY <3>2
    <3>4. used' = [used EXCEPT ![r.user] = sum]
        BY <3>1
    <3> HIDE DEF sum
    <3>5. used' \in [Users -> Nat]
        BY <3>3, <3>4 DEF TableTypeOK
    <3> QED
        BY <2>2, <2>3, <3>1, <3>5 DEF TypeOK, TableTypeOK
  <2> QED
      BY <2>4, <2>5
<1>5. ASSUME FailUpload(w) PROVE TypeOK'
  <2>1. r \in Stored
      BY <1>5, RequestType DEF FailUpload, r
  <2>2. disk' \in [Keys -> Contents \cup {NoBlob, Removed}]
      BY <1>5, <2>1 DEF FailUpload, r, Stored, TableTypeOK
  <2> QED
      BY <1>5, <2>2, IdleType, GotoType DEF FailUpload, Finish, TypeOK, TableTypeOK
<1>6. ASSUME LinkDuplicate(w) PROVE TypeOK'
  <2>1. r \in LookedUp /\ r.key \in Keys
      BY <1>6, RequestType DEF LinkDuplicate, LookedUp, r
  <2>2. ASSUME NEW t \in Resolved(r.dest, r.user, r.name)
        PROVE  Stores(r, t.name, r.key) \in Request
    <3>1. t.name \in Names
        BY <2>1 DEF Resolved, FreeNames, LookedUp
    <3> QED
        BY <2>1, <3>1 DEF LookedUp, Stores, Stored, Request
  <2>3. req' \in [Procs -> Request]
      BY <1>6, <2>2, IdleType, GotoWithoutType DEF LinkDuplicate, r
  <2> QED
      BY <1>6, <2>3 DEF LinkDuplicate, TypeOK, TableTypeOK, tableVars
<1>7. ASSUME StoreMerged(w) PROVE TypeOK'
  <2>1. r \in LookedUp
      BY <1>7, RequestType DEF StoreMerged, r
  <2>2. PICK k \in Keys : disk' = [disk EXCEPT ![k] = r.hash] /\ Goto(w, Stores(r, r.name, k))
      BY <1>7 DEF StoreMerged, r
  <2>3. Stores(r, r.name, k) \in Request
      BY <2>1 DEF LookedUp, Stores, Stored, Request
  <2>4. disk' \in [Keys -> Contents \cup {NoBlob, Removed}]
      BY <2>1, <2>2 DEF LookedUp, TableTypeOK
  <2> QED
      BY <1>7, <2>2, <2>3, <2>4, GotoType DEF StoreMerged, TypeOK, TableTypeOK
<1>8. ASSUME CleanupUploadSession(w) PROVE TypeOK'
    BY <1>8, IdleType, GotoWithoutType DEF CleanupUploadSession, TypeOK, TableTypeOK, tableVars
<1> QED
    BY <1>1, <1>2, <1>3, <1>4, <1>5, <1>6, <1>7, <1>8 DEF UploadStep

LEMMA ChunkedType ==
    ASSUME TypeOK, Chunked
    PROVE  TypeOK'
<1>1. PICK s \in Uploads :
        \/ \E u \in Users, p \in Parents, n \in Names : InitUpload(s, u, p, n)
        \/ \E w \in Handlers, h \in Contents : CompleteUpload(w, s, h)
        \/ DropSession(s)
    BY DEF Chunked
<1> s \in Procs /\ Handlers \subseteq Procs
    BY DEF Procs, Workers
<1>2. req' \in [Procs -> Request]
  <2>1. ASSUME NEW u \in Users, NEW p \in Parents, NEW n \in Names, InitUpload(s, u, p, n)
        PROVE  req' \in [Procs -> Request]
    <3>1. [pc |-> "session", user |-> u, dest |-> p, name |-> n] \in Request
        BY DEF Request, Session
    <3> QED
        BY <2>1, <3>1, GotoType DEF InitUpload
  <2>2. ASSUME NEW w \in Handlers, NEW h \in Contents, CompleteUpload(w, s, h)
        PROVE  req' \in [Procs -> Request]
    <3> DEFINE r == req[s]
    <3>1. r \in Session
        BY <2>2, RequestType DEF CompleteUpload, TypeOK
    <3> HIDE DEF r
    <3>2. [pc |-> "hashed", user |-> r.user, dest |-> r.dest, name |-> r.name,
           hash |-> h, from |-> s] \in Request
        BY <3>1 DEF Session, Request, Uploading, From
    <3> QED
        BY <2>2, <3>2, GotoType DEF CompleteUpload, r
  <2>3. ASSUME DropSession(s) PROVE req' \in [Procs -> Request]
      BY <2>3, IdleType, GotoType DEF DropSession, Finish
  <2> QED
      BY <1>1, <2>1, <2>2, <2>3
<1> QED
    BY <1>1, <1>2 DEF InitUpload, CompleteUpload, DropSession, TypeOK, TableTypeOK, tableVars

LEMMA TreeType ==
    ASSUME TypeOK, NEW w \in Handlers
    PROVE  /\ \A u \in Users, p \in Parents, n \in Names : CreateDir(w, u, p, n) => TypeOK'
           /\ \A u \in Users, i \in Ids, n \in Names : RenameFile(w, u, i, n) => TypeOK'
           /\ \A u \in Users, i \in Ids, p \in Parents :
                  MoveFile(w, u, i, p) \/ CopyFile(w, u, i, p) => TypeOK'
           /\ \A u \in Users, S \in SUBSET Ids, p \in Parents : BatchMove(w, u, S, p) => TypeOK'
           /\ TreeStep(w) => TypeOK'
<1> w \in Procs
    BY DEF Procs, Workers
<1> DEFINE r == req[w]
<1> r \in Request /\ TableTypeOK
    BY DEF TypeOK
<1> HIDE DEF r
<1> USE DEF tableVars
<1>0. ASSUME Finish(w) PROVE req' \in [Procs -> Request]
    BY <1>0, IdleType, GotoType DEF Finish
<1>1. ASSUME NEW u \in Users, NEW p \in Parents, NEW n \in Names, CreateDir(w, u, p, n)
      PROVE  TypeOK'
  <2>1. [pc |-> "mkdir", user |-> u, dest |-> p, name |-> n] \in Request
      BY DEF Request, Mkdir
  <2> QED
      BY <1>1, <2>1, GotoType DEF CreateDir, TypeOK, TableTypeOK
<1>2. ASSUME InsertDir(w) PROVE TypeOK'
  <2>1. r \in Mkdir
      BY <1>2, RequestType DEF InsertDir, r
  <2>2. NewRow(r.user, r.dest, r.name, NoBlob, NoBlob) \in Row
      BY <2>1 DEF Mkdir, NewRow, Row, RowOf
  <2>3. rows' \in [Ids -> NoRow \cup Row]
      BY <1>2, <2>2, InsertedType DEF InsertDir, r, TableTypeOK
  <2> QED
      BY <1>0, <1>2, <2>3 DEF InsertDir, TypeOK, TableTypeOK
<1>3. ASSUME NEW u \in Users, NEW i \in Ids, NEW n \in Names, RenameFile(w, u, i, n)
      PROVE  TypeOK'
  <2>1. [pc |-> "rename", id |-> i, name |-> n] \in Request
      BY DEF Request, Rename
  <2> QED
      BY <1>3, <2>1, GotoType DEF RenameFile, TypeOK, TableTypeOK
<1>4. ASSUME CommitRename(w) PROVE TypeOK'
  <2>1. r \in Rename
      BY <1>4, RequestType DEF CommitRename, r
  <2>2. rows' \in [Ids -> NoRow \cup Row]
      BY <1>4, <2>1, RenamedType DEF CommitRename, r, Rename
  <2> QED
      BY <1>0, <1>4, <2>2 DEF CommitRename, TypeOK, TableTypeOK
<1>5. ASSUME NEW u \in Users, NEW i \in Ids, NEW p \in Parents, MoveFile(w, u, i, p)
      PROVE  TypeOK'
  <2>1. [pc |-> "moveTx", user |-> u, ids |-> {i}, dest |-> p] \in Request
      BY DEF Request, Moving
  <2> QED
      BY <1>5, <2>1, GotoType DEF MoveFile, TypeOK, TableTypeOK
<1>6. ASSUME NEW u \in Users, NEW S \in SUBSET Ids, NEW p \in Parents, BatchMove(w, u, S, p)
      PROVE  TypeOK'
  <2>1. [pc |-> "batchMoveTx", user |-> u, ids |-> S, dest |-> p] \in Request
      BY DEF Request, Moving
  <2> QED
      BY <1>6, <2>1, GotoType DEF BatchMove, TypeOK, TableTypeOK
<1>7. ASSUME MoveInTx(w) \/ BatchMoveInTx(w) PROVE TypeOK'
  <2>1. r \in Moving
      BY <1>7, RequestType DEF MoveInTx, BatchMoveInTx, r
  <2>2. [r EXCEPT !.pc = "move"] \in Request
      BY <2>1 DEF Moving, Request
  <2>3. Finish(w) \/ Goto(w, [r EXCEPT !.pc = "move"])
      BY <1>7 DEF MoveInTx, BatchMoveInTx, r
  <2>4. req' \in [Procs -> Request]
      BY <1>0, <2>2, <2>3, GotoType
  <2> QED
      BY <1>7, <2>4 DEF MoveInTx, BatchMoveInTx, TypeOK, TableTypeOK
<1>8. ASSUME CommitMove(w) PROVE TypeOK'
  <2>1. r \in Moving
      BY <1>8, RequestType DEF CommitMove, r
  <2>2. rows' \in [Ids -> NoRow \cup Row]
      BY <1>8, <2>1, MovedType DEF CommitMove, r, Moving, TableTypeOK
  <2> QED
      BY <1>0, <1>8, <2>2 DEF CommitMove, TypeOK, TableTypeOK
<1>9. ASSUME NEW u \in Users, NEW i \in Ids, NEW p \in Parents, CopyFile(w, u, i, p)
      PROVE  TypeOK'
  <2>1. rows[i].name \in Names /\ rows[i].hash \in Contents /\ rows[i].key \in Keys
      BY <1>9, RowType DEF CopyFile, Live, Exists
  <2>2. [pc |-> "copyTx", user |-> u, dest |-> p, name |-> rows[i].name,
         hash |-> rows[i].hash, key |-> rows[i].key] \in Request
      BY <2>1 DEF Request, Copying
  <2> QED
      BY <1>9, <2>2, GotoType DEF CopyFile, TypeOK, TableTypeOK
<1>10. ASSUME CopyInTx(w) PROVE TypeOK'
  <2>1. r \in Copying
      BY <1>10, RequestType DEF CopyInTx, r
  <2>2. Finish(w) \/ \E n \in Names : Goto(w, [r EXCEPT !.pc = "copy", !.name = n])
      BY <1>10, <2>1 DEF CopyInTx, FreeNames, Copying, r
  <2>3. ASSUME NEW n \in Names PROVE [r EXCEPT !.pc = "copy", !.name = n] \in Request
      BY <2>1 DEF Copying, Request
  <2>4. req' \in [Procs -> Request]
      BY <1>0, <2>2, <2>3, GotoType
  <2> QED
      BY <1>10, <2>4 DEF CopyInTx, TypeOK, TableTypeOK
<1>11. ASSUME CommitCopy(w) PROVE TypeOK'
  <2>1. r \in Copying
      BY <1>11, RequestType DEF CommitCopy, r
  <2>2. NewRow(r.user, r.dest, r.name, r.hash, r.key) \in Row
      BY <2>1 DEF Copying, NewRow, Row, RowOf
  <2>3. rows' \in [Ids -> NoRow \cup Row]
      BY <1>11, <2>2, InsertedType DEF CommitCopy, r, TableTypeOK
  <2>4. r.user \in Users /\ Size[r.hash] \in Int
      BY <2>1, TableAssumption DEF Copying, TableAssumption
  <2>5. used' \in [Users -> Nat]
      BY <1>11, <2>4, ChargedType DEF CommitCopy, r, TableTypeOK
  <2> QED
      BY <1>0, <1>11, <2>3, <2>5 DEF CommitCopy, TypeOK, TableTypeOK
<1> QED
    BY <1>1, <1>2, <1>3, <1>4, <1>5, <1>6, <1>7, <1>8, <1>9, <1>10, <1>11 DEF TreeStep

LEMMA BinType ==
    ASSUME TypeOK, NEW w \in Handlers
    PROVE  /\ \A u \in Users, i \in Ids :
                  DeleteFile(w, u, i) \/ RestoreFile(w, u, i) \/ PermanentDeleteFile(w, u, i)
                     => TypeOK'
           /\ \A u \in Users, S \in SUBSET Ids : BatchDelete(w, u, S) => TypeOK'
           /\ BinStep(w) => TypeOK'
<1> w \in Procs
    BY DEF Procs, Workers
<1> DEFINE r == req[w]
<1> r \in Request /\ TableTypeOK
    BY DEF TypeOK
<1> HIDE DEF r
<1> USE DEF tableVars
<1>0. ASSUME Finish(w) PROVE req' \in [Procs -> Request]
    BY <1>0, IdleType, GotoType DEF Finish
<1>d. ASSUME NEW i \in Ids, NEW b \in BOOLEAN
      PROVE  ({i} \cup IF IsDir(i) THEN DescendantIDs(i, b) ELSE {}) \in SUBSET Ids
    BY <1>d DEF DescendantIDs
<1>g. ASSUME NEW S \in SUBSET Ids, NEW u \in Users, NEW n \in Nat, NEW L \in SUBSET Ids
      PROVE  /\ [pc |-> "delete", user |-> u, ids |-> S, freed |-> n] \in Request
             /\ [pc |-> "purge", user |-> u, ids |-> S, freed |-> n] \in Request
             /\ [pc |-> "restore", user |-> u, ids |-> S, lifted |-> L, gained |-> n] \in Request
    BY DEF Request, Deleting, Restoring
<1>1. ASSUME NEW u \in Users, NEW i \in Ids, DeleteFile(w, u, i) PROVE TypeOK'
  <2> DEFINE S == {i} \cup IF IsDir(i) THEN DescendantIDs(i, FALSE) ELSE {}
  <2>1. S \in SUBSET Ids /\ Bytes(S) \in Nat
      BY <1>d, BytesType
  <2>2. Goto(w, [pc |-> "delete", user |-> u, ids |-> S, freed |-> Bytes(S)])
      BY <1>1 DEF DeleteFile
  <2> HIDE DEF S
  <2>3. req' \in [Procs -> Request]
      BY <1>g, <2>1, <2>2, GotoType
  <2> QED
      BY <1>1, <2>3 DEF DeleteFile, TypeOK, TableTypeOK
<1>2. ASSUME NEW u \in Users, NEW S \in SUBSET Ids, BatchDelete(w, u, S) PROVE TypeOK'
  <2> DEFINE tree(i) == {i} \cup IF IsDir(i) THEN DescendantIDs(i, FALSE) ELSE {}
             counted == {p \in S \X (Ids \X (1..MaxSize)) :
                            p[2][1] \in tree(p[1]) /\ p[2][2] <= SizeOf(p[2][1])}
             ids == {j \in Ids : \E i \in S : j \in tree(i)}
  <2>1. ids \in SUBSET Ids /\ Cardinality(counted) \in Nat
      BY CountedType
  <2>2. Goto(w, [pc |-> "delete", user |-> u, ids |-> ids, freed |-> Cardinality(counted)])
      BY <1>2 DEF BatchDelete
  <2> HIDE DEF counted, ids
  <2>3. req' \in [Procs -> Request]
      BY <1>g, <2>1, <2>2, GotoType
  <2> QED
      BY <1>2, <2>3 DEF BatchDelete, TypeOK, TableTypeOK
<1>3. ASSUME NEW u \in Users, NEW i \in Ids, RestoreFile(w, u, i) PROVE TypeOK'
  <2> DEFINE S == {i} \cup IF IsDir(i) THEN DescendantIDs(i, TRUE) ELSE {}
  <2>1. S \in SUBSET Ids /\ Bytes(S) \in Nat
      BY <1>d, BytesType
  <2>2. \E L \in SUBSET Ids :
            Goto(w, [pc |-> "restore", user |-> u, ids |-> S, lifted |-> L, gained |-> Bytes(S)])
      BY <1>3 DEF RestoreFile
  <2> HIDE DEF S
  <2>3. req' \in [Procs -> Request]
      BY <1>g, <2>1, <2>2, GotoType
  <2> QED
      BY <1>3, <2>3 DEF RestoreFile, TypeOK, TableTypeOK
<1>4. ASSUME NEW u \in Users, NEW i \in Ids, PermanentDeleteFile(w, u, i) PROVE TypeOK'
  <2> DEFINE S == {i} \cup IF IsDir(i) THEN DescendantIDs(i, TRUE) ELSE {}
  <2>1. S \in SUBSET Ids /\ Bytes(S) \in Nat
      BY <1>d, BytesType
  <2>2. Goto(w, [pc |-> "purge", user |-> u, ids |-> S, freed |-> Bytes(S)])
      BY <1>4 DEF PermanentDeleteFile
  <2> HIDE DEF S
  <2>3. req' \in [Procs -> Request]
      BY <1>g, <2>1, <2>2, GotoType
  <2> QED
      BY <1>4, <2>3 DEF PermanentDeleteFile, TypeOK, TableTypeOK
<1>5. ASSUME CommitDelete(w) PROVE TypeOK'
  <2>1. r \in Deleting
      BY <1>5, RequestType DEF CommitDelete, r
  <2>2. rows' \in [Ids -> NoRow \cup Row]
      BY <1>5, MarkedType DEF CommitDelete, SoftDeleted
  <2>3. r.user \in Users /\ -r.freed \in Int
      BY <2>1 DEF Deleting
  <2>4. used' \in [Users -> Nat]
      BY <1>5, <2>3, ChargedType DEF CommitDelete, r
  <2> QED
      BY <1>0, <1>5, <2>2, <2>4 DEF CommitDelete, TypeOK, TableTypeOK
<1>6. ASSUME CommitRestore(w) PROVE TypeOK'
  <2>1. r \in Restoring
      BY <1>6, RequestType DEF CommitRestore, r
  <2>2. rows' \in [Ids -> NoRow \cup Row]
      BY <1>6, RestoredType DEF CommitRestore
  <2>3. r.user \in Users /\ r.gained \in Int
      BY <2>1 DEF Restoring
  <2>4. used' \in [Users -> Nat]
      BY <1>6, <2>3, ChargedType DEF CommitRestore, r
  <2> QED
      BY <1>0, <1>6, <2>2, <2>4 DEF CommitRestore, TypeOK, TableTypeOK
<1>7. ASSUME CommitPurge(w) PROVE TypeOK'
  <2>1. r \in Deleting
      BY <1>7, RequestType DEF CommitPurge, r
  <2> DEFINE owed == [u \in Users |-> IF u = r.user THEN r.freed ELSE 0]
  <2>2. owed \in [Users -> Nat]
      BY <2>1 DEF Deleting
  <2>3. PICK keys \in Unshared(KeysOf(r.ids)) : Goto(w, Sweep(keys, owed))
      BY <1>7 DEF CommitPurge, r
  <2>4. KeysOf(r.ids) \in SUBSET Keys
      BY <2>1, RowType DEF KeysOf, Deleting
  <2>5. keys \in SUBSET Keys
      BY <2>3, <2>4 DEF Unshared
  <2> HIDE DEF owed
  <2>6. Sweep(keys, owed) \in Request
      BY <2>2, <2>5, IdleType DEF Sweep, Request, Sweeping
  <2>7. req' \in [Procs -> Request]
      BY <2>3, <2>6, GotoType
  <2>8. rows' \in [Ids -> NoRow \cup Row]
      BY <1>7, HardDeletedType DEF CommitPurge
  <2> QED
      BY <1>7, <2>7, <2>8 DEF CommitPurge, TypeOK, TableTypeOK
<1> QED
    BY <1>1, <1>2, <1>3, <1>4, <1>5, <1>6, <1>7 DEF BinStep

LEMMA JobsType ==
    ASSUME TypeOK
    PROVE  /\ Jobs => TypeOK'
           /\ \A w \in Procs : DeleteBlob(w) \/ ChargeBack(w) \/ Fail(w) => TypeOK'
           /\ Crash => TypeOK'
<1> Cleaner \in Procs /\ Calibrator \in Procs
    BY DEF Procs, Workers
<1> TableTypeOK /\ \A w \in Procs : req[w] \in Request
    BY DEF TypeOK
<1> USE DEF tableVars
<1>k. ASSUME NEW S \in SUBSET Ids PROVE KeysOf(S) \in SUBSET Keys
    BY RowType DEF KeysOf
<1>s. ASSUME NEW keys \in SUBSET Keys, NEW owed \in [Users -> Nat]
      PROVE  Sweep(keys, owed) \in Request
    BY IdleType DEF Sweep, Request, Sweeping
<1>1. ASSUME NEW E \in SUBSET Ids, AutoCleanRecycle(E) PROVE TypeOK'
  <2> DEFINE tree(i) == IF IsDir(i) /\ ~CycleAt(i) THEN DescendantIDs(i, TRUE) ELSE {}
             S == {j \in Ids : j \in E \/ \E i \in E : j \in tree(i)}
             owed == [u \in Users |-> Bytes({j \in S : rows[j].owner = u})]
  <2>1. S \in SUBSET Ids
      OBVIOUS
  <2>2. Goto(Cleaner, [pc |-> "count", ids |-> S, keys |-> KeysOf(S), owed |-> owed])
      BY <1>1 DEF AutoCleanRecycle
  <2> HIDE DEF S
  <2>3. \A u \in Users : Bytes({j \in S : rows[j].owner = u}) \in Nat
      BY <2>1, BytesType
  <2>4. owed \in [Users -> Nat]
      BY <2>3
  <2> HIDE DEF owed
  <2>5. [pc |-> "count", ids |-> S, keys |-> KeysOf(S), owed |-> owed] \in Request
      BY <1>k, <2>1, <2>4 DEF Request, Cleaning
  <2> QED
      BY <1>1, <2>2, <2>5, GotoType DEF AutoCleanRecycle, TypeOK, TableTypeOK
<1>2. ASSUME CountKeys PROVE TypeOK'
  <2> DEFINE r == req[Cleaner]
  <2>1. r \in Cleaning
      BY <1>2, RequestType DEF CountKeys
  <2>2. PICK keys \in Unshared(r.keys) : Goto(Cleaner, [r EXCEPT !.pc = "clean", !.keys = keys])
      BY <1>2 DEF CountKeys
  <2> HIDE DEF r
  <2>3. keys \in SUBSET Keys
      BY <2>1, <2>2 DEF Unshared, Cleaning
  <2>4. [r EXCEPT !.pc = "clean", !.keys = keys] \in Request
      BY <2>1, <2>3 DEF Cleaning, Request
  <2> QED
      BY <1>2, <2>2, <2>4, GotoType DEF CountKeys, TypeOK, TableTypeOK
<1>3. ASSUME CleanRows PROVE TypeOK'
  <2> DEFINE r == req[Cleaner]
  <2>1. r \in Cleaning
      BY <1>3, RequestType DEF CleanRows
  <2>2. rows' \in [Ids -> NoRow \cup Row]
      BY <1>3, HardDeletedType DEF CleanRows
  <2>3. Sweep(r.keys, r.owed) \in Request
      BY <1>s, <2>1 DEF Cleaning
  <2>4. req' \in [Procs -> Request]
      BY <1>3, <2>3, GotoType DEF CleanRows
  <2> QED
      BY <1>3, <2>2, <2>4 DEF CleanRows, TypeOK, TableTypeOK
<1>4. ASSUME NEW u \in Users, Calibrate(u) PROVE TypeOK'
  <2>1. SumActiveStorage(u) \in Nat
      BY BytesType DEF SumActiveStorage, LiveOf
  <2>2. [pc |-> "summed", user |-> u, actual |-> SumActiveStorage(u)] \in Request
      BY <2>1 DEF Request, Summed
  <2> QED
      BY <1>4, <2>2, GotoType DEF Calibrate, TypeOK, TableTypeOK
<1>5. ASSUME NEW u \in Users, ReadUsed(u) PROVE TypeOK'
  <2>1. req[Calibrator] \in Summed
      BY <1>5, RequestType DEF ReadUsed
  <2>2. req[Calibrator].actual - used[u] \in Int
      BY <2>1 DEF Summed, TableTypeOK
  <2>3. [pc |-> "calibrate", user |-> u, delta |-> req[Calibrator].actual - used[u]] \in Request
      BY <2>2 DEF Request, Calibrating
  <2> QED
      BY <1>5, <2>3, GotoType DEF ReadUsed, TypeOK, TableTypeOK
<1>6. ASSUME NEW u \in Users, CorrectUsed(u) PROVE TypeOK'
  <2>1. req[Calibrator] \in Calibrating
      BY <1>6, RequestType DEF CorrectUsed
  <2>2. req[Calibrator].delta \in Int
      BY <2>1 DEF Calibrating
  <2>3. used' \in [Users -> Nat]
      BY <1>6, <2>1, <2>2, ChargedType DEF CorrectUsed, Calibrating
  <2> QED
      BY <1>6, <2>3, IdleType, GotoType DEF CorrectUsed, Finish, TypeOK, TableTypeOK
<1>7. ASSUME NEW w \in Procs, DeleteBlob(w) PROVE TypeOK'
  <2>1. req[w] \in Sweeping
      BY <1>7, RequestType DEF DeleteBlob
  <2>2. PICK k \in req[w].keys :
            /\ disk' = [disk EXCEPT ![k] = Removed] \/ disk' = disk
            /\ Goto(w, Sweep(req[w].keys \ {k}, req[w].owed))
      BY <1>7 DEF DeleteBlob
  <2>3. Sweep(req[w].keys \ {k}, req[w].owed) \in Request
      BY <1>s, <2>1 DEF Sweeping
  <2>4. disk' \in [Keys -> Contents \cup {NoBlob, Removed}]
      BY <2>2 DEF TableTypeOK
  <2> QED
      BY <1>7, <2>2, <2>3, <2>4, GotoType DEF DeleteBlob, TypeOK, TableTypeOK
<1>8. ASSUME NEW w \in Procs, ChargeBack(w) PROVE TypeOK'
  <2>1. req[w] \in Sweeping
      BY <1>8, RequestType DEF ChargeBack
  <2>2. PICK u \in Users :
            /\ used' = Charged(u, -req[w].owed[u]) \/ used' = used
            /\ Goto(w, Sweep({}, [req[w].owed EXCEPT ![u] = 0]))
      BY <1>8 DEF ChargeBack
  <2>3. [req[w].owed EXCEPT ![u] = 0] \in [Users -> Nat] /\ -req[w].owed[u] \in Int
      BY <2>1 DEF Sweeping
  <2>4. Sweep({}, [req[w].owed EXCEPT ![u] = 0]) \in Request
      BY <1>s, <2>3
  <2>5. used' \in [Users -> Nat]
      BY <2>2, <2>3, ChargedType DEF TableTypeOK
  <2> QED
      BY <1>8, <2>2, <2>4, <2>5, GotoType DEF ChargeBack, TypeOK, TableTypeOK
<1>9. ASSUME NEW w \in Procs, Fail(w) PROVE TypeOK'
    BY <1>9, IdleType, GotoType DEF Fail, Finish, TypeOK, TableTypeOK
<1>10. ASSUME Crash PROVE TypeOK'
    BY <1>10, IdleType DEF Crash, TypeOK, TableTypeOK
<1> QED
    BY <1>1, <1>2, <1>3, <1>4, <1>5, <1>6, <1>7, <1>8, <1>9, <1>10 DEF Jobs

LEMMA NextType == TypeOK /\ [Next]_vars => TypeOK'
<1>1. ASSUME TypeOK, NEW w \in Handlers, NEW u \in Users, Start(w, u) PROVE TypeOK'
    BY <1>1, UploadType, TreeType, BinType DEF Start
<1>2. ASSUME TypeOK, NEW w \in Handlers, UploadStep(w) \/ TreeStep(w) \/ BinStep(w)
      PROVE  TypeOK'
    BY <1>2, UploadType, TreeType, BinType
<1>3. ASSUME TypeOK, UNCHANGED vars PROVE TypeOK'
    BY <1>3 DEF vars, TypeOK, TableTypeOK
<1> QED
    BY <1>1, <1>2, <1>3, ChunkedType, JobsType DEF Next

\* Every table keeps its type whatever runs concurrently: storage_used never
\* becomes negative, a row is a directory without a key or a file with one,
\* and a request only ever carries ids, keys and amounts that exist.
THEOREM TypeCorrect == Spec => []TypeOK
<1>1. Init => TypeOK
    BY IdleType DEF Init, TableInit, TypeOK, TableTypeOK, NoRow
<1> QED
    BY <1>1, NextType, PTL DEF Spec

-----------------------------------------------------------------------------
(* The inductive invariant *)

\* A row of u may be put below p, holding content h under key k.
Fit(row) ==
    /\ row \in Row
    /\ row.st = "live"
    /\ OwnDir(row.parent, row.owner)
    /\ row.key # NoBlob => KeyHolds(row.key, row.hash)

\* Everything a step can do to the table.
RowsStep ==
    \/ rows' = rows
    \/ \E old, row : \E i \in Ids :
          rows[i].st = "unused" /\ Fit(row) /\ rows' = Inserted(old, i, row)
    \/ \E i, n : rows' = Renamed(i, n)
    \/ \E S, p, u :
          /\ OwnDir(p, u) /\ p \in Parents
          /\ \A i \in S : rows[i].st # "unused" /\ (Exists(i) => rows[i].owner = u)
          /\ rows' = Moved(S, p)
    \/ \E S : rows' = SoftDeleted(S)
    \/ \E S, lifted : rows' = Restored(S, lifted)
    \/ \E S : rows' = HardDeleted(S)

\* Everything a step can do to a blob: write it under a new key, delete it.
DiskStep ==
    \A k \in Keys : disk'[k] = disk[k] \/ disk'[k] = Removed \/ disk[k] = NoBlob

\* What happens to the rows that were there: ids are used once, purged rows
\* stay purged, and owner, key and hash never change.
RowsKept ==
    \A i \in Ids : rows[i].st # "unused" =>
        /\ rows'[i].st # "unused"
        /\ Exists(i)' => /\ Exists(i)
                         /\ rows'[i].owner = rows[i].owner
                         /\ rows'[i].key = rows[i].key
                         /\ rows'[i].hash = rows[i].hash

LEMMA RowsStepKeeps ==
    ASSUME TableTypeOK, RowsStep
    PROVE  RowsKept
<1>1. CASE rows' = rows
    BY <1>1 DEF RowsKept, Exists
<1>2. ASSUME NEW old, NEW row, NEW i \in Ids, rows[i].st = "unused", rows' = Inserted(old, i, row)
      PROVE  RowsKept
  <2>1. \A j \in Ids \ {i} : rows'[j] = SoftDeleted(old)[j]
      BY <1>2 DEF Inserted, SoftDeleted, Marked
  <2>2. ASSUME NEW j \in Ids \ {i}, Exists(j)
        PROVE  /\ [rows[j] EXCEPT !.st = "deleted"].st = "deleted"
               /\ [rows[j] EXCEPT !.st = "deleted"].owner = rows[j].owner
               /\ [rows[j] EXCEPT !.st = "deleted"].key = rows[j].key
               /\ [rows[j] EXCEPT !.st = "deleted"].hash = rows[j].hash
      BY <2>2, RowType DEF Row, RowOf
  <2> QED
      BY <1>2, <2>1, <2>2 DEF RowsKept, Exists, SoftDeleted, Marked
<1>3. ASSUME NEW i, NEW n, rows' = Renamed(i, n)
      PROVE  RowsKept
  <2>2. ASSUME NEW j \in Ids, Exists(j)
        PROVE  /\ [rows[j] EXCEPT !.name = n].st = rows[j].st
               /\ [rows[j] EXCEPT !.name = n].owner = rows[j].owner
               /\ [rows[j] EXCEPT !.name = n].key = rows[j].key
               /\ [rows[j] EXCEPT !.name = n].hash = rows[j].hash
      BY <2>2, RowType DEF Row, RowOf
  <2> QED
      BY <1>3, <2>2 DEF RowsKept, Exists, Renamed, TableTypeOK
<1>4. ASSUME NEW S, NEW p, rows' = Moved(S, p)
      PROVE  RowsKept
  <2>2. ASSUME NEW j \in Ids, Exists(j)
        PROVE  /\ [rows[j] EXCEPT !.parent = p].st = rows[j].st
               /\ [rows[j] EXCEPT !.parent = p].owner = rows[j].owner
               /\ [rows[j] EXCEPT !.parent = p].key = rows[j].key
               /\ [rows[j] EXCEPT !.parent = p].hash = rows[j].hash
      BY <2>2, RowType DEF Row, RowOf
  <2> QED
      BY <1>4, <2>2 DEF RowsKept, Exists, Moved
<1>5. ASSUME NEW S, rows' = SoftDeleted(S)
      PROVE  RowsKept
  <2>2. ASSUME NEW j \in Ids, Exists(j)
        PROVE  /\ [rows[j] EXCEPT !.st = "deleted"].st = "deleted"
               /\ [rows[j] EXCEPT !.st = "deleted"].owner = rows[j].owner
               /\ [rows[j] EXCEPT !.st = "deleted"].key = rows[j].key
               /\ [rows[j] EXCEPT !.st = "deleted"].hash = rows[j].hash
      BY <2>2, RowType DEF Row, RowOf
  <2> QED
      BY <1>5, <2>2 DEF RowsKept, Exists, SoftDeleted, Marked
<1>6. ASSUME NEW S, NEW lifted, rows' = Restored(S, lifted)
      PROVE  RowsKept
  <2>1. ASSUME NEW j \in Ids, Exists(j), j \in S
        PROVE  /\ rows'[j].st = "live"
               /\ rows'[j].owner = rows[j].owner
               /\ rows'[j].key = rows[j].key
               /\ rows'[j].hash = rows[j].hash
      BY <1>6, <2>1, RowType DEF Restored, Row, RowOf
  <2>2. ASSUME NEW j \in Ids, ~(Exists(j) /\ j \in S) PROVE rows'[j] = rows[j]
      BY <1>6, <2>2 DEF Restored
  <2> QED
      BY <2>1, <2>2 DEF RowsKept, Exists
<1>7. ASSUME NEW S, rows' = HardDeleted(S)
      PROVE  RowsKept
    BY <1>7 DEF RowsKept, Exists, HardDeleted
<1> QED
    BY <1>1, <1>2, <1>3, <1>4, <1>5, <1>6, <1>7 DEF RowsStep

\* OwnDir and KeyHolds survive such steps, and with them what a request captured.
LEMMA OwnDirKept ==
    ASSUME TableTypeOK, RowsKept, NEW p \in Parents, NEW u, OwnDir(p, u)
    PROVE  OwnDir(p, u)'
BY DEF RowsKept, OwnDir, Parents, Exists, IsDir

LEMMA KeyHoldsKept ==
    ASSUME TableTypeOK, DiskStep, NEW k \in Keys, NEW h \in Contents, KeyHolds(k, h)
    PROVE  KeyHolds(k, h)'
BY TableAssumption DEF DiskStep, KeyHolds, TableAssumption

LEMMA CapturedKept ==
    ASSUME TableTypeOK, RowsKept, DiskStep, NEW r \in Request, Captured(r)
    PROVE  Captured(r)'
<1>1. r.pc \in {"session", "hashed", "lookedUp", "stored", "mkdir", "moveTx", "batchMoveTx",
                "move", "copyTx", "copy"} => r.dest \in Parents
    BY RequestType DEF Session, Uploading, LookedUp, Stored, Mkdir, Moving, Copying
<1>2. r.pc = "lookedUp" => r.key \in Keys \cup {NoBlob} /\ r.hash \in Contents
    BY RequestType DEF LookedUp
<1>3. r.pc \in {"stored", "copyTx", "copy"} => r.key \in Keys /\ r.hash \in Contents
    BY RequestType DEF Stored, Copying
<1>4. r.pc = "move" => r.ids \in SUBSET Ids
    BY RequestType DEF Moving
<1>5. ASSUME r.pc = "move", NEW i \in r.ids
      PROVE  rows'[i].st # "unused" /\ (Exists(i)' => rows'[i].owner = r.user)
    BY <1>4, <1>5 DEF Captured, RowsKept
<1> QED
    BY <1>1, <1>2, <1>3, <1>5, OwnDirKept, KeyHoldsKept DEF Captured

\* What IInv says of the rows.
RowsFit ==
    \A i \in Ids : Exists(i) =>
        /\ OwnDir(rows[i].parent, rows[i].owner)
        /\ ~IsDir(i) => KeyHolds(rows[i].key, rows[i].hash)

LEMMA RowsFitKept ==
    ASSUME TableTypeOK, RowsFit, RowsStep, DiskStep
    PROVE  RowsFit'
<1> RowsKept
    BY RowsStepKeeps
<1>1. \A p \in Parents : \A u : OwnDir(p, u) => OwnDir(p, u)'
    BY OwnDirKept
<1>2. \A k \in Keys, h \in Contents : KeyHolds(k, h) => KeyHolds(k, h)'
    BY KeyHoldsKept
<1>3. ASSUME NEW i \in Ids, Exists(i), Exists(i)',
             NEW p \in Parents, rows'[i].parent = p, OwnDir(p, rows[i].owner)
      PROVE  /\ OwnDir(rows[i].parent, rows[i].owner)'
             /\ ~IsDir(i)' => KeyHolds(rows[i].key, rows[i].hash)'
  <2>1. /\ rows'[i].owner = rows[i].owner
        /\ rows'[i].key = rows[i].key /\ rows'[i].hash = rows[i].hash
      BY <1>3 DEF RowsKept, Exists
  <2> DEFINE u == rows[i].owner
             k == rows[i].key
             h == rows[i].hash
  <2>2. k # NoBlob => k \in Keys /\ h \in Contents /\ disk[k] \in {h, Removed}
      BY <1>3, RowType DEF RowsFit, IsDir, KeyHolds
  <2>3. p # Root => rows'[p].st # "unused" /\ (Exists(p)' => IsDir(p)' /\ rows'[p].owner = u)
      BY <1>3, <1>1 DEF OwnDir
  <2>4. k # NoBlob => disk'[k] \in {h, Removed}
      BY <1>2, <2>2 DEF KeyHolds
  <2> HIDE DEF u, k, h
  <2>5. OwnDir(rows[i].parent, rows[i].owner)'
      BY <1>3, <2>1, <2>3 DEF OwnDir, Exists, IsDir, u
  <2>6. ~IsDir(i)' => KeyHolds(rows[i].key, rows[i].hash)'
      BY <2>1, <2>4 DEF IsDir, KeyHolds, k, h
  <2> QED
      BY <2>5, <2>6
<1>k. ASSUME NEW i \in Ids, Exists(i), Exists(i)', rows'[i].parent = rows[i].parent
      PROVE  /\ OwnDir(rows[i].parent, rows[i].owner)'
             /\ ~IsDir(i)' => KeyHolds(rows[i].key, rows[i].hash)'
    BY <1>3, <1>k, RowType DEF RowsFit
<1>4. SUFFICES ASSUME NEW i \in Ids, Exists(i)'
               PROVE  /\ OwnDir(rows[i].parent, rows[i].owner)'
                      /\ ~IsDir(i)' => KeyHolds(rows[i].key, rows[i].hash)'
    BY DEF RowsFit
<1>6. CASE rows'[i] = rows[i]
    BY <1>k, <1>4, <1>6 DEF Exists
<1>7. ASSUME NEW old, NEW row, NEW j \in Ids,
             rows[j].st = "unused", Fit(row), rows' = Inserted(old, j, row)
      PROVE  /\ OwnDir(rows[i].parent, rows[i].owner)'
             /\ ~IsDir(i)' => KeyHolds(rows[i].key, rows[i].hash)'
  <2>1. CASE i # j
    <3>1. rows'[i] = SoftDeleted(old)[i]
        BY <1>7, <2>1 DEF Inserted, SoftDeleted, Marked
    <3>2. Exists(i)
        BY <1>4, <3>1 DEF SoftDeleted, Marked, Exists
    <3>3. rows'[i].parent = rows[i].parent
        BY <3>1, <3>2, RowType DEF SoftDeleted, Marked, Row, RowOf
    <3> QED
        BY <1>k, <1>4, <3>2, <3>3
  <2>2. CASE i = j
    <3>1. rows'[i] = row
        BY <1>7, <2>2 DEF Inserted, SoftDeleted, Marked
    <3>2. OwnDir(row.parent, row.owner)'
        BY <1>1, <1>7 DEF Fit, Row, RowOf
    <3>3. row.key # NoBlob => row.key \in Keys /\ row.hash \in Contents
        BY <1>7 DEF Fit, Row, RowOf
    <3>4. row.key # NoBlob => KeyHolds(row.key, row.hash)'
        BY <1>2, <1>7, <3>3 DEF Fit
    <3> QED
        BY <3>1, <3>2, <3>4 DEF IsDir, OwnDir, KeyHolds, Exists
  <2> QED
      BY <2>1, <2>2
<1>8. ASSUME NEW k, NEW n, rows' = Renamed(k, n)
      PROVE  /\ OwnDir(rows[i].parent, rows[i].owner)'
             /\ ~IsDir(i)' => KeyHolds(rows[i].key, rows[i].hash)'
  <2>1. CASE rows'[i] # rows[i]
    <3>1. rows'[i] = [rows[i] EXCEPT !.name = n] /\ Exists(i)
        BY <1>8, <2>1 DEF Renamed, TableTypeOK
    <3>2. rows'[i].parent = rows[i].parent
        BY <3>1, RowType DEF Row, RowOf
    <3> QED
        BY <1>k, <1>4, <3>1, <3>2
  <2> QED
      BY <2>1, <1>6
<1>9. ASSUME NEW S, NEW p, NEW u, OwnDir(p, u), p \in Parents,
             \A k \in S : rows[k].st # "unused" /\ (Exists(k) => rows[k].owner = u),
             rows' = Moved(S, p)
      PROVE  /\ OwnDir(rows[i].parent, rows[i].owner)'
             /\ ~IsDir(i)' => KeyHolds(rows[i].key, rows[i].hash)'
  <2>1. CASE rows'[i] # rows[i]
    <3>1. rows'[i] = [rows[i] EXCEPT !.parent = p] /\ Exists(i) /\ i \in S
        BY <1>9, <2>1 DEF Moved
    <3>2. rows'[i].parent = p /\ rows[i].owner = u
        BY <1>9, <3>1, RowType DEF Row, RowOf
    <3> QED
        BY <1>3, <1>4, <1>9, <3>1, <3>2
  <2> QED
      BY <2>1, <1>6
<1>10. ASSUME NEW S, rows' = SoftDeleted(S)
      PROVE  /\ OwnDir(rows[i].parent, rows[i].owner)'
             /\ ~IsDir(i)' => KeyHolds(rows[i].key, rows[i].hash)'
  <2>1. CASE rows'[i] # rows[i]
    <3>1. rows'[i] = [rows[i] EXCEPT !.st = "deleted"] /\ Exists(i)
        BY <1>10, <2>1 DEF SoftDeleted, Marked
    <3>2. rows'[i].parent = rows[i].parent
        BY <3>1, RowType DEF Row, RowOf
    <3> QED
        BY <1>k, <1>4, <3>1, <3>2
  <2> QED
      BY <2>1, <1>6
<1>11. ASSUME NEW S, NEW lifted, rows' = Restored(S, lifted)
      PROVE  /\ OwnDir(rows[i].parent, rows[i].owner)'
             /\ ~IsDir(i)' => KeyHolds(rows[i].key, rows[i].hash)'
  <2>1. CASE rows'[i] # rows[i]
    <3>1. Exists(i) /\ i \in S
        BY <1>11, <2>1 DEF Restored
    <3>2. rows'[i].parent = rows[i].parent \/ rows'[i].parent = Root
        BY <1>11, <3>1, RowType DEF Restored, Row, RowOf
    <3>3. OwnDir(Root, rows[i].owner) /\ Root \in Parents
        BY DEF OwnDir, Parents
    <3> QED
        BY <1>3, <1>k, <1>4, <3>1, <3>2, <3>3
  <2> QED
      BY <2>1, <1>6
<1>12. ASSUME NEW S, rows' = HardDeleted(S)
      PROVE  /\ OwnDir(rows[i].parent, rows[i].owner)'
             /\ ~IsDir(i)' => KeyHolds(rows[i].key, rows[i].hash)'
    BY <1>4, <1>6, <1>12 DEF HardDeleted, Exists
<1> QED
    BY <1>6, <1>7, <1>8, <1>9, <1>10, <1>11, <1>12 DEF RowsStep

\* The request of w, or of nobody, moves on to r; sessions of uploads may go.
ReqStep ==
    \/ UNCHANGED req
    \/ \E w \in Procs : \E r \in Request : Goto(w, r) /\ Captured(r)'
    \/ \E w \in Procs : \E r \in Request : \E s : GotoWithout(w, r, s) /\ Captured(r)'
    \/ req' = [w \in Procs |-> IF w \in Uploads THEN req[w] ELSE Idle]

Steps == RowsStep /\ DiskStep /\ ReqStep

LEMMA CapturedIdle ==
    ASSUME NEW w \in Procs, Finish(w)
    PROVE  ReqStep
<1>1. Captured(Idle)'
    BY DEF Captured, Idle
<1> QED
    BY <1>1, IdleType DEF ReqStep, Finish

\* A step that only reads: the request captures what holds now.
LEMMA ReadSteps ==
    ASSUME NEW w \in Procs, NEW r \in Request, Goto(w, r), Captured(r), UNCHANGED tableVars
    PROVE  Steps
<1>1. rows' = rows /\ disk' = disk
    BY DEF tableVars
<1>2. Captured(r)'
    BY <1>1 DEF Captured, OwnDir, KeyHolds, Exists, IsDir
<1> QED
    BY <1>1, <1>2 DEF Steps, RowsStep, DiskStep, ReqStep

\* The same, and a session goes.
LEMMA ReadStepsWithout ==
    ASSUME NEW w \in Procs, NEW r \in Request, NEW s, GotoWithout(w, r, s), Captured(r),
           UNCHANGED tableVars
    PROVE  Steps
<1>1. rows' = rows /\ disk' = disk
    BY DEF tableVars
<1>2. Captured(r)'
    BY <1>1 DEF Captured, OwnDir, KeyHolds, Exists, IsDir
<1> QED
    BY <1>1, <1>2 DEF Steps, RowsStep, DiskStep, ReqStep

\* validateParentDir makes the parent fit.
LEMMA ValidDirFit ==
    ASSUME TableTypeOK, NEW p \in Parents, NEW u \in Users, ValidDir(p, u)
    PROVE  OwnDir(p, u)
BY DEF ValidDir, OwnDir, Owned, Exists

\* A row of the table is fit to be copied or linked to.
LEMMA RowHolds ==
    ASSUME IInv, NEW i \in Ids, Live(i), ~IsDir(i)
    PROVE  /\ rows[i].key \in Keys /\ rows[i].hash \in Contents /\ rows[i].name \in Names
           /\ KeyHolds(rows[i].key, rows[i].hash)
BY RowType DEF IInv, TypeOK, Live, Exists

LEMMA UploadSteps ==
    ASSUME IInv, TypeOK', NEW w \in Handlers
    PROVE  /\ \A u \in Users, p \in Parents, n \in Names, h \in Contents :
                  UploadFile(w, u, p, n, h) => Steps
           /\ UploadStep(w) => Steps
<1> w \in Procs
    BY DEF Procs, Workers
<1> DEFINE r == req[w]
<1> TypeOK /\ TableTypeOK /\ r \in Request /\ Captured(r)
    BY DEF TypeOK, IInv
<1> HIDE DEF r
<1>1. ASSUME NEW u \in Users, NEW p \in Parents, NEW n \in Names, NEW h \in Contents,
             UploadFile(w, u, p, n, h)
      PROVE  Steps
  <2> DEFINE q == [pc |-> "hashed", user |-> u, dest |-> p, name |-> n, hash |-> h,
                   from |-> NoUpload]
  <2>1. q \in Request
      BY DEF Request, Uploading, From
  <2>2. OwnDir(p, u)
      BY <1>1, ValidDirFit DEF UploadFile
  <2>3. Captured(q)
      BY <2>2 DEF Captured
  <2>4. Goto(w, q) /\ UNCHANGED tableVars
      BY <1>1 DEF UploadFile
  <2> QED
      BY <2>1, <2>3, <2>4, ReadSteps
<1>2. ASSUME LookupHash(w) PROVE Steps
  <2>1. r \in Uploading
      BY <1>2, RequestType DEF LookupHash, r
  <2> DEFINE q(k) == [pc |-> "lookedUp", user |-> r.user, dest |-> r.dest,
                      name |-> r.name, hash |-> r.hash, key |-> k, from |-> r.from]
  <2>2. \A i \in FilesByHash(r.hash) :
            rows[i].key \in Keys /\ KeyHolds(rows[i].key, r.hash)
      BY RowHolds DEF FilesByHash
  <2>3. PICK k \in Keys \cup {NoBlob} :
            Goto(w, q(k)) /\ (k = NoBlob \/ KeyHolds(k, r.hash))
      BY <1>2, <2>2 DEF LookupHash, r
  <2>4. q(k) \in Request
      BY <2>1 DEF Uploading, Request, LookedUp
  <2>5. OwnDir(r.dest, r.user)
      BY <2>1 DEF Captured, Uploading
  <2>6. Captured(q(k))
      BY <2>3, <2>5 DEF Captured
  <2> QED
      BY <1>2, <2>3, <2>4, <2>6, ReadSteps DEF LookupHash
<1>3. ASSUME StoreBlob(w) PROVE Steps
  <2>1. r \in LookedUp /\ r.pc = "lookedUp"
      BY <1>3, RequestType DEF StoreBlob, r
  <2>2. rows' = rows
      BY <1>3 DEF StoreBlob
  <2>3. RowsStep
      BY <2>2 DEF RowsStep
  <2>4. CASE Finish(w) /\ UNCHANGED disk
      BY <2>3, <2>4, CapturedIdle DEF Steps, DiskStep
  <2>5. CASE ~(Finish(w) /\ UNCHANGED disk)
    <3> DEFINE q(t, k) == [pc |-> "stored", user |-> r.user, dest |-> r.dest,
                           name |-> t.name, hash |-> r.hash, key |-> k,
                           fresh |-> (r.key = NoBlob), old |-> t.old,
                           freed |-> Bytes(t.old), from |-> NoUpload]
    <3>1. PICK t \in Resolved(r.dest, r.user, r.name), k \in Keys :
            /\ Goto(w, q(t, k))
            /\ \/ r.key # NoBlob /\ k = r.key /\ disk' = disk
               \/ disk[k] = NoBlob /\ disk' = [disk EXCEPT ![k] = r.hash]
        BY <1>3, <2>1, <2>5 DEF StoreBlob, r, LookedUp
    <3>2. t.name \in Names /\ t.old \in SUBSET Ids
        BY <2>1 DEF Resolved, FilesByName, FreeNames, LookedUp
    <3>3. q(t, k) \in Request
        BY <2>1, <3>2, BytesType DEF LookedUp, Stored, Request, From
    <3>4. DiskStep
        BY <3>1 DEF DiskStep, TableTypeOK
    <3>5. disk'[k] \in {r.hash, Removed}
        BY <2>1, <3>1 DEF Captured, KeyHolds, TableTypeOK
    <3>6. OwnDir(r.dest, r.user)
        BY <2>1 DEF Captured
    <3>7. PICK z \in Request : z = q(t, k)
        BY <3>3
    <3>8. z.pc = "stored" /\ z.dest = r.dest /\ z.user = r.user /\ z.key = k /\ z.hash = r.hash
        BY <3>7
    <3>9. OwnDir(z.dest, z.user)'
        BY <2>2, <3>6, <3>8 DEF OwnDir, Exists, IsDir
    <3>10. KeyHolds(z.key, z.hash)'
        BY <3>5, <3>8 DEF KeyHolds
    <3>11. Captured(z)'
        BY <3>8, <3>9, <3>10 DEF Captured
    <3> QED
        BY <2>3, <3>1, <3>4, <3>7, <3>11 DEF Steps, ReqStep
  <2> QED
      BY <2>4, <2>5
<1>4. ASSUME CommitUpload(w) PROVE Steps
  <2>1. r \in Stored /\ r.pc = "stored"
      BY <1>4, RequestType DEF CommitUpload, r
  <2>2. Fit(NewRow(r.user, r.dest, r.name, r.hash, r.key))
      BY <2>1 DEF Captured, Stored, Fit, NewRow, Row, RowOf
  <2>3. RowsStep
      BY <1>4, <2>2 DEF CommitUpload, RowsStep, r
  <2>4. DiskStep
      BY <1>4, <2>1 DEF CommitUpload, DiskStep, TableTypeOK, Stored, r
  <2>5. ReqStep
    <3> DEFINE q == [pc |-> "uploaded", from |-> r.from]
    <3>1. CASE Finish(w)
        BY <3>1, CapturedIdle
    <3>2. CASE ~Finish(w)
      <4>1. Goto(w, q) /\ r.from # NoUpload
          BY <1>4, <3>2 DEF CommitUpload, r
      <4>2. q \in Request
          BY <2>1, <4>1 DEF Stored, From, Uploaded, Request
      <4>3. PICK z \in Request : z = q
          BY <4>2
      <4>4. Captured(z)'
          BY <4>3 DEF Captured
      <4> QED
          BY <4>1, <4>3, <4>4 DEF ReqStep
    <3> QED
        BY <3>1, <3>2
  <2> QED
      BY <2>3, <2>4, <2>5 DEF Steps
<1>5. ASSUME FailUpload(w) PROVE Steps
  <2>1. r \in Stored
      BY <1>5, RequestType DEF FailUpload, r
  <2>2. DiskStep
      BY <1>5, <2>1 DEF FailUpload, DiskStep, TableTypeOK, Stored, r
  <2> QED
      BY <1>5, <2>2, CapturedIdle DEF FailUpload, Steps, RowsStep
<1>6. ASSUME LinkDuplicate(w) PROVE Steps
  <2>1. r \in LookedUp /\ r.pc = "lookedUp" /\ r.key # NoBlob /\ r.key \in Keys
      BY <1>6, RequestType DEF LinkDuplicate, LookedUp, r
  <2>2. OwnDir(r.dest, r.user) /\ KeyHolds(r.key, r.hash)
      BY <2>1 DEF Captured
  <2>3. ASSUME NEW t \in Resolved(r.dest, r.user, r.name)
        PROVE  Stores(r, t.name, r.key) \in Request /\ Captured(Stores(r, t.name, r.key))
    <3>1. t.name \in Names
        BY <2>1 DEF Resolved, FreeNames, LookedUp
    <3>2. Stores(r, t.name, r.key) \in Request
        BY <2>1, <3>1 DEF LookedUp, Stores, Stored, Request
    <3> QED
        BY <2>2, <3>2 DEF Stores, Captured
  <2>4. Captured(Idle)
      BY DEF Captured, Idle
  <2>5. UNCHANGED tableVars
      BY <1>6 DEF LinkDuplicate
  <2>6. CASE GotoWithout(w, Idle, r.from)
      BY <2>4, <2>5, <2>6, IdleType, ReadStepsWithout
  <2>7. CASE \E t \in Resolved(r.dest, r.user, r.name) :
                GotoWithout(w, Stores(r, t.name, r.key), r.from)
      BY <2>3, <2>5, <2>7, ReadStepsWithout
  <2> QED
      BY <1>6, <2>6, <2>7 DEF LinkDuplicate, r
<1>7. ASSUME StoreMerged(w) PROVE Steps
  <2>1. r \in LookedUp /\ r.pc = "lookedUp"
      BY <1>7, RequestType DEF StoreMerged, r
  <2>2. PICK k \in Keys :
            disk[k] = NoBlob /\ disk' = [disk EXCEPT ![k] = r.hash] /\ Goto(w, Stores(r, r.name, k))
      BY <1>7 DEF StoreMerged, r
  <2>3. rows' = rows
      BY <1>7 DEF StoreMerged
  <2>4. DiskStep
      BY <2>2 DEF DiskStep, TableTypeOK
  <2>5. PICK z \in Request : z = Stores(r, r.name, k)
      BY <2>1 DEF LookedUp, Stores, Stored, Request
  <2>6. z.pc = "stored" /\ z.dest = r.dest /\ z.user = r.user /\ z.key = k /\ z.hash = r.hash
      BY <2>5 DEF Stores
  <2>7. OwnDir(z.dest, z.user)'
      BY <2>1, <2>3, <2>6 DEF Captured, OwnDir, Exists, IsDir
  <2>8. KeyHolds(z.key, z.hash)'
      BY <2>2, <2>6 DEF KeyHolds, TableTypeOK
  <2>9. Captured(z)'
      BY <2>6, <2>7, <2>8 DEF Captured
  <2> QED
      BY <2>2, <2>3, <2>4, <2>5, <2>9 DEF Steps, RowsStep, ReqStep
<1>8. ASSUME CleanupUploadSession(w) PROVE Steps
  <2>1. Captured(Idle)
      BY DEF Captured, Idle
  <2> QED
      BY <1>8, <2>1, IdleType, ReadStepsWithout DEF CleanupUploadSession
<1> QED
    BY <1>1, <1>2, <1>3, <1>4, <1>5, <1>6, <1>7, <1>8 DEF UploadStep

LEMMA ChunkedSteps ==
    ASSUME IInv, Chunked
    PROVE  Steps
<1>1. PICK s \in Uploads :
        \/ \E u \in Users, p \in Parents, n \in Names : InitUpload(s, u, p, n)
        \/ \E w \in Handlers, h \in Contents : CompleteUpload(w, s, h)
        \/ DropSession(s)
    BY DEF Chunked
<1> s \in Procs /\ Handlers \subseteq Procs
    BY DEF Procs, Workers
<1> TypeOK /\ TableTypeOK
    BY DEF TypeOK, IInv
<1>2. ASSUME NEW u \in Users, NEW p \in Parents, NEW n \in Names, InitUpload(s, u, p, n)
      PROVE  Steps
  <2> DEFINE q == [pc |-> "session", user |-> u, dest |-> p, name |-> n]
  <2>1. q \in Request
      BY DEF Request, Session
  <2>2. OwnDir(p, u)
      BY <1>2, ValidDirFit DEF InitUpload
  <2>3. Captured(q)
      BY <2>2 DEF Captured
  <2> QED
      BY <1>2, <2>1, <2>3, ReadSteps DEF InitUpload
\* What the session holds was validated when it was made.
<1>3. ASSUME NEW w \in Handlers, NEW h \in Contents, CompleteUpload(w, s, h)
      PROVE  Steps
  <2> DEFINE r == req[s]
             q == [pc |-> "hashed", user |-> r.user, dest |-> r.dest, name |-> r.name,
                   hash |-> h, from |-> s]
  <2>1. r \in Session /\ r.pc = "session" /\ Captured(r)
      BY <1>3, RequestType DEF CompleteUpload, TypeOK, IInv
  <2>2. Goto(w, q) /\ UNCHANGED tableVars
      BY <1>3 DEF CompleteUpload
  <2> HIDE DEF r
  <2>3. q \in Request
      BY <2>1 DEF Session, Request, Uploading, From
  <2>4. Captured(q)
      BY <2>1 DEF Captured
  <2> QED
      BY <2>2, <2>3, <2>4, ReadSteps
<1>4. ASSUME DropSession(s) PROVE Steps
    BY <1>4, CapturedIdle DEF DropSession, Steps, RowsStep, DiskStep, tableVars
<1> QED
    BY <1>1, <1>2, <1>3, <1>4

LEMMA TreeSteps ==
    ASSUME IInv, TypeOK', NEW w \in Handlers
    PROVE  /\ \A u \in Users, p \in Parents, n \in Names : CreateDir(w, u, p, n) => Steps
           /\ \A u \in Users, i \in Ids, n \in Names : RenameFile(w, u, i, n) => Steps
           /\ \A u \in Users, i \in Ids, p \in Parents :
                  MoveFile(w, u, i, p) \/ CopyFile(w, u, i, p) => Steps
           /\ \A u \in Users, S \in SUBSET Ids, p \in Parents : BatchMove(w, u, S, p) => Steps
           /\ TreeStep(w) => Steps
<1> w \in Procs
    BY DEF Procs, Workers
<1> DEFINE r == req[w]
<1> TypeOK /\ TableTypeOK /\ r \in Request /\ Captured(r)
    BY DEF TypeOK, IInv
<1> HIDE DEF r
<1>0. ASSUME Finish(w), RowsStep, disk' = disk PROVE Steps
    BY <1>0, CapturedIdle DEF Steps, DiskStep
<1>1. ASSUME NEW u \in Users, NEW p \in Parents, NEW n \in Names, CreateDir(w, u, p, n)
      PROVE  Steps
  <2> DEFINE q == [pc |-> "mkdir", user |-> u, dest |-> p, name |-> n]
  <2>1. q \in Request
      BY DEF Request, Mkdir
  <2>2. OwnDir(p, u)
      BY <1>1, ValidDirFit DEF CreateDir
  <2>3. Captured(q)
      BY <2>2 DEF Captured
  <2> QED
      BY <1>1, <2>1, <2>3, ReadSteps DEF CreateDir
<1>2. ASSUME InsertDir(w) PROVE Steps
  <2>1. r \in Mkdir /\ r.pc = "mkdir"
      BY <1>2, RequestType DEF InsertDir, r
  <2>2. Fit(NewRow(r.user, r.dest, r.name, NoBlob, NoBlob))
      BY <2>1 DEF Captured, Mkdir, Fit, NewRow, Row, RowOf
  <2>3. RowsStep
      BY <1>2, <2>2 DEF InsertDir, RowsStep, r
  <2> QED
      BY <1>0, <1>2, <2>3 DEF InsertDir
<1>3. ASSUME NEW u \in Users, NEW i \in Ids, NEW n \in Names, RenameFile(w, u, i, n)
      PROVE  Steps
  <2> DEFINE q == [pc |-> "rename", id |-> i, name |-> n]
  <2>1. q \in Request
      BY DEF Request, Rename
  <2>2. Captured(q)
      BY DEF Captured
  <2> QED
      BY <1>3, <2>1, <2>2, ReadSteps DEF RenameFile
<1>4. ASSUME CommitRename(w) PROVE Steps
  <2>1. RowsStep
      BY <1>4 DEF CommitRename, RowsStep
  <2> QED
      BY <1>0, <1>4, <2>1 DEF CommitRename
<1>5. ASSUME NEW u \in Users, NEW i \in Ids, NEW p \in Parents, MoveFile(w, u, i, p)
      PROVE  Steps
  <2> DEFINE q == [pc |-> "moveTx", user |-> u, ids |-> {i}, dest |-> p]
  <2>1. q \in Request
      BY DEF Request, Moving
  <2>2. OwnDir(p, u)
      BY <1>5, ValidDirFit DEF MoveFile
  <2>3. Captured(q)
      BY <2>2 DEF Captured
  <2> QED
      BY <1>5, <2>1, <2>3, ReadSteps DEF MoveFile
<1>6. ASSUME NEW u \in Users, NEW S \in SUBSET Ids, NEW p \in Parents, BatchMove(w, u, S, p)
      PROVE  Steps
  <2> DEFINE q == [pc |-> "batchMoveTx", user |-> u, ids |-> S, dest |-> p]
  <2>1. q \in Request
      BY DEF Request, Moving
  <2>2. OwnDir(p, u)
      BY <1>6, ValidDirFit DEF BatchMove
  <2>3. Captured(q)
      BY <2>2 DEF Captured
  <2> QED
      BY <1>6, <2>1, <2>3, ReadSteps DEF BatchMove
<1>7. ASSUME MoveInTx(w) \/ BatchMoveInTx(w) PROVE Steps
  <2>1. r \in Moving
      BY <1>7, RequestType DEF MoveInTx, BatchMoveInTx, r
  <2>2. rows' = rows /\ disk' = disk /\ UNCHANGED tableVars
      BY <1>7 DEF MoveInTx, BatchMoveInTx, tableVars
  <2>3. CASE Finish(w)
      BY <1>0, <2>2, <2>3 DEF RowsStep
  <2>4. CASE ~Finish(w)
    <3> DEFINE q == [r EXCEPT !.pc = "move"]
    <3>1. Goto(w, q) /\ \A i \in r.ids : Owned(i, r.user)
        BY <1>7, <2>4 DEF MoveInTx, BatchMoveInTx, r
    <3>2. q \in Request /\ q.pc = "move" /\ q.ids = r.ids /\ q.dest = r.dest /\ q.user = r.user
        BY <2>1 DEF Moving, Request
    <3>3. OwnDir(r.dest, r.user)
        BY <2>1 DEF Captured, Moving
    <3>4. \A i \in r.ids : rows[i].st # "unused" /\ rows[i].owner = r.user
        BY <3>1 DEF Owned, Exists
    <3> HIDE DEF q
    <3>5. Captured(q)
        BY <3>2, <3>3, <3>4 DEF Captured
    <3> QED
        BY <2>2, <3>1, <3>2, <3>5, ReadSteps
  <2> QED
      BY <2>3, <2>4
<1>8. ASSUME CommitMove(w) PROVE Steps
  <2>1. r \in Moving /\ r.pc = "move"
      BY <1>8, RequestType DEF CommitMove, r
  <2>2. /\ OwnDir(r.dest, r.user) /\ r.dest \in Parents
        /\ \A i \in r.ids : rows[i].st # "unused" /\ (Exists(i) => rows[i].owner = r.user)
      BY <2>1 DEF Captured, Moving
  <2>3. RowsStep
      BY <1>8, <2>2 DEF CommitMove, RowsStep, r
  <2> QED
      BY <1>0, <1>8, <2>3 DEF CommitMove
<1>9. ASSUME NEW u \in Users, NEW i \in Ids, NEW p \in Parents, CopyFile(w, u, i, p)
      PROVE  Steps
  <2> DEFINE q == [pc |-> "copyTx", user |-> u, dest |-> p, name |-> rows[i].name,
                   hash |-> rows[i].hash, key |-> rows[i].key]
  <2>1. /\ rows[i].name \in Names /\ rows[i].hash \in Contents /\ rows[i].key \in Keys
        /\ KeyHolds(rows[i].key, rows[i].hash)
      BY <1>9, RowHolds DEF CopyFile
  <2>2. OwnDir(p, u)
      BY <1>9, ValidDirFit DEF CopyFile
  <2>3. q \in Request
      BY <2>1 DEF Request, Copying
  <2>4. Captured(q)
      BY <2>1, <2>2 DEF Captured
  <2> QED
      BY <1>9, <2>3, <2>4, ReadSteps DEF CopyFile
<1>10. ASSUME CopyInTx(w) PROVE Steps
  <2>1. r \in Copying /\ r.pc = "copyTx"
      BY <1>10, RequestType DEF CopyInTx, r
  <2>2. rows' = rows /\ disk' = disk /\ UNCHANGED tableVars
      BY <1>10 DEF CopyInTx, tableVars
  <2>3. CASE Finish(w)
      BY <1>0, <2>2, <2>3 DEF RowsStep
  <2>4. CASE ~Finish(w)
    <3> DEFINE q(n) == [r EXCEPT !.pc = "copy", !.name = n]
    <3>1. PICK n \in Names : Goto(w, q(n))
        BY <1>10, <2>1, <2>4 DEF CopyInTx, FreeNames, Copying, r
    <3>2. /\ q(n) \in Request /\ q(n).pc = "copy" /\ q(n).dest = r.dest
          /\ q(n).user = r.user /\ q(n).key = r.key /\ q(n).hash = r.hash
        BY <2>1 DEF Copying, Request
    <3>3. OwnDir(r.dest, r.user) /\ KeyHolds(r.key, r.hash)
        BY <2>1 DEF Captured
    <3> HIDE DEF q
    <3>4. Captured(q(n))
        BY <3>2, <3>3 DEF Captured
    <3> QED
        BY <2>2, <3>1, <3>2, <3>4, ReadSteps
  <2> QED
      BY <2>3, <2>4
<1>11. ASSUME CommitCopy(w) PROVE Steps
  <2>1. r \in Copying /\ r.pc = "copy"
      BY <1>11, RequestType DEF CommitCopy, r
  <2>2. Fit(NewRow(r.user, r.dest, r.name, r.hash, r.key))
      BY <2>1 DEF Captured, Copying, Fit, NewRow, Row, RowOf
  <2>3. RowsStep
      BY <1>11, <2>2 DEF CommitCopy, RowsStep, r
  <2> QED
      BY <1>0, <1>11, <2>3 DEF CommitCopy
<1> QED
    BY <1>1, <1>2, <1>3, <1>4, <1>5, <1>6, <1>7, <1>8, <1>9, <1>10, <1>11 DEF TreeStep

LEMMA BinSteps ==
    ASSUME IInv, TypeOK', NEW w \in Handlers
    PROVE  /\ \A u \in Users, i \in Ids :
                  DeleteFile(w, u, i) \/ RestoreFile(w, u, i) \/ PermanentDeleteFile(w, u, i)
                     => Steps
           /\ \A u \in Users, S \in SUBSET Ids : BatchDelete(w, u, S) => Steps
           /\ BinStep(w) => Steps
<1> w \in Procs
    BY DEF Procs, Workers
<1>t. req'[w] \in Request
    BY DEF TypeOK
\* None of these requests captures anything that must stay true.
<1>0. ASSUME NEW q, Goto(w, q), q.pc \in {"delete", "restore", "purge", "sweep", "idle"},
             RowsStep, disk' = disk
      PROVE  Steps
  <2>1. q \in Request
      BY <1>0, <1>t DEF Goto, IInv, TypeOK
  <2>2. Captured(q)'
      BY <1>0 DEF Captured
  <2> QED
      BY <1>0, <2>1, <2>2 DEF Steps, DiskStep, ReqStep
<1>1. ASSUME NEW u \in Users, NEW i \in Ids, DeleteFile(w, u, i) PROVE Steps
    BY <1>0, <1>1 DEF DeleteFile, RowsStep, tableVars
<1>2. ASSUME NEW u \in Users, NEW S \in SUBSET Ids, BatchDelete(w, u, S) PROVE Steps
    BY <1>0, <1>2 DEF BatchDelete, RowsStep, tableVars
<1>3. ASSUME NEW u \in Users, NEW i \in Ids, RestoreFile(w, u, i) PROVE Steps
    BY <1>0, <1>3 DEF RestoreFile, RowsStep, tableVars
<1>4. ASSUME NEW u \in Users, NEW i \in Ids, PermanentDeleteFile(w, u, i) PROVE Steps
    BY <1>0, <1>4 DEF PermanentDeleteFile, RowsStep, tableVars
<1>5. ASSUME CommitDelete(w) \/ CommitRestore(w) PROVE Steps
  <2>1. RowsStep
      BY <1>5 DEF CommitDelete, CommitRestore, RowsStep
  <2> QED
      BY <1>0, <1>5, <2>1 DEF CommitDelete, CommitRestore, Finish, Idle
<1>6. ASSUME CommitPurge(w) PROVE Steps
  <2>1. RowsStep
      BY <1>6 DEF CommitPurge, RowsStep
  <2>2. \A keys, owed : Sweep(keys, owed).pc \in {"sweep", "idle"}
      BY DEF Sweep, Idle
  <2> QED
      BY <1>0, <1>6, <2>1, <2>2 DEF CommitPurge
<1> QED
    BY <1>1, <1>2, <1>3, <1>4, <1>5, <1>6 DEF BinStep

LEMMA JobSteps ==
    ASSUME IInv, TypeOK'
    PROVE  /\ Jobs => Steps
           /\ \A w \in Procs : DeleteBlob(w) \/ ChargeBack(w) \/ Fail(w) => Steps
           /\ Crash => Steps
<1> Cleaner \in Procs /\ Calibrator \in Procs
    BY DEF Procs, Workers
<1>t. \A w \in Procs : req'[w] \in Request
    BY DEF TypeOK
<1>0. ASSUME NEW w \in Procs, NEW q, Goto(w, q),
             q.pc \in {"count", "clean", "sweep", "summed", "calibrate", "idle"},
             RowsStep, DiskStep
      PROVE  Steps
  <2>1. q \in Request
      BY <1>0, <1>t DEF Goto, IInv, TypeOK
  <2>2. Captured(q)'
      BY <1>0 DEF Captured
  <2> QED
      BY <1>0, <2>1, <2>2 DEF Steps, ReqStep
<1>w. \A keys, owed : Sweep(keys, owed).pc \in {"sweep", "idle"}
    BY DEF Sweep, Idle
<1>1. ASSUME NEW E \in SUBSET Ids, AutoCleanRecycle(E) PROVE Steps
    BY <1>0, <1>1 DEF AutoCleanRecycle, RowsStep, DiskStep, tableVars
<1>2. ASSUME CountKeys PROVE Steps
  <2> DEFINE r == req[Cleaner]
  <2>1. r \in Cleaning
      BY <1>2, RequestType DEF CountKeys, IInv, TypeOK
  <2>2. PICK keys \in Unshared(r.keys) : Goto(Cleaner, [r EXCEPT !.pc = "clean", !.keys = keys])
      BY <1>2 DEF CountKeys
  <2>3. [r EXCEPT !.pc = "clean", !.keys = keys].pc = "clean"
      BY <2>1 DEF Cleaning
  <2>4. RowsStep /\ DiskStep
      BY <1>2 DEF CountKeys, RowsStep, DiskStep, tableVars
  <2> QED
      BY <1>0, <2>2, <2>3, <2>4
<1>3. ASSUME CleanRows PROVE Steps
  <2>1. RowsStep /\ DiskStep
      BY <1>3 DEF CleanRows, RowsStep, DiskStep
  <2> QED
      BY <1>0, <1>3, <1>w, <2>1 DEF CleanRows
<1>4. ASSUME NEW u \in Users, Calibrate(u) \/ ReadUsed(u) \/ CorrectUsed(u) PROVE Steps
  <2>1. RowsStep /\ DiskStep
      BY <1>4 DEF Calibrate, ReadUsed, CorrectUsed, RowsStep, DiskStep, tableVars
  <2> QED
      BY <1>0, <1>4, <2>1 DEF Calibrate, ReadUsed, CorrectUsed, Finish, Idle
<1>5. ASSUME NEW w \in Procs, DeleteBlob(w) PROVE Steps
  <2>1. RowsStep /\ DiskStep
      BY <1>5 DEF DeleteBlob, RowsStep, DiskStep, IInv, TypeOK, TableTypeOK
  <2> QED
      BY <1>0, <1>5, <1>w, <2>1 DEF DeleteBlob
<1>6. ASSUME NEW w \in Procs, ChargeBack(w) PROVE Steps
  <2>1. RowsStep /\ DiskStep
      BY <1>6 DEF ChargeBack, RowsStep, DiskStep
  <2> QED
      BY <1>0, <1>6, <1>w, <2>1 DEF ChargeBack
<1>7. ASSUME NEW w \in Procs, Fail(w) PROVE Steps
    BY <1>0, <1>7 DEF Fail, Finish, Idle, RowsStep, DiskStep, tableVars
<1>8. ASSUME Crash PROVE Steps
    BY <1>8 DEF Crash, Steps, RowsStep, DiskStep, ReqStep, tableVars
<1> QED
    BY <1>1, <1>2, <1>3, <1>4, <1>5, <1>6, <1>7, <1>8 DEF Jobs

LEMMA NextSteps ==
    ASSUME IInv, [Next]_vars
    PROVE  TypeOK' /\ Steps
<1>1. TypeOK'
    BY NextType DEF IInv
<1>2. CASE UNCHANGED vars
    BY <1>1, <1>2 DEF vars, Steps, RowsStep, DiskStep, ReqStep
<1>3. ASSUME NEW w \in Handlers, NEW u \in Users, Start(w, u) PROVE Steps
    BY <1>1, <1>3, UploadSteps, TreeSteps, BinSteps DEF Start
<1>4. ASSUME NEW w \in Handlers, UploadStep(w) \/ TreeStep(w) \/ BinStep(w) PROVE Steps
    BY <1>1, <1>4, UploadSteps, TreeSteps, BinSteps
<1> QED
    BY <1>1, <1>2, <1>3, <1>4, ChunkedSteps, JobSteps DEF Next

LEMMA IInvStep == IInv /\ [Next]_vars => IInv'
<1> SUFFICES ASSUME IInv, [Next]_vars PROVE IInv'
    OBVIOUS
<1>1. TypeOK /\ TableTypeOK /\ RowsFit
    BY DEF IInv, TypeOK, RowsFit
<1>2. TypeOK' /\ Steps
    BY NextSteps
<1>3. RowsFit'
    BY <1>1, <1>2, RowsFitKept DEF Steps
<1>4. RowsKept /\ DiskStep
    BY <1>1, <1>2, RowsStepKeeps DEF Steps
<1>5. ASSUME NEW v \in Procs PROVE Captured(req[v])'
  <2>1. PICK old \in Request : old = req[v]
      BY <1>1 DEF TypeOK
  <2>2. Captured(old)'
      BY <1>1, <1>4, <2>1, CapturedKept DEF IInv
  <2>3. CASE req'[v] = req[v]
      BY <2>1, <2>2, <2>3 DEF Captured
  <2>4. ASSUME NEW r \in Request, Captured(r)', req'[v] = r
        PROVE  Captured(req[v])'
      BY <2>4 DEF Captured
  <2>5. Captured(Idle)'
      BY DEF Captured, Idle
  <2>6. CASE req' = [w \in Procs |-> IF w \in Uploads THEN req[w] ELSE Idle]
      BY <2>3, <2>4, <2>5, <2>6, IdleType
  <2>8. CASE \E w \in Procs : \E r \in Request : \E s : GotoWithout(w, r, s) /\ Captured(r)'
      BY <2>3, <2>4, <2>5, <2>8, IdleType DEF GotoWithout
  <2>7. CASE \E w \in Procs : \E r \in Request : Goto(w, r) /\ Captured(r)'
      BY <1>1, <2>3, <2>4, <2>7 DEF Goto, TypeOK
  <2> QED
      BY <1>2, <2>3, <2>6, <2>7, <2>8 DEF Steps, ReqStep
<1> QED
    BY <1>2, <1>3, <1>5 DEF IInv, RowsFit

LEMMA IInvInit == Init => IInv
<1> SUFFICES ASSUME Init PROVE IInv
    OBVIOUS
<1>1. TypeOK
    BY IdleType DEF Init, TableInit, TypeOK, TableTypeOK, NoRow
<1>2. \A i \in Ids : ~Exists(i)
    BY DEF Init, TableInit, Exists
<1>3. \A w \in Procs : Captured(req[w])
    BY DEF Init, Captured, Idle
<1> QED
    BY <1>1, <1>2, <1>3 DEF IInv

\* The inductive invariant holds of every behaviour.
THEOREM Inductive == Spec => []IInv
BY IInvInit, IInvStep, PTL DEF Spec

\* No interleaving of requests, jobs, failures and crashes puts a row of one
\* user below a row of another, or below a file: a directory validated long
\* ago can be deleted or purged before the insert or the move that relies on
\* it, but its id never comes back as something else.
THEOREM TenantsIsolated == Spec => []TenantIsolation
<1>1. IInv => TenantIsolation
    BY DEF IInv, TenantIsolation, OwnDir
<1> QED
    BY <1>1, Inductive, PTL

\* A deduplicated upload or a copy never reads other bytes than its own: the
\* key it captured still names that content when its row is committed, or
\* names nothing any more.
THEOREM DedupIsSound == Spec => []DedupSound
<1>1. IInv => DedupSound
    BY DEF IInv, DedupSound, KeyHolds
<1> QED
    BY <1>1, Inductive, PTL

\* Ids are used once, and the owner, key and content of a row never change
\* between its insert and its purge.
THEOREM RowsKeepIdentity == Spec => [][RowsKept]_vars
<1>1. IInv /\ [Next]_vars => RowsKept
    BY NextSteps, RowsStepKeeps DEF IInv, TypeOK, Steps
<1> QED
    BY <1>1, Inductive, PTL DEF Spec
=============================================================================
