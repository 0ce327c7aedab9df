-------------------------- MODULE FileSerialProofs --------------------------
(***************************************************************************)
(* What holds of the file service while requests and jobs run one at a     *)
(* time (MaxActive = 1), for every number of users, rows, keys and         *)
(* handlers, with crashes between any two steps.  A statement about the    *)
(* blobs or the trees also assumes that no statement of the database fails *)
(* (~Failures); one about names or trees that an upload never replaces a   *)
(* file (ConflictMode # "overwrite").  The hypotheses stand in each        *)
(* theorem.                                                                *)
(***************************************************************************)
EXTENDS FileServiceProofs

-----------------------------------------------------------------------------
(* Turns: with one request at a time, a step belongs to one worker, and    *)
(* where the request goes tells which action it was.                       *)

\* Sessions come and go, requests end: the tables stay.
Quiet ==
    /\ UNCHANGED tableVars
    /\ \A v \in Workers : req'[v] = req[v] \/ req'[v] = Idle
    /\ \A s \in Uploads : req'[s].pc \in {"idle", "session"}

\* w takes up a request or goes on with its own.
Goes(w) ==
    /\ CanStart(w) \/ req[w] # Idle
    /\ Goto(w, req'[w]) \/ \E s \in Uploads : GotoWithout(w, req'[w], s)

\* The actions that lead to each kind of request.
Origin(w) ==
    LET pc == req'[w].pc
    IN  /\ pc = "hashed" =>
              \/ \E u \in Users, p \in Parents, n \in Names, h \in Contents :
                    UploadFile(w, u, p, n, h)
              \/ \E s \in Uploads, h \in Contents : CompleteUpload(w, s, h)
        /\ pc = "lookedUp" => LookupHash(w)
        /\ pc = "stored" => StoreBlob(w) \/ LinkDuplicate(w) \/ StoreMerged(w)
        /\ pc = "mkdir" => \E u \in Users, p \in Parents, n \in Names : CreateDir(w, u, p, n)
        /\ pc = "rename" => \E u \in Users, i \in Ids, n \in Names : RenameFile(w, u, i, n)
        /\ pc = "moveTx" => \E u \in Users, i \in Ids, p \in Parents : MoveFile(w, u, i, p)
        /\ pc = "batchMoveTx" =>
              \E u \in Users, S \in SUBSET Ids, p \in Parents : BatchMove(w, u, S, p)
        /\ pc = "move" => MoveInTx(w) \/ BatchMoveInTx(w)
        /\ pc = "copyTx" => \E u \in Users, i \in Ids, p \in Parents : CopyFile(w, u, i, p)
        /\ pc = "copy" => CopyInTx(w)
        /\ pc = "delete" =>
              \/ \E u \in Users, i \in Ids : DeleteFile(w, u, i)
              \/ \E u \in Users, S \in SUBSET Ids : BatchDelete(w, u, S)
        /\ pc = "restore" => \E u \in Users, i \in Ids : RestoreFile(w, u, i)
        /\ pc = "purge" => \E u \in Users, i \in Ids : PermanentDeleteFile(w, u, i)
        /\ pc = "count" => w = Cleaner /\ \E S \in SUBSET Ids : AutoCleanRecycle(S)
        /\ pc = "clean" => w = Cleaner /\ CountKeys
        /\ pc = "sweep" =>
              \/ CommitPurge(w) \/ DeleteBlob(w) \/ ChargeBack(w)
              \/ w = Cleaner /\ CleanRows
        /\ pc = "summed" => w = Calibrator /\ \E u \in Users : Calibrate(u)
        /\ pc = "calibrate" => w = Calibrator /\ \E u \in Users : ReadUsed(u)

\* The actions that write each table.
Writer(w) ==
    /\ \/ rows' = rows
       \/ w \in Handlers /\ \/ CommitUpload(w) \/ InsertDir(w) \/ CommitRename(w)
                            \/ CommitMove(w) \/ CommitCopy(w)
                            \/ CommitDelete(w) \/ CommitRestore(w) \/ CommitPurge(w)
       \/ w = Cleaner /\ CleanRows
    /\ \/ disk' = disk
       \/ StoreBlob(w) \/ StoreMerged(w) \/ CommitUpload(w) \/ FailUpload(w) \/ DeleteBlob(w)
    /\ \/ used' = used
       \/ CommitUpload(w) \/ CommitCopy(w) \/ CommitDelete(w) \/ CommitRestore(w)
       \/ ChargeBack(w)
       \/ w = Calibrator /\ \E u \in Users : CorrectUsed(u)

Turn(w) == Goes(w) /\ Origin(w) /\ Writer(w)

LEMMA GotoReaches ==
    ASSUME TypeOK, NEW w \in Procs, NEW q
    PROVE  /\ Goto(w, q) => req'[w] = q /\ Goto(w, req'[w])
           /\ \A s : GotoWithout(w, q, s) => req'[w] = q /\ GotoWithout(w, req'[w], s)
BY DEF TypeOK, Goto, GotoWithout

LEMMA UploadTurns ==
    ASSUME TypeOK, NEW w \in Handlers
    PROVE  /\ \A u \in Users, p \in Parents, n \in Names, h \in Contents :
                  UploadFile(w, u, p, n, h) => Turn(w)
           /\ \A s \in Uploads, h \in Contents : CompleteUpload(w, s, h) => Turn(w)
           /\ UploadStep(w) => Turn(w)
<1> w \in Procs
    BY DEF Procs, Workers
<1> USE DEF Turn, Goes, Origin, Writer, tableVars
<1>1. ASSUME NEW u \in Users, NEW p \in Parents, NEW n \in Names, NEW h \in Contents,
             UploadFile(w, u, p, n, h)
      PROVE  Turn(w)
    BY <1>1, GotoReaches DEF UploadFile, CanGrow
<1>2. ASSUME NEW s \in Uploads, NEW h \in Contents, CompleteUpload(w, s, h)
      PROVE  Turn(w)
    BY <1>2, GotoReaches DEF CompleteUpload, CanGrow
<1>3. ASSUME LookupHash(w) PROVE Turn(w)
  <2>1. PICK k : Goto(w, [pc |-> "lookedUp", user |-> req[w].user, dest |-> req[w].dest,
                          name |-> req[w].name, hash |-> req[w].hash, key |-> k,
                          from |-> req[w].from])
      BY <1>3 DEF LookupHash
  <2>2. Goto(w, req'[w]) /\ req'[w].pc = "lookedUp"
      BY <2>1, GotoReaches
  <2>3. req[w] # Idle /\ UNCHANGED tableVars
      BY <1>3 DEF LookupHash, Idle
  <2> QED
      BY <1>3, <2>2, <2>3
<1>4. ASSUME StoreBlob(w) PROVE Turn(w)
  <2>1. rows' = rows /\ used' = used /\ req[w] # Idle
      BY <1>4 DEF StoreBlob, Idle
  <2>2. CASE Finish(w)
      BY <1>4, <2>1, <2>2, GotoReaches DEF Finish, Idle
  <2>3. CASE ~Finish(w)
    <3> DEFINE r == req[w]
               next(t, k) == [pc |-> "stored", user |-> r.user, dest |-> r.dest,
                              name |-> t.name, hash |-> r.hash, key |-> k,
                              fresh |-> (r.key = NoBlob), old |-> t.old,
                              freed |-> Bytes(t.old), from |-> NoUpload]
    <3>1. PICK t, k : Goto(w, next(t, k))
        BY <1>4, <2>3 DEF StoreBlob
    <3>2. next(t, k).pc = "stored"
        OBVIOUS
    <3> HIDE DEF next
    <3>3. Goto(w, req'[w]) /\ req'[w].pc = "stored"
        BY <3>1, <3>2, GotoReaches
    <3> QED
        BY <1>4, <2>1, <3>3
  <2> QED
      BY <2>2, <2>3
<1>5. ASSUME CommitUpload(w) PROVE Turn(w)
  <2>1. PICK q : Goto(w, q) /\ q.pc \in {"uploaded", "idle"}
      BY <1>5 DEF CommitUpload, Idle, Finish
  <2>2. Goto(w, req'[w]) /\ req'[w].pc \in {"uploaded", "idle"}
      BY <2>1, GotoReaches
  <2>3. req[w] # Idle
      BY <1>5 DEF CommitUpload, Idle
  <2> QED
      BY <1>5, <2>2, <2>3
<1>6. ASSUME FailUpload(w) PROVE Turn(w)
    BY <1>6, GotoReaches DEF FailUpload, Idle, Finish
<1>7. ASSUME LinkDuplicate(w) PROVE Turn(w)
  <2>1. req[w].from \in Uploads
      BY <1>7, RequestType DEF LinkDuplicate, LookedUp, From, TypeOK
  <2>2. PICK q : GotoWithout(w, q, req[w].from) /\ q.pc \in {"stored", "idle"}
    <3>1. Idle.pc = "idle" /\ \A n, k : Stores(req[w], n, k).pc = "stored"
        BY DEF Stores, Idle
    <3> QED
        BY <1>7, <3>1 DEF LinkDuplicate
  <2>3. GotoWithout(w, req'[w], req[w].from) /\ req'[w].pc \in {"stored", "idle"}
      BY <2>2, GotoReaches
  <2> QED
      BY <1>7, <2>1, <2>2, <2>3 DEF LinkDuplicate, Idle
<1>8. ASSUME StoreMerged(w) PROVE Turn(w)
  <2>1. PICK q : Goto(w, q) /\ q.pc = "stored"
    <3>1. \A n, k : Stores(req[w], n, k).pc = "stored"
        BY DEF Stores
    <3> QED
        BY <1>8, <3>1 DEF StoreMerged
  <2>2. req[w] # Idle /\ rows' = rows /\ used' = used
      BY <1>8 DEF StoreMerged, Idle
  <2> QED
      BY <1>8, <2>1, <2>2, GotoReaches
<1>9. ASSUME CleanupUploadSession(w) PROVE Turn(w)
  <2>1. req[w].from \in Uploads
      BY <1>9, RequestType DEF CleanupUploadSession, Uploaded, TypeOK
  <2> QED
      BY <1>9, <2>1, GotoReaches DEF CleanupUploadSession, Idle
<1> QED
    BY <1>1, <1>2, <1>3, <1>4, <1>5, <1>6, <1>7, <1>8, <1>9 DEF UploadStep

LEMMA TreeTurns ==
    ASSUME TypeOK, NEW w \in Handlers
    PROVE  /\ \A u \in Users, p \in Parents, n \in Names : CreateDir(w, u, p, n) => Turn(w)
           /\ \A u \in Users, i \in Ids, n \in Names : RenameFile(w, u, i, n) => Turn(w)
           /\ \A u \in Users, i \in Ids, p \in Parents :
                  MoveFile(w, u, i, p) \/ CopyFile(w, u, i, p) => Turn(w)
           /\ \A u \in Users, S \in SUBSET Ids, p \in Parents : BatchMove(w, u, S, p) => Turn(w)
           /\ TreeStep(w) => Turn(w)
<1> w \in Procs
    BY DEF Procs, Workers
<1> USE DEF Turn, Goes, Origin, Writer, tableVars
<1>1. ASSUME NEW u \in Users, NEW p \in Parents, NEW n \in Names, CreateDir(w, u, p, n)
      PROVE  Turn(w)
    BY <1>1, GotoReaches DEF CreateDir
<1>2. ASSUME NEW u \in Users, NEW i \in Ids, NEW n \in Names, RenameFile(w, u, i, n)
      PROVE  Turn(w)
    BY <1>2, GotoReaches DEF RenameFile
<1>3. ASSUME NEW u \in Users, NEW i \in Ids, NEW p \in Parents, MoveFile(w, u, i, p)
      PROVE  Turn(w)
  <2>1. req'[w] = [pc |-> "moveTx", user |-> u, ids |-> {i}, dest |-> p]
      BY <1>3, GotoReaches DEF MoveFile
  <2>2. Goto(w, req'[w]) /\ CanStart(w) /\ UNCHANGED tableVars
      BY <1>3, GotoReaches DEF MoveFile
  <2>3. req'[w].pc = "moveTx"
      BY <2>1
  <2> QED
      BY <1>3, <2>2, <2>3
<1>4. ASSUME NEW u \in Users, NEW i \in Ids, NEW p \in Parents, CopyFile(w, u, i, p)
      PROVE  Turn(w)
    BY <1>4, GotoReaches DEF CopyFile, CanGrow
<1>5. ASSUME NEW u \in Users, NEW S \in SUBSET Ids, NEW p \in Parents, BatchMove(w, u, S, p)
      PROVE  Turn(w)
    BY <1>5, GotoReaches DEF BatchMove
<1>6. ASSUME InsertDir(w) PROVE Turn(w)
    BY <1>6, GotoReaches DEF InsertDir, Finish, Idle
<1>7. ASSUME CommitRename(w) PROVE Turn(w)
    BY <1>7, GotoReaches DEF CommitRename, Finish, Idle
<1>8. ASSUME MoveInTx(w) \/ BatchMoveInTx(w) PROVE Turn(w)
  <2>1. req[w] \in Moving /\ req[w] # Idle
      BY <1>8, RequestType DEF MoveInTx, BatchMoveInTx, Idle, TypeOK
  <2>2. PICK q : Goto(w, q) /\ q.pc \in {"move", "idle"}
    <3>1. [req[w] EXCEPT !.pc = "move"].pc = "move" /\ Idle.pc = "idle"
        BY <2>1 DEF Moving, Idle
    <3>2. Goto(w, [req[w] EXCEPT !.pc = "move"]) \/ Goto(w, Idle)
        BY <1>8 DEF MoveInTx, BatchMoveInTx, Finish
    <3> QED
        BY <3>1, <3>2
  <2>3. UNCHANGED tableVars
      BY <1>8 DEF MoveInTx, BatchMoveInTx
  <2> QED
      BY <1>8, <2>1, <2>2, <2>3, GotoReaches
<1>9. ASSUME CommitMove(w) PROVE Turn(w)
    BY <1>9, GotoReaches DEF CommitMove, Finish, Idle
<1>10. ASSUME CopyInTx(w) PROVE Turn(w)
  <2>1. req[w].pc = "copyTx" /\ UNCHANGED tableVars
      BY <1>10 DEF CopyInTx
  <2>2. req[w] \in Copying /\ req[w] # Idle
      BY <2>1, RequestType DEF Idle, TypeOK
  <2>3. (\E n : Goto(w, [req[w] EXCEPT !.pc = "copy", !.name = n])) \/ Goto(w, Idle)
      BY <1>10 DEF CopyInTx, Finish
  <2>4. PICK q : Goto(w, q) /\ q.pc \in {"copy", "idle"}
    <3>1. ASSUME NEW n PROVE [req[w] EXCEPT !.pc = "copy", !.name = n].pc = "copy"
        BY <2>2 DEF Copying
    <3>2. CASE Goto(w, Idle)
        BY <3>2 DEF Idle
    <3>3. CASE \E n : Goto(w, [req[w] EXCEPT !.pc = "copy", !.name = n])
      <4>1. PICK n : Goto(w, [req[w] EXCEPT !.pc = "copy", !.name = n])
          BY <3>3, Zenon
      <4> QED
          BY <3>1, <4>1, Zenon
    <3> QED
        BY <2>3, <3>2, <3>3, Zenon
  <2> QED
      BY <1>10, <2>1, <2>2, <2>4, GotoReaches
<1>11. ASSUME CommitCopy(w) PROVE Turn(w)
    BY <1>11, GotoReaches DEF CommitCopy, Finish, Idle
<1> QED
    BY <1>1, <1>2, <1>3, <1>4, <1>5, <1>6, <1>7, <1>8, <1>9, <1>10, <1>11 DEF TreeStep

LEMMA BinTurns ==
    ASSUME TypeOK, NEW w \in Handlers
    PROVE  /\ \A u \in Users, i \in Ids :
                  DeleteFile(w, u, i) \/ RestoreFile(w, u, i) \/ PermanentDeleteFile(w, u, i)
                     => Turn(w)
           /\ \A u \in Users, S \in SUBSET Ids : BatchDelete(w, u, S) => Turn(w)
           /\ BinStep(w) => Turn(w)
<1> w \in Procs
    BY DEF Procs, Workers
<1> USE DEF Turn, Goes, Origin, Writer, tableVars
<1>1. ASSUME NEW u \in Users, NEW i \in Ids, DeleteFile(w, u, i) PROVE Turn(w)
  <2>1. PICK q : Goto(w, q) /\ q.pc = "delete" /\ CanStart(w) /\ UNCHANGED tableVars
      BY <1>1 DEF DeleteFile
  <2> QED
      BY <1>1, <2>1, GotoReaches
<1>2. ASSUME NEW u \in Users, NEW i \in Ids, RestoreFile(w, u, i) PROVE Turn(w)
  <2>1. PICK q : Goto(w, q) /\ q.pc = "restore" /\ CanStart(w) /\ UNCHANGED tableVars
      BY <1>2 DEF RestoreFile, CanGrow
  <2> QED
      BY <1>2, <2>1, GotoReaches
<1>3. ASSUME NEW u \in Users, NEW i \in Ids, PermanentDeleteFile(w, u, i) PROVE Turn(w)
  <2>1. PICK q : Goto(w, q) /\ q.pc = "purge" /\ CanStart(w) /\ UNCHANGED tableVars
      BY <1>3 DEF PermanentDeleteFile
  <2> QED
      BY <1>3, <2>1, GotoReaches
<1>4. ASSUME NEW u \in Users, NEW S \in SUBSET Ids, BatchDelete(w, u, S) PROVE Turn(w)
  <2>1. PICK q : Goto(w, q) /\ q.pc = "delete" /\ CanStart(w) /\ UNCHANGED tableVars
      BY <1>4 DEF BatchDelete
  <2> QED
      BY <1>4, <2>1, GotoReaches
<1>5. ASSUME CommitDelete(w) \/ CommitRestore(w) PROVE Turn(w)
    BY <1>5, GotoReaches DEF CommitDelete, CommitRestore, Finish, Idle
<1>6. ASSUME CommitPurge(w) PROVE Turn(w)
  <2>1. PICK keys, owed : Goto(w, Sweep(keys, owed))
      BY <1>6 DEF CommitPurge
  <2>2. Sweep(keys, owed).pc \in {"sweep", "idle"}
      BY DEF Sweep, Idle
  <2>3. req[w] # Idle /\ disk' = disk /\ used' = used
      BY <1>6 DEF CommitPurge, Idle
  <2> QED
      BY <1>6, <2>1, <2>2, <2>3, GotoReaches
<1> QED
    BY <1>1, <1>2, <1>3, <1>4, <1>5, <1>6 DEF BinStep

LEMMA JobTurns ==
    ASSUME TypeOK
    PROVE  /\ \A S \in SUBSET Ids : AutoCleanRecycle(S) => Turn(Cleaner)
           /\ CountKeys \/ CleanRows => Turn(Cleaner)
           /\ \A u \in Users :
                  Calibrate(u) \/ ReadUsed(u) \/ CorrectUsed(u) => Turn(Calibrator)
           /\ \A w \in Workers : DeleteBlob(w) \/ ChargeBack(w) \/ Fail(w) => Turn(w)
<1> Cleaner \in Procs /\ Calibrator \in Procs /\ Workers \subseteq Procs
    BY DEF Procs, Workers
<1> USE DEF Turn, Goes, Origin, Writer, tableVars
<1>w. \A keys, owed : Sweep(keys, owed).pc \in {"sweep", "idle"}
    BY DEF Sweep, Idle
<1>1. ASSUME NEW S \in SUBSET Ids, AutoCleanRecycle(S) PROVE Turn(Cleaner)
  <2>1. PICK q : Goto(Cleaner, q) /\ q.pc = "count" /\ CanStart(Cleaner) /\ UNCHANGED tableVars
      BY <1>1 DEF AutoCleanRecycle
  <2> QED
      BY <1>1, <2>1, GotoReaches
<1>2. ASSUME CountKeys PROVE Turn(Cleaner)
  <2>1. req[Cleaner] \in Cleaning /\ req[Cleaner] # Idle /\ UNCHANGED tableVars
      BY <1>2, RequestType DEF CountKeys, Idle, TypeOK
  <2>2. PICK keys : Goto(Cleaner, [req[Cleaner] EXCEPT !.pc = "clean", !.keys = keys])
      BY <1>2 DEF CountKeys
  <2>3. [req[Cleaner] EXCEPT !.pc = "clean", !.keys = keys].pc = "clean"
      BY <2>1 DEF Cleaning
  <2> QED
      BY <1>2, <2>1, <2>2, <2>3, GotoReaches
<1>3. ASSUME CleanRows PROVE Turn(Cleaner)
  <2>1. PICK keys, owed : Goto(Cleaner, Sweep(keys, owed))
      BY <1>3 DEF CleanRows
  <2>2. req[Cleaner] # Idle /\ disk' = disk /\ used' = used
      BY <1>3 DEF CleanRows, Idle
  <2> QED
      BY <1>3, <1>w, <2>1, <2>2, GotoReaches
<1>4. ASSUME NEW u \in Users, Calibrate(u) PROVE Turn(Calibrator)
    BY <1>4, GotoReaches DEF Calibrate
<1>5. ASSUME NEW u \in Users, ReadUsed(u) PROVE Turn(Calibrator)
    BY <1>5, GotoReaches DEF ReadUsed, Idle
<1>6. ASSUME NEW u \in Users, CorrectUsed(u) PROVE Turn(Calibrator)
    BY <1>6, GotoReaches DEF CorrectUsed, Finish, Idle
<1>7. ASSUME NEW w \in Workers, DeleteBlob(w) PROVE Turn(w)
  <2>1. PICK keys, owed : Goto(w, Sweep(keys, owed))
      BY <1>7 DEF DeleteBlob
  <2>2. req[w] # Idle /\ rows' = rows /\ used' = used
      BY <1>7 DEF DeleteBlob, Idle
  <2> QED
      BY <1>7, <1>w, <2>1, <2>2, GotoReaches
<1>8. ASSUME NEW w \in Workers, ChargeBack(w) PROVE Turn(w)
  <2>1. PICK keys, owed : Goto(w, Sweep(keys, owed))
      BY <1>8 DEF ChargeBack
  <2>2. req[w] # Idle /\ rows' = rows /\ disk' = disk
      BY <1>8 DEF ChargeBack, Idle
  <2> QED
      BY <1>8, <1>w, <2>1, <2>2, GotoReaches
<1>9. ASSUME NEW w \in Workers, Fail(w) PROVE Turn(w)
    BY <1>9, GotoReaches DEF Fail, Finish, Idle
<1> QED
    BY <1>1, <1>2, <1>3, <1>4, <1>5, <1>6, <1>7, <1>8, <1>9

\* A request starts only when nothing else runs.
LEMMA StartsAlone ==
    ASSUME MaxActive = 1, OneAtATime, NEW w \in Workers, CanStart(w)
    PROVE  \A v \in Workers : req[v] = Idle
<1> SUFFICES ASSUME NEW v \in Workers, req[v] # Idle PROVE FALSE
    OBVIOUS
<1>1. {x \in Workers : req[x] # Idle} = {v}
    BY DEF OneAtATime
<1>2. Cardinality({v}) = 1
    BY FS_Singleton
<1> QED
    BY <1>1, <1>2 DEF CanStart

LEMMA TurnAlone ==
    ASSUME MaxActive = 1, TypeOK, OneAtATime, NEW w \in Workers, Goes(w)
    PROVE  OneAtATime' /\ \A v \in Workers \ {w} : req'[v] = Idle
<1>1. \A v \in Workers \ {w} : req[v] = Idle
    BY StartsAlone DEF Goes, OneAtATime
<1>2. \A v \in Procs \ {w} : req'[v] = req[v] \/ req'[v] = Idle
    BY DEF Goes, Goto, GotoWithout, TypeOK
<1>3. Workers \subseteq Procs /\ Uploads \subseteq Procs /\ w \notin Uploads
    BY ServiceAssumption DEF Procs, Workers, ServiceAssumption
<1>4. \A v \in Workers \ {w} : req'[v] = Idle
    BY <1>1, <1>2, <1>3
<1>5. ASSUME NEW s \in Uploads PROVE req'[s].pc \in {"idle", "session"}
  <2>1. req[s].pc \in {"idle", "session"} /\ (req'[s] = req[s] \/ req'[s] = Idle)
      BY <1>2, <1>3 DEF OneAtATime
  <2> QED
      BY <2>1 DEF Idle
<1> QED
    BY <1>4, <1>5 DEF OneAtATime

\* Every step is quiet or the turn of one worker, while all others are idle.
LEMMA SerialStep ==
    ASSUME MaxActive = 1, TypeOK, OneAtATime, [Next]_vars
    PROVE  /\ OneAtATime'
           /\ \/ Quiet
              \/ \E w \in Workers : Turn(w) /\ \A v \in Workers \ {w} : req'[v] = Idle
<1> DEFINE Done == \/ Quiet
                   \/ \E w \in Workers : Turn(w)
<1> Handlers \subseteq Workers /\ Cleaner \in Workers /\ Calibrator \in Workers
    BY DEF Workers
<1> USE DEF Quiet
<1>1. CASE UNCHANGED vars
    BY <1>1 DEF vars, tableVars, OneAtATime
<1>2. ASSUME NEW w \in Handlers, NEW u \in Users, Start(w, u) PROVE Done
    BY <1>2, UploadTurns, TreeTurns, BinTurns DEF Start
<1>3. ASSUME NEW w \in Handlers, UploadStep(w) \/ TreeStep(w) \/ BinStep(w) PROVE Done
    BY <1>3, UploadTurns, TreeTurns, BinTurns
<1>4. ASSUME NEW s \in Uploads, NEW u \in Users, NEW p \in Parents, NEW n \in Names,
             InitUpload(s, u, p, n)
      PROVE  Quiet
  <2>1. s \notin Workers /\ Workers \subseteq Procs /\ Uploads \subseteq Procs
      BY ServiceAssumption DEF Procs, Workers, ServiceAssumption
  <2>2. PICK q : Goto(s, q) /\ q.pc = "session" /\ UNCHANGED tableVars
      BY <1>4 DEF InitUpload
  <2> QED
      BY <2>1, <2>2 DEF Goto, TypeOK, OneAtATime
<1>5. ASSUME NEW s \in Uploads, DropSession(s) PROVE Quiet
  <2>1. s \notin Workers /\ Workers \subseteq Procs /\ Uploads \subseteq Procs
      BY ServiceAssumption DEF Procs, Workers, ServiceAssumption
  <2>2. PICK q : Goto(s, q) /\ q.pc = "idle" /\ UNCHANGED tableVars
      BY <1>5 DEF DropSession, Finish, Idle
  <2> QED
      BY <2>1, <2>2 DEF Goto, TypeOK, OneAtATime
<1>6. ASSUME NEW s \in Uploads, NEW w \in Handlers, NEW h \in Contents, CompleteUpload(w, s, h)
      PROVE  Done
    BY <1>6, UploadTurns
<1>7. ASSUME Jobs PROVE Done
    BY <1>7, JobTurns DEF Jobs
<1>8. ASSUME NEW w \in Procs, DeleteBlob(w) \/ ChargeBack(w) \/ Fail(w) PROVE Done
  <2>1. w \in Workers
      BY <1>8 DEF DeleteBlob, ChargeBack, Fail, OneAtATime, Procs
  <2> QED
      BY <1>8, <2>1, JobTurns
<1>9. ASSUME Crash PROVE Quiet
    BY <1>9, ServiceAssumption DEF Crash, OneAtATime, Procs, Workers, ServiceAssumption
<1>10. Done
    BY <1>1, <1>2, <1>3, <1>4, <1>5, <1>6, <1>7, <1>8, <1>9 DEF Next, Chunked
<1> HIDE DEF Done
<1>11. CASE Quiet
  <2>1. OneAtATime'
      BY <1>11 DEF OneAtATime
  <2> QED
      BY <1>11, <2>1
<1>12. ASSUME NEW w \in Workers, Turn(w)
       PROVE  OneAtATime' /\ \A v \in Workers \ {w} : req'[v] = Idle
    BY <1>12, TurnAlone DEF Turn
<1> QED
    BY <1>10, <1>11, <1>12 DEF Done

-----------------------------------------------------------------------------
(* The columns each statement writes *)

KeepsFile(j) ==
    rows'[j].owner = rows[j].owner /\ rows'[j].hash = rows[j].hash /\ rows'[j].key = rows[j].key

KeepsPlace(j) == rows'[j].parent = rows[j].parent /\ rows'[j].name = rows[j].name

LEMMA SoftDeletedColumns ==
    ASSUME TableTypeOK, NEW S, NEW j \in Ids, rows'[j] = SoftDeleted(S)[j]
    PROVE  /\ Exists(j)' <=> Exists(j)
           /\ Live(j)' <=> Live(j) /\ j \notin S
           /\ Deleted(j)' <=> Deleted(j) \/ (Exists(j) /\ j \in S)
           /\ Exists(j) => KeepsFile(j) /\ KeepsPlace(j)
           /\ ~Exists(j) => rows'[j] = rows[j]
<1>1. CASE Exists(j) /\ j \in S
  <2>1. rows'[j] = [rows[j] EXCEPT !.st = "deleted"]
      BY <1>1 DEF SoftDeleted, Marked
  <2>2. /\ rows'[j].st = "deleted"
        /\ rows'[j].owner = rows[j].owner /\ rows'[j].hash = rows[j].hash
        /\ rows'[j].key = rows[j].key /\ rows'[j].parent = rows[j].parent
        /\ rows'[j].name = rows[j].name
      BY <1>1, <2>1, RowType DEF Row, RowOf
  <2> QED
      BY <1>1, <2>2 DEF Exists, Live, Deleted, KeepsFile, KeepsPlace
<1>2. CASE ~(Exists(j) /\ j \in S)
    BY <1>2 DEF SoftDeleted, Marked, Exists, Live, Deleted, KeepsFile, KeepsPlace
<1> QED
    BY <1>1, <1>2

LEMMA RestoredColumns ==
    ASSUME TableTypeOK, NEW S, NEW lifted, NEW j \in Ids, rows' = Restored(S, lifted)
    PROVE  /\ Exists(j)' <=> Exists(j)
           /\ Live(j)' <=> Live(j) \/ (Exists(j) /\ j \in S)
           /\ Deleted(j)' <=> Deleted(j) /\ j \notin S
           /\ Exists(j) => KeepsFile(j) /\ rows'[j].name = rows[j].name
           /\ Exists(j) => rows'[j].parent =
                              IF j \in S /\ j \in lifted THEN Root ELSE rows[j].parent
           /\ ~Exists(j) => rows'[j] = rows[j]
<1>1. CASE Exists(j) /\ j \in S
  <2>1. rows'[j] = [rows[j] EXCEPT !.st = "live", !.parent = IF j \in lifted THEN Root ELSE @]
      BY <1>1 DEF Restored
  <2>2. /\ rows'[j].st = "live"
        /\ rows'[j].owner = rows[j].owner /\ rows'[j].hash = rows[j].hash
        /\ rows'[j].key = rows[j].key /\ rows'[j].name = rows[j].name
        /\ rows'[j].parent = IF j \in lifted THEN Root ELSE rows[j].parent
      BY <1>1, <2>1, RowType DEF Row, RowOf
  <2> QED
      BY <1>1, <2>2 DEF Exists, Live, Deleted, KeepsFile
<1>2. CASE ~(Exists(j) /\ j \in S)
    BY <1>2 DEF Restored, Exists, Live, Deleted, KeepsFile
<1> QED
    BY <1>1, <1>2

LEMMA HardDeletedColumns ==
    ASSUME TableTypeOK, NEW S, NEW j \in Ids, rows' = HardDeleted(S)
    PROVE  /\ Exists(j)' <=> Exists(j) /\ j \notin S
           /\ Live(j)' <=> Live(j) /\ j \notin S
           /\ Deleted(j)' <=> Deleted(j) /\ j \notin S
           /\ Exists(j)' => rows'[j] = rows[j]
           /\ rows'[j].st = "purged" => rows[j].st = "purged" \/ j \in S
BY DEF HardDeleted, Exists, Live, Deleted

LEMMA MovedColumns ==
    ASSUME TableTypeOK, NEW S, NEW p, NEW j \in Ids, rows' = Moved(S, p)
    PROVE  /\ rows'[j].st = rows[j].st
           /\ Exists(j) => KeepsFile(j) /\ rows'[j].name = rows[j].name
           /\ Exists(j) => rows'[j].parent = IF j \in S THEN p ELSE rows[j].parent
<1>1. CASE Exists(j) /\ j \in S
  <2>1. rows'[j] = [rows[j] EXCEPT !.parent = p]
      BY <1>1 DEF Moved
  <2>2. /\ rows'[j].st = rows[j].st
        /\ rows'[j].owner = rows[j].owner /\ rows'[j].hash = rows[j].hash
        /\ rows'[j].key = rows[j].key /\ rows'[j].name = rows[j].name
        /\ rows'[j].parent = p
      BY <1>1, <2>1, RowType DEF Row, RowOf
  <2> QED
      BY <1>1, <2>2 DEF KeepsFile
<1>2. CASE ~(Exists(j) /\ j \in S)
    BY <1>2 DEF Moved, KeepsFile
<1> QED
    BY <1>1, <1>2

LEMMA RenamedColumns ==
    ASSUME TableTypeOK, NEW i \in Ids, NEW n, NEW j \in Ids, rows' = Renamed(i, n)
    PROVE  /\ rows'[j].st = rows[j].st
           /\ Exists(j) => KeepsFile(j) /\ rows'[j].parent = rows[j].parent
           /\ Exists(j) => rows'[j].name = IF j = i THEN n ELSE rows[j].name
<1>1. CASE Exists(j) /\ j = i
  <2>1. rows'[j] = [rows[j] EXCEPT !.name = n]
      BY <1>1 DEF Renamed, TableTypeOK
  <2>2. /\ rows'[j].st = rows[j].st
        /\ rows'[j].owner = rows[j].owner /\ rows'[j].hash = rows[j].hash
        /\ rows'[j].key = rows[j].key /\ rows'[j].parent = rows[j].parent
        /\ rows'[j].name = n
      BY <1>1, <2>1, RowType DEF Row, RowOf
  <2> QED
      BY <1>1, <2>2 DEF KeepsFile
<1>2. CASE ~(Exists(j) /\ j = i)
    BY <1>2 DEF Renamed, TableTypeOK, KeepsFile
<1> QED
    BY <1>1, <1>2

LEMMA InsertedColumns ==
    ASSUME TableTypeOK, NEW old, NEW i \in Ids, NEW row, rows' = Inserted(old, i, row)
    PROVE  rows'[i] = row /\ \A j \in Ids \ {i} : rows'[j] = SoftDeleted(old)[j]
BY DEF Inserted, SoftDeleted, Marked

-----------------------------------------------------------------------------
(* Purges *)

LEMMA BinTurn ==
    ASSUME TypeOK, NEW w \in Workers, Turn(w), BinOnly(req[w])
    PROVE  BinOnly(req[w])' /\ \A i \in Ids : Live(i) => rows'[i].st # "purged"
<1> w \in Procs /\ TableTypeOK
    BY DEF Procs, TypeOK
<1>1. PICK q : q = req'[w]
    OBVIOUS
<1>2. CASE q.pc = "purge"
  <2>1. PICK u \in Users, i \in Ids : PermanentDeleteFile(w, u, i)
      BY <1>1, <1>2 DEF Turn, Origin
  <2> DEFINE S == {i} \cup IF IsDir(i) THEN DescendantIDs(i, TRUE) ELSE {}
  <2>2. q = [pc |-> "purge", user |-> u, ids |-> S, freed |-> Bytes(S)]
      BY <1>1, <2>1, GotoReaches DEF PermanentDeleteFile
  <2>3. \A j \in S : Deleted(j)
      BY <2>1 DEF PermanentDeleteFile, DescendantIDs
  <2>4. q.ids = S /\ rows' = rows
      BY <2>1, <2>2 DEF PermanentDeleteFile, tableVars
  <2> HIDE DEF S
  <2> QED
      BY <1>1, <2>3, <2>4 DEF BinOnly, Deleted, Live
<1>3. CASE q.pc = "count"
  <2>1. PICK E \in SUBSET Ids : w = Cleaner /\ AutoCleanRecycle(E)
      BY <1>1, <1>3 DEF Turn, Origin
  <2> DEFINE tree(i) == IF IsDir(i) /\ ~CycleAt(i) THEN DescendantIDs(i, TRUE) ELSE {}
             S == {j \in Ids : j \in E \/ \E i \in E : j \in tree(i)}
  <2>2. q = [pc |-> "count", ids |-> S, keys |-> KeysOf(S),
             owed |-> [u \in Users |-> Bytes({j \in S : rows[j].owner = u})]]
      BY <1>1, <2>1, GotoReaches DEF AutoCleanRecycle
  <2>3. \A j \in S : Deleted(j)
      BY <2>1 DEF AutoCleanRecycle, DescendantIDs
  <2>4. q.ids = S /\ rows' = rows
      BY <2>1, <2>2 DEF AutoCleanRecycle, tableVars
  <2> HIDE DEF S
  <2> QED
      BY <1>1, <2>3, <2>4 DEF BinOnly, Deleted, Live
<1>4. CASE q.pc = "clean"
  <2>1. w = Cleaner /\ CountKeys
      BY <1>1, <1>4 DEF Turn, Origin
  <2>2. req[w] \in Cleaning /\ req[w].pc = "count" /\ rows' = rows
      BY <2>1, RequestType DEF CountKeys, TypeOK, tableVars
  <2>3. PICK keys : q = [req[w] EXCEPT !.pc = "clean", !.keys = keys]
      BY <1>1, <2>1, GotoReaches DEF CountKeys
  <2>4. q.ids = req[w].ids
      BY <2>2, <2>3 DEF Cleaning
  <2> QED
      BY <1>1, <2>2, <2>4 DEF BinOnly, Deleted, Live
<1>5. CASE q.pc \notin {"purge", "count", "clean"}
  <2>1. BinOnly(req[w])'
      BY <1>1, <1>5 DEF BinOnly
  <2>2. ASSUME NEW i \in Ids, Live(i), rows'[i].st = "purged" PROVE FALSE
    <3>1. CASE CommitPurge(w) \/ (w = Cleaner /\ CleanRows)
      <4>1. req[w].pc \in {"purge", "clean"}
          BY <3>1 DEF CommitPurge, CleanRows
      <4>2. \E S : rows' = HardDeleted(S) /\ \A j \in S : Deleted(j)
          BY <3>1, <4>1 DEF CommitPurge, CleanRows, BinOnly
      <4> QED
          BY <2>2, <4>2, HardDeletedColumns DEF Live, Deleted
    <3>2. CASE \/ CommitUpload(w) \/ InsertDir(w) \/ CommitRename(w) \/ CommitMove(w)
               \/ CommitCopy(w) \/ CommitDelete(w) \/ CommitRestore(w)
      <4>1. PICK r \in Request : r = req[w]
          BY DEF TypeOK
      <4>2. \/ rows' = rows
            \/ \E old, u, p, n, h, k : \E x \in Ids : rows' = Inserted(old, x, NewRow(u, p, n, h, k))
            \/ \E x \in Ids : \E n : rows' = Renamed(x, n)
            \/ \E S, p : rows' = Moved(S, p)
            \/ \E S : rows' = SoftDeleted(S)
            \/ \E S, lifted : rows' = Restored(S, lifted)
          BY <3>2, <4>1, RequestType DEF CommitUpload, InsertDir, CommitRename, CommitMove, CommitCopy,
                    CommitDelete, CommitRestore, Rename
      <4>3. Exists(i)
          BY <2>2 DEF Live, Exists
      <4>4. ASSUME NEW old, NEW u, NEW p, NEW n, NEW h, NEW k, NEW x \in Ids,
                   rows' = Inserted(old, x, NewRow(u, p, n, h, k))
            PROVE  rows'[i].st # "purged"
        <5>1. i = x \/ rows'[i] = SoftDeleted(old)[i]
            BY <4>4, InsertedColumns
        <5>2. rows'[x].st = "live"
            BY <4>4, InsertedColumns DEF NewRow
        <5> QED
            BY <4>3, <5>1, <5>2, SoftDeletedColumns DEF Exists
      <4>5. ASSUME NEW S, rows' = SoftDeleted(S) PROVE rows'[i].st # "purged"
        <5>1. rows'[i] = SoftDeleted(S)[i]
            BY <4>5
        <5>2. Exists(i)'
            BY <4>3, <5>1, SoftDeletedColumns, Zenon
        <5> QED
            BY <5>2 DEF Exists
      <4>6. ASSUME NEW S, NEW lifted, rows' = Restored(S, lifted) PROVE rows'[i].st # "purged"
        <5>1. Exists(i)'
            BY <4>3, <4>6, RestoredColumns, Zenon
        <5> QED
            BY <5>1 DEF Exists
      <4>7. ASSUME NEW S, NEW p, rows' = Moved(S, p) PROVE rows'[i].st # "purged"
          BY <4>3, <4>7, MovedColumns DEF Exists
      <4>8. ASSUME NEW x \in Ids, NEW n, rows' = Renamed(x, n) PROVE rows'[i].st # "purged"
          BY <4>3, <4>8, RenamedColumns DEF Exists
      <4> QED
          BY <2>2, <4>2, <4>3, <4>4, <4>5, <4>6, <4>7, <4>8 DEF Exists
    <3> QED
        BY <2>2, <3>1, <3>2 DEF Turn, Writer, Live
  <2> QED
      BY <2>1, <2>2
<1> QED
    BY <1>2, <1>3, <1>4, <1>5

PurgeInv == TypeOK /\ OneAtATime /\ \A w \in Workers : BinOnly(req[w])

LEMMA PurgeStep ==
    ASSUME MaxActive = 1, PurgeInv, [Next]_vars
    PROVE  PurgeInv' /\ \A i \in Ids : Live(i) => rows'[i].st # "purged"
<1> TypeOK /\ OneAtATime /\ \A v \in Workers : BinOnly(req[v])
    BY DEF PurgeInv
<1>1. TypeOK' /\ OneAtATime'
    BY NextType, SerialStep
<1>2. CASE Quiet
  <2>1. \A v \in Workers : BinOnly(req[v])'
      BY <1>2 DEF Quiet, BinOnly, Idle, tableVars, Deleted
  <2> QED
      BY <1>1, <1>2, <2>1 DEF Quiet, PurgeInv, tableVars, Live
<1>3. ASSUME NEW w \in Workers, Turn(w), \A v \in Workers \ {w} : req'[v] = Idle
      PROVE  PurgeInv' /\ \A i \in Ids : Live(i) => rows'[i].st # "purged"
  <2>1. \A v \in Workers \ {w} : BinOnly(req[v])'
      BY <1>3 DEF BinOnly, Idle
  <2> QED
      BY <1>1, <1>3, <2>1, BinTurn DEF PurgeInv
<1> QED
    BY <1>2, <1>3, SerialStep

LEMMA SerialInit ==
    ASSUME Init
    PROVE  TypeOK /\ OneAtATime /\ (\A w \in Procs : req[w] = Idle) /\ (\A i \in Ids : ~Exists(i))
<1>1. TypeOK
    BY IdleType DEF Init, TableInit, TypeOK, TableTypeOK, NoRow
<1> QED
    BY <1>1 DEF Init, TableInit, OneAtATime, Idle, Exists, Procs

LEMMA PurgeInvariant ==
    ASSUME MaxActive = 1
    PROVE  Spec => []PurgeInv
<1>1. Init => PurgeInv
    BY SerialInit DEF PurgeInv, BinOnly, Idle, Procs
<1>2. PurgeInv /\ [Next]_vars => PurgeInv'
    BY PurgeStep
<1> QED
    BY <1>1, <1>2, PTL DEF Spec

\* With one request at a time, a row leaves the table from the recycle bin only:
\* what PermanentDeleteFile and AutoCleanRecycle collected lies in the bin
\* until they delete it, whatever fails and wherever the process is killed.
THEOREM PurgesFromBin ==
    ASSUME MaxActive = 1
    PROVE  Spec => PurgedFromBin
<1>1. PurgeInv /\ [Next]_vars => [\A i \in Ids : Live(i) => rows'[i].st # "purged"]_vars
    BY PurgeStep
<1> QED
    BY <1>1, PurgeInvariant, PTL DEF Spec, PurgedFromBin

-----------------------------------------------------------------------------
(* Blobs *)

\* A key that counts once has one row.
LEMMA CountedOnce ==
    ASSUME NEW i \in Ids, NEW j \in Ids, Exists(i), Exists(j), rows[i].key = rows[j].key,
           CountByStorageKey(rows[i].key) <= 1
    PROVE  i = j
<1> DEFINE S == {x \in Ids : Exists(x) /\ rows[x].key = rows[i].key}
<1> SUFFICES ASSUME i # j PROVE FALSE
    OBVIOUS
<1>1. {i, j} \in SUBSET S /\ S \in SUBSET Ids
    OBVIOUS
<1>2. IsFiniteSet(S)
    BY <1>1, TableAssumption, FS_Subset DEF TableAssumption
<1>3. Cardinality(S) \in Nat /\ Cardinality(S) <= 1
    BY <1>2, FS_CardinalityType DEF CountByStorageKey
<1> HIDE DEF S
<1>4. Cardinality({i, j}) <= Cardinality(S)
    BY <1>1, <1>2, FS_Subset
<1>5. Cardinality({i}) = 1 /\ IsFiniteSet({i})
    BY FS_Singleton
<1>6. Cardinality({i} \cup {j}) = 2
  <2>1. Cardinality({i} \cup {j}) = IF j \in {i} THEN Cardinality({i}) ELSE Cardinality({i}) + 1
      BY <1>5, FS_AddElement, Zenon
  <2> QED
      BY <1>5, <2>1
<1>7. {i} \cup {j} = {i, j}
    OBVIOUS
<1> QED
    BY <1>3, <1>4, <1>6, <1>7

\* Rows that only change place, or go, keep their blobs.
LEMMA RowsKeepBlobs ==
    ASSUME RowsHaveBlobs, disk' = disk, \A i \in Ids : Exists(i)' => Exists(i) /\ KeepsFile(i)
    PROVE  RowsHaveBlobs'
BY DEF RowsHaveBlobs, KeepsFile, IsDir

\* A row inserted with a blob that is there.
LEMMA InsertKeepsBlobs ==
    ASSUME TableTypeOK, RowsHaveBlobs, disk' = disk, NEW old, NEW i \in Ids, NEW row,
           rows' = Inserted(old, i, row), row.key # NoBlob => disk[row.key] = row.hash
    PROVE  RowsHaveBlobs'
<1> SUFFICES ASSUME NEW j \in Ids, Exists(j)', ~IsDir(j)'
             PROVE  disk[rows'[j].key] = rows'[j].hash
    BY DEF RowsHaveBlobs
<1>1. CASE j = i
  <2>1. rows'[j] = row
      BY <1>1, InsertedColumns
  <2> QED
      BY <2>1 DEF IsDir
<1>2. CASE j # i
  <2>1. rows'[j] = SoftDeleted(old)[j]
      BY <1>2, InsertedColumns
  <2>2. Exists(j) /\ KeepsFile(j)
      BY <2>1, SoftDeletedColumns
  <2> QED
      BY <2>2 DEF RowsHaveBlobs, KeepsFile, IsDir
<1> QED
    BY <1>1, <1>2

\* The file of a row under way.
LEMMA BlobOfRow ==
    ASSUME TableTypeOK, RowsHaveBlobs, NEW i \in Ids, Exists(i)
    PROVE  /\ ~IsDir(i) => disk[rows[i].key] = rows[i].hash /\ disk[rows[i].key] # NoBlob
           /\ \A k \in Keys : disk[k] \in {NoBlob, Removed} => rows[i].key # k
<1>1. ~IsDir(i) => rows[i].hash \in Contents /\ disk[rows[i].key] = rows[i].hash
    BY RowType DEF RowsHaveBlobs
<1> QED
    BY <1>1, TableAssumption DEF TableAssumption, IsDir

LEMMA BlobReads ==
    ASSUME ~Failures, TypeOK, RowsHaveBlobs, NEW w \in Workers, Turn(w), BlobsInHand(req[w])
    PROVE  BlobsInHand(req[w])'
<1> w \in Procs /\ TableTypeOK
    BY DEF Procs, TypeOK
<1>1. PICK q : q = req'[w]
    OBVIOUS
<1>2. PICK r \in Request : r = req[w] /\ BlobsInHand(r)
    BY DEF TypeOK
<1> SUFFICES BlobsInHand(q)'
    BY <1>1 DEF BlobsInHand
<1>3. CASE q.pc = "lookedUp"
  <2>1. LookupHash(w)
      BY <1>1, <1>3 DEF Turn, Origin
  <2> DEFINE found == {rows[i].key : i \in FilesByHash(r.hash)}
  <2>2. PICK k \in IF found = {} THEN {NoBlob} ELSE found :
            q = [pc |-> "lookedUp", user |-> r.user, dest |-> r.dest,
                 name |-> r.name, hash |-> r.hash, key |-> k, from |-> r.from]
      BY <1>1, <1>2, <2>1, GotoReaches DEF LookupHash
  <2>3. k = NoBlob \/ disk[k] = r.hash
      BY <2>2 DEF FilesByHash, RowsHaveBlobs, Live, Exists
  <2>4. disk' = disk /\ q.key = k /\ q.hash = r.hash
      BY <2>1, <2>2 DEF LookupHash, tableVars
  <2> QED
      BY <1>3, <2>3, <2>4 DEF BlobsInHand
<1>4. CASE q.pc = "stored"
  <2>0. StoreBlob(w) \/ LinkDuplicate(w) \/ StoreMerged(w)
      BY <1>1, <1>4 DEF Turn, Origin
  <2>1. r.pc = "lookedUp" /\ r \in LookedUp
      BY <1>2, <2>0, RequestType DEF StoreBlob, LinkDuplicate, StoreMerged
  <2>2. /\ q.hash = r.hash /\ q.fresh = (r.key = NoBlob) /\ rows' = rows
        /\ \/ r.key # NoBlob /\ q.key = r.key /\ disk' = disk
           \/ /\ q.key \in Keys /\ disk[q.key] = NoBlob
              /\ disk' = [disk EXCEPT ![q.key] = r.hash]
    <3>1. CASE StoreBlob(w)
      <4> DEFINE next(t, k) == [pc |-> "stored", user |-> r.user, dest |-> r.dest,
                                name |-> t.name, hash |-> r.hash, key |-> k,
                                fresh |-> (r.key = NoBlob), old |-> t.old,
                                freed |-> Bytes(t.old), from |-> NoUpload]
      <4>1. ~Finish(w)
          BY <1>1, <1>4, GotoReaches DEF Finish, Idle
      <4>2. /\ rows' = rows
            /\ \E t, k : /\ Goto(w, next(t, k))
                         /\ \/ r.key # NoBlob /\ k = r.key /\ disk' = disk
                            \/ /\ k \in Keys /\ disk[k] = NoBlob
                               /\ disk' = [disk EXCEPT ![k] = r.hash]
          BY <1>2, <3>1, <4>1 DEF StoreBlob
      <4>3. PICK t, k : /\ Goto(w, next(t, k))
                        /\ \/ r.key # NoBlob /\ k = r.key /\ disk' = disk
                           \/ /\ k \in Keys /\ disk[k] = NoBlob
                              /\ disk' = [disk EXCEPT ![k] = r.hash]
          BY <4>2
      <4>4. q.hash = r.hash /\ q.fresh = (r.key = NoBlob) /\ q.key = k
        <5>1. /\ next(t, k).hash = r.hash /\ next(t, k).key = k
              /\ next(t, k).fresh = (r.key = NoBlob)
            OBVIOUS
        <5> HIDE DEF next
        <5>2. q = next(t, k)
            BY <1>1, <4>3, GotoReaches
        <5> QED
            BY <5>1, <5>2
      <4> QED
          BY <4>2, <4>3, <4>4
    <3>2. CASE LinkDuplicate(w)
      <4>1. q # Idle
          BY <1>4 DEF Idle
      <4>2. PICK n : q = Stores(r, n, r.key)
          BY <1>1, <1>2, <3>2, <4>1, GotoReaches DEF LinkDuplicate
      <4>3. r.key # NoBlob /\ rows' = rows /\ disk' = disk
          BY <1>2, <3>2 DEF LinkDuplicate, tableVars
      <4> QED
          BY <4>2, <4>3 DEF Stores
    <3>3. CASE StoreMerged(w)
      <4>1. PICK k \in Keys : /\ disk[k] = NoBlob /\ disk' = [disk EXCEPT ![k] = r.hash]
                              /\ q = Stores(r, r.name, k)
          BY <1>1, <1>2, <3>3, GotoReaches DEF StoreMerged
      <4>2. rows' = rows
          BY <3>3 DEF StoreMerged
      <4> QED
          BY <4>1, <4>2 DEF Stores
    <3> QED
        BY <2>0, <3>1, <3>2, <3>3
  <2>3. disk'[q.key] = q.hash
      BY <1>2, <2>1, <2>2 DEF BlobsInHand, TableTypeOK
  <2>4. ASSUME q.fresh, NEW i \in Ids, Exists(i) PROVE rows[i].key # q.key
    <3>1. q.key \in Keys /\ disk[q.key] = NoBlob
        BY <2>2, <2>4
    <3> QED
        BY <2>4, <3>1, BlobOfRow
  <2> QED
      BY <1>4, <2>2, <2>3, <2>4 DEF BlobsInHand, Exists
<1>5. CASE q.pc = "copyTx"
  <2>1. PICK u \in Users, i \in Ids, p \in Parents : CopyFile(w, u, i, p)
      BY <1>1, <1>5 DEF Turn, Origin
  <2>2. q = [pc |-> "copyTx", user |-> u, dest |-> p, name |-> rows[i].name,
             hash |-> rows[i].hash, key |-> rows[i].key]
      BY <1>1, <2>1, GotoReaches DEF CopyFile
  <2>3. disk[rows[i].key] = rows[i].hash /\ disk' = disk
      BY <2>1 DEF CopyFile, RowsHaveBlobs, Live, Exists, tableVars
  <2>4. q.key = rows[i].key /\ q.hash = rows[i].hash
      BY <2>2
  <2> QED
      BY <1>5, <2>3, <2>4 DEF BlobsInHand
<1>6. CASE q.pc = "copy"
  <2>1. CopyInTx(w)
      BY <1>1, <1>6 DEF Turn, Origin
  <2>2. r.pc = "copyTx" /\ r \in Copying /\ disk' = disk
      BY <1>2, <2>1, RequestType DEF CopyInTx, tableVars
  <2>3. q # Idle
      BY <1>6 DEF Idle
  <2>4. PICK n : q = [r EXCEPT !.pc = "copy", !.name = n]
      BY <1>1, <1>2, <2>1, <2>3, GotoReaches DEF CopyInTx, Finish
  <2>5. q.key = r.key /\ q.hash = r.hash
      BY <2>2, <2>4 DEF Copying
  <2> QED
      BY <1>2, <1>6, <2>2, <2>5 DEF BlobsInHand
<1>7. CASE q.pc = "count"
  <2>1. PICK E \in SUBSET Ids : w = Cleaner /\ AutoCleanRecycle(E)
      BY <1>1, <1>7 DEF Turn, Origin
  <2>2. PICK S, owed : q = [pc |-> "count", ids |-> S, keys |-> KeysOf(S), owed |-> owed]
      BY <1>1, <2>1, GotoReaches DEF AutoCleanRecycle
  <2>3. q.ids = S /\ q.keys = KeysOf(S) /\ rows' = rows
      BY <2>1, <2>2 DEF AutoCleanRecycle, tableVars
  <2> QED
      BY <1>7, <2>3 DEF BlobsInHand, KeysOf, Exists, IsDir
<1>8. CASE q.pc = "clean"
  <2>1. w = Cleaner /\ CountKeys
      BY <1>1, <1>8 DEF Turn, Origin
  <2>2. r \in Cleaning /\ r.pc = "count" /\ rows' = rows
      BY <1>2, <2>1, RequestType DEF CountKeys, tableVars
  <2>3. PICK keys \in Unshared(r.keys) : q = [r EXCEPT !.pc = "clean", !.keys = keys]
      BY <1>1, <1>2, <2>1, GotoReaches DEF CountKeys
  <2>4. q.ids = r.ids /\ q.keys = {k \in r.keys : CountByStorageKey(k) <= 1}
      BY <2>2, <2>3 DEF Cleaning, Unshared
  <2>5. ASSUME NEW i \in Ids, Exists(i), rows[i].key \in q.keys PROVE i \in q.ids
    <3>1. PICK j \in r.ids : Exists(j) /\ ~IsDir(j) /\ rows[j].key = rows[i].key
        BY <1>2, <2>2, <2>4, <2>5 DEF BlobsInHand, KeysOf
    <3>2. j \in Ids /\ CountByStorageKey(rows[i].key) <= 1
        BY <2>2, <2>4, <2>5 DEF Cleaning
    <3> QED
        BY <2>4, <2>5, <3>1, <3>2, CountedOnce
  <2> QED
      BY <1>8, <2>2, <2>5 DEF BlobsInHand, Exists
<1>9. CASE q.pc = "sweep"
  <2>s. \A keys, owed : Sweep(keys, owed).pc = "sweep" => Sweep(keys, owed).keys = keys
      BY DEF Sweep, Idle
  <2>1. CASE CommitPurge(w)
    <3>1. r \in Deleting /\ rows' = HardDeleted(r.ids)
        BY <1>2, <2>1, RequestType DEF CommitPurge
    <3>2. PICK keys, owed : keys \in Unshared(KeysOf(r.ids)) /\ q = Sweep(keys, owed)
        BY <1>1, <1>2, <2>1, GotoReaches DEF CommitPurge
    <3>3. keys = {k \in KeysOf(r.ids) : CountByStorageKey(k) <= 1}
        BY <3>2 DEF Unshared
    <3>4. ASSUME NEW i \in Ids, Exists(i)', rows'[i].key \in keys PROVE FALSE
      <4>1. Exists(i) /\ i \notin r.ids /\ rows'[i] = rows[i]
          BY <3>1, <3>4, HardDeletedColumns
      <4>2. PICK j \in r.ids : Exists(j) /\ ~IsDir(j) /\ rows[j].key = rows[i].key
          BY <3>3, <3>4, <4>1 DEF KeysOf
      <4> QED
          BY <3>1, <3>3, <3>4, <4>1, <4>2, CountedOnce DEF Deleting
    <3> QED
        BY <1>9, <2>s, <3>2, <3>4 DEF BlobsInHand
  <2>2. CASE w = Cleaner /\ CleanRows
    <3>1. r \in Cleaning /\ r.pc = "clean" /\ rows' = HardDeleted(r.ids)
        BY <1>2, <2>2, RequestType DEF CleanRows
    <3>2. q = Sweep(r.keys, r.owed)
        BY <1>1, <1>2, <2>2, GotoReaches DEF CleanRows
    <3>3. ASSUME NEW i \in Ids, Exists(i)', rows'[i].key \in r.keys PROVE FALSE
      <4>1. Exists(i) /\ i \notin r.ids /\ rows'[i] = rows[i]
          BY <3>1, <3>3, HardDeletedColumns
      <4> QED
          BY <1>2, <3>1, <3>3, <4>1 DEF BlobsInHand
    <3> QED
        BY <1>9, <2>s, <3>2, <3>3 DEF BlobsInHand
  <2>3. CASE DeleteBlob(w) \/ ChargeBack(w)
    <3>1. r.pc = "sweep" /\ rows' = rows
        BY <1>2, <2>3 DEF DeleteBlob, ChargeBack
    <3>2. PICK keys, owed : keys \subseteq r.keys /\ q = Sweep(keys, owed)
      <4>1. CASE DeleteBlob(w)
        <5>1. PICK k : Goto(w, Sweep(r.keys \ {k}, r.owed))
            BY <1>2, <4>1 DEF DeleteBlob
        <5>2. q = Sweep(r.keys \ {k}, r.owed)
            BY <1>1, <5>1, GotoReaches
        <5> QED
            BY <5>2
      <4>2. CASE ChargeBack(w)
        <5>1. PICK u : Goto(w, Sweep({}, [r.owed EXCEPT ![u] = 0]))
            BY <1>2, <4>2 DEF ChargeBack
        <5>2. q = Sweep({}, [r.owed EXCEPT ![u] = 0])
            BY <1>1, <5>1, GotoReaches
        <5> QED
            BY <5>2
      <4> QED
          BY <2>3, <4>1, <4>2
    <3>3. ASSUME NEW i \in Ids, Exists(i) PROVE rows[i].key \notin keys
        BY <1>2, <3>1, <3>2, <3>3 DEF BlobsInHand
    <3> QED
        BY <1>9, <2>s, <3>1, <3>2, <3>3 DEF BlobsInHand, Exists
  <2> QED
      BY <1>1, <1>9, <2>1, <2>2, <2>3 DEF Turn, Origin
<1>10. CASE q.pc \notin {"lookedUp", "stored", "copyTx", "copy", "count", "clean", "sweep"}
    BY <1>10 DEF BlobsInHand
<1> QED
    BY <1>3, <1>4, <1>5, <1>6, <1>7, <1>8, <1>9, <1>10

LEMMA BlobWrites ==
    ASSUME ~Failures, TypeOK, RowsHaveBlobs, NEW w \in Workers, Turn(w), BlobsInHand(req[w])
    PROVE  RowsHaveBlobs'
<1> w \in Procs /\ TableTypeOK
    BY DEF Procs, TypeOK
<1>1. PICK r \in Request : r = req[w] /\ BlobsInHand(r)
    BY DEF TypeOK
<1>2. CASE CommitUpload(w)
  <2>1. r \in Stored /\ r.pc = "stored"
      BY <1>1, <1>2, RequestType DEF CommitUpload
  <2>2. CASE \E i \in Ids :
                rows' = Inserted(r.old, i, NewRow(r.user, r.dest, r.name, r.hash, r.key))
             /\ disk' = disk
      BY <1>1, <2>1, <2>2, InsertKeepsBlobs DEF BlobsInHand, NewRow
  <2>3. CASE rows' = rows /\ disk' = IF r.fresh THEN [disk EXCEPT ![r.key] = Removed] ELSE disk
    <3>1. CASE r.fresh
      <4>1. \A i \in Ids : Exists(i) => rows[i].key # r.key
          BY <1>1, <2>1, <3>1 DEF BlobsInHand
      <4>2. r.key \in Keys /\ disk' = [disk EXCEPT ![r.key] = Removed]
          BY <2>1, <2>3, <3>1 DEF Stored
      <4> QED
          BY <2>3, <4>1, <4>2, RowType DEF RowsHaveBlobs, Exists, IsDir, TableTypeOK
    <3>2. CASE ~r.fresh
        BY <2>3, <3>2 DEF RowsHaveBlobs, Exists, IsDir
    <3> QED
        BY <3>1, <3>2
  <2> QED
      BY <1>1, <1>2, <2>2, <2>3 DEF CommitUpload
<1>3. CASE InsertDir(w) \/ CommitCopy(w)
  <2>1. r.pc = "copy" => disk[r.key] = r.hash
      BY <1>1 DEF BlobsInHand
  <2>2. disk' = disk
      BY <1>3 DEF InsertDir, CommitCopy
  <2>3. \/ rows' = rows
        \/ \E i \in Ids : \E u, p, n, h, k : /\ rows' = Inserted({}, i, NewRow(u, p, n, h, k))
                                             /\ k # NoBlob => disk[k] = h
      BY <1>1, <1>3, <2>1 DEF InsertDir, CommitCopy
  <2>4. CASE rows' = rows
      BY <2>2, <2>4 DEF RowsHaveBlobs, Exists, IsDir
  <2> QED
      BY <2>2, <2>3, <2>4, InsertKeepsBlobs DEF NewRow
<1>4. CASE \/ CommitRename(w) \/ CommitMove(w) \/ CommitDelete(w) \/ CommitRestore(w)
           \/ CommitPurge(w) \/ (w = Cleaner /\ CleanRows)
  <2>1. disk' = disk
      BY <1>4 DEF CommitRename, CommitMove, CommitDelete, CommitRestore, CommitPurge, CleanRows
  <2>2. \/ rows' = rows
        \/ \E i \in Ids : \E n : rows' = Renamed(i, n)
        \/ \E S, p : rows' = Moved(S, p)
        \/ \E S : rows' = SoftDeleted(S)
        \/ \E S, lifted : rows' = Restored(S, lifted)
        \/ \E S : rows' = HardDeleted(S)
      BY <1>1, <1>4, RequestType DEF CommitRename, CommitMove, CommitDelete, CommitRestore, CommitPurge,
                                     CleanRows, Rename
  <2> SUFFICES ASSUME NEW i \in Ids, Exists(i)' PROVE Exists(i) /\ KeepsFile(i)
      BY <2>1, RowsKeepBlobs
  <2>3. CASE rows' = rows
      BY <2>3 DEF Exists, KeepsFile
  <2>4. ASSUME NEW j \in Ids, NEW n, rows' = Renamed(j, n) PROVE Exists(i) /\ KeepsFile(i)
      BY <2>4, RenamedColumns DEF Exists
  <2>5. ASSUME NEW S, NEW p, rows' = Moved(S, p) PROVE Exists(i) /\ KeepsFile(i)
      BY <2>5, MovedColumns DEF Exists
  <2>6. ASSUME NEW S, rows' = SoftDeleted(S) PROVE Exists(i) /\ KeepsFile(i)
      BY <2>6, SoftDeletedColumns
  <2>7. ASSUME NEW S, NEW lifted, rows' = Restored(S, lifted) PROVE Exists(i) /\ KeepsFile(i)
      BY <2>7, RestoredColumns
  <2>8. ASSUME NEW S, rows' = HardDeleted(S) PROVE Exists(i) /\ KeepsFile(i)
      BY <2>8, HardDeletedColumns DEF KeepsFile
  <2> QED
      BY <2>2, <2>3, <2>4, <2>5, <2>6, <2>7, <2>8
<1>5. CASE StoreBlob(w) \/ StoreMerged(w)
  <2>1. /\ rows' = rows
        /\ \/ disk' = disk
           \/ \E k \in Keys : disk[k] = NoBlob /\ disk' = [disk EXCEPT ![k] = r.hash]
      BY <1>1, <1>5 DEF StoreBlob, StoreMerged
  <2>2. CASE disk' = disk
      BY <2>1, <2>2 DEF RowsHaveBlobs, Exists, IsDir
  <2>3. ASSUME NEW k \in Keys, disk[k] = NoBlob, disk' = [disk EXCEPT ![k] = r.hash]
        PROVE  RowsHaveBlobs'
    <3> SUFFICES ASSUME NEW i \in Ids, Exists(i), ~IsDir(i)
                 PROVE  disk'[rows[i].key] = rows[i].hash
        BY <2>1 DEF RowsHaveBlobs, Exists, IsDir
    <3>1. rows[i].key \in Keys /\ rows[i].key # k /\ disk[rows[i].key] = rows[i].hash
        BY <2>3, RowType, BlobOfRow
    <3> QED
        BY <2>3, <3>1 DEF TableTypeOK
  <2> QED
      BY <2>1, <2>2, <2>3
<1>6. CASE DeleteBlob(w)
  <2>1. r.pc = "sweep" /\ r \in Sweeping
      BY <1>1, <1>6, RequestType DEF DeleteBlob
  <2>2. /\ rows' = rows
        /\ \E k \in r.keys : disk' = disk \/ disk' = [disk EXCEPT ![k] = Removed]
      BY <1>1, <1>6 DEF DeleteBlob
  <2>3. \A i \in Ids : Exists(i) => rows[i].key \notin r.keys
      BY <1>1, <2>1 DEF BlobsInHand
  <2> QED
      BY <2>1, <2>2, <2>3, RowType DEF RowsHaveBlobs, Exists, IsDir, TableTypeOK
<1>7. CASE rows' = rows /\ disk' = disk
    BY <1>7 DEF RowsHaveBlobs, Exists, IsDir
<1> QED
    BY <1>2, <1>3, <1>4, <1>5, <1>6, <1>7 DEF Turn, Writer, FailUpload

BlobInv ==
    TypeOK /\ OneAtATime /\ RowsHaveBlobs /\ \A w \in Workers : BlobsInHand(req[w])

LEMMA BlobStep ==
    ASSUME MaxActive = 1, ~Failures, BlobInv, [Next]_vars
    PROVE  BlobInv'
<1> TypeOK /\ OneAtATime /\ RowsHaveBlobs /\ \A v \in Workers : BlobsInHand(req[v])
    BY DEF BlobInv
<1>1. TypeOK' /\ OneAtATime'
    BY NextType, SerialStep
<1>0. BlobsInHand(Idle)'
    BY DEF BlobsInHand, Idle
<1>2. CASE Quiet
  <2>1. ASSUME NEW v \in Workers PROVE BlobsInHand(req[v])'
    <3>1. PICK r : r = req[v] /\ BlobsInHand(r)
        OBVIOUS
    <3>2. rows' = rows /\ disk' = disk
        BY <1>2 DEF Quiet, tableVars
    <3>3. BlobsInHand(r)'
      <4>1. \A S : KeysOf(S)' = KeysOf(S)
          BY <3>2 DEF KeysOf, Exists, IsDir
      <4>2. \A i \in Ids : Exists(i)' = Exists(i)
          BY <3>2 DEF Exists
      <4> QED
          BY <3>1, <3>2, <4>1, <4>2 DEF BlobsInHand
    <3>4. CASE req'[v] = r
        BY <3>3, <3>4 DEF BlobsInHand
    <3>5. CASE req'[v] = Idle
        BY <1>0, <3>5 DEF BlobsInHand
    <3> QED
        BY <1>2, <3>1, <3>4, <3>5 DEF Quiet
  <2>2. RowsHaveBlobs'
      BY <1>2 DEF Quiet, tableVars, RowsHaveBlobs, Exists, IsDir
  <2> QED
      BY <1>1, <2>1, <2>2 DEF BlobInv
<1>3. ASSUME NEW w \in Workers, Turn(w), \A v \in Workers \ {w} : req'[v] = Idle
      PROVE  BlobInv'
  <2>1. \A v \in Workers \ {w} : BlobsInHand(req[v])'
      BY <1>0, <1>3 DEF BlobsInHand
  <2>2. BlobsInHand(req[w])' /\ RowsHaveBlobs'
      BY <1>3, BlobReads, BlobWrites
  <2> QED
      BY <1>1, <2>1, <2>2 DEF BlobInv
<1> QED
    BY <1>2, <1>3, SerialStep

LEMMA BlobInvariant ==
    ASSUME MaxActive = 1, ~Failures
    PROVE  Spec => []BlobInv
<1>1. Init => BlobInv
    BY SerialInit DEF BlobInv, RowsHaveBlobs, BlobsInHand, Idle, Procs
<1>2. BlobInv /\ [Next]_vars => BlobInv'
    BY BlobStep
<1> QED
    BY <1>1, <1>2, PTL DEF Spec

\* With one request at a time and no failing statement, every row keeps its
\* blob, in the recycle bin too: the blob a duplicate, a copy or a purge decided
\* on is still what it was when they act on it.
THEOREM BlobsStay ==
    ASSUME MaxActive = 1, ~Failures
    PROVE  Spec => []RowsHaveBlobs
<1>1. BlobInv => RowsHaveBlobs
    BY DEF BlobInv
<1> QED
    BY <1>1, BlobInvariant, PTL

-----------------------------------------------------------------------------
(* Names *)

\* One row may take a name: it is free.  The others stay or go.
LEMMA NoNewClash ==
    ASSUME NEW i \in Ids,
           Live(i)' => ~FileNameExists(rows'[i].parent, rows'[i].owner, rows'[i].name),
           \A j \in Ids \ {i} : Live(j)' => Live(j) /\ KeepsFile(j) /\ KeepsPlace(j)
    PROVE  Clashes' \subseteq Clashes
<1> SUFFICES ASSUME NEW a \in Ids, NEW b \in Ids, Clash(a, b)' PROVE Clash(a, b)
    BY DEF Clashes
<1>1. /\ a # b /\ Live(a)' /\ Live(b)' /\ rows'[a].owner = rows'[b].owner
      /\ rows'[a].parent = rows'[b].parent /\ rows'[a].name = rows'[b].name
    BY DEF Clash
<1>2. ASSUME NEW j \in Ids \ {i}, Live(j)', Live(i)', rows'[j].owner = rows'[i].owner,
             rows'[j].parent = rows'[i].parent, rows'[j].name = rows'[i].name
      PROVE  FALSE
    BY <1>2 DEF FileNameExists, KeepsFile, KeepsPlace
<1>3. a # i /\ b # i
    BY <1>1, <1>2
<1> QED
    BY <1>1, <1>3 DEF Clash, KeepsFile, KeepsPlace

LEMMA FewerClashes ==
    ASSUME \A j \in Ids : Live(j)' => Live(j) /\ KeepsFile(j) /\ KeepsPlace(j)
    PROVE  Clashes' \subseteq Clashes
BY DEF Clashes, Clash, KeepsFile, KeepsPlace

LEMMA InsertClashes ==
    ASSUME TableTypeOK, NEW i \in Ids, NEW u, NEW p, NEW n, NEW h, NEW k,
           rows' = Inserted({}, i, NewRow(u, p, n, h, k)), ~FileNameExists(p, u, n)
    PROVE  Clashes' \subseteq Clashes
<1>1. rows'[i].parent = p /\ rows'[i].owner = u /\ rows'[i].name = n
  <2>1. rows'[i] = NewRow(u, p, n, h, k)
      BY InsertedColumns
  <2> QED
      BY <2>1 DEF NewRow
<1>2. ASSUME NEW j \in Ids \ {i}, Live(j)' PROVE Live(j) /\ KeepsFile(j) /\ KeepsPlace(j)
  <2>1. rows'[j] = SoftDeleted({})[j]
      BY InsertedColumns
  <2> QED
      BY <1>2, <2>1, SoftDeletedColumns DEF Live, Exists
<1> QED
    BY <1>1, <1>2, NoNewClash

LEMMA SameNames ==
    ASSUME rows' = rows
    PROVE  \A p, u, n : FileNameExists(p, u, n)' <=> FileNameExists(p, u, n)
BY DEF FileNameExists, Live

LEMMA NameReads ==
    ASSUME ConflictMode # "overwrite", TypeOK, NEW w \in Workers, Turn(w), NameFree(req[w])
    PROVE  NameFree(req[w])'
<1> w \in Procs /\ TableTypeOK
    BY DEF Procs, TypeOK
<1>1. PICK q : q = req'[w]
    OBVIOUS
<1>2. PICK r \in Request : r = req[w] /\ NameFree(r)
    BY DEF TypeOK
<1> SUFFICES NameFree(q)'
    BY <1>1 DEF NameFree
<1>r. ASSUME NEW p, NEW u, NEW n
      PROVE  \A t \in Resolved(p, u, n) : t.old = {} /\ ~FileNameExists(p, u, t.name)
    BY DEF Resolved, FreeNames
<1>3. CASE q.pc = "stored"
  <2>0. StoreBlob(w) \/ LinkDuplicate(w) \/ StoreMerged(w)
      BY <1>1, <1>3 DEF Turn, Origin
  <2>1. /\ rows' = rows /\ q.old = {}
        /\ q.from = NoUpload \/ ~q.fresh => ~FileNameExists(q.dest, q.user, q.name)
    <3>1. CASE StoreBlob(w)
      <4> DEFINE next(t, k) == [pc |-> "stored", user |-> r.user, dest |-> r.dest,
                                name |-> t.name, hash |-> r.hash, key |-> k,
                                fresh |-> (r.key = NoBlob), old |-> t.old,
                                freed |-> Bytes(t.old), from |-> NoUpload]
      <4>1. ~Finish(w)
          BY <1>1, <1>3, GotoReaches DEF Finish, Idle
      <4>2. rows' = rows /\ \E t \in Resolved(r.dest, r.user, r.name) : \E k : Goto(w, next(t, k))
          BY <1>2, <3>1, <4>1 DEF StoreBlob
      <4>3. PICK t \in Resolved(r.dest, r.user, r.name) : \E k : Goto(w, next(t, k))
          BY <4>2
      <4>4. PICK k : Goto(w, next(t, k))
          BY <4>3
      <4>5. /\ next(t, k).old = t.old /\ next(t, k).dest = r.dest
            /\ next(t, k).user = r.user /\ next(t, k).name = t.name
          OBVIOUS
      <4> HIDE DEF next
      <4>6. q = next(t, k)
          BY <1>1, <4>4, GotoReaches
      <4> QED
          BY <1>r, <4>2, <4>5, <4>6
    <3>2. CASE LinkDuplicate(w)
      <4>1. q # Idle
          BY <1>3 DEF Idle
      <4>2. PICK t \in Resolved(r.dest, r.user, r.name) : q = Stores(r, t.name, r.key)
          BY <1>1, <1>2, <3>2, <4>1, GotoReaches DEF LinkDuplicate
      <4>3. rows' = rows
          BY <3>2 DEF LinkDuplicate, tableVars
      <4> QED
          BY <1>r, <4>2, <4>3 DEF Stores
    <3>3. CASE StoreMerged(w)
      <4>1. PICK k \in Keys : q = Stores(r, r.name, k)
          BY <1>1, <1>2, <3>3, GotoReaches DEF StoreMerged
      <4>2. rows' = rows /\ r.from # NoUpload /\ r.key = NoBlob
          BY <1>2, <3>3 DEF StoreMerged
      <4> QED
          BY <4>1, <4>2 DEF Stores
    <3> QED
        BY <2>0, <3>1, <3>2, <3>3
  <2> QED
      BY <1>3, <2>1, SameNames DEF NameFree
<1>4. CASE q.pc = "mkdir"
  <2>1. PICK u \in Users, p \in Parents, n \in Names : CreateDir(w, u, p, n)
      BY <1>1, <1>4 DEF Turn, Origin
  <2>2. q = [pc |-> "mkdir", user |-> u, dest |-> p, name |-> n]
      BY <1>1, <2>1, GotoReaches DEF CreateDir
  <2>3. rows' = rows /\ ~FileNameExists(p, u, n)
      BY <2>1 DEF CreateDir, tableVars
  <2> QED
      BY <1>4, <2>2, <2>3, SameNames DEF NameFree
<1>5. CASE q.pc = "copy"
  <2>1. CopyInTx(w)
      BY <1>1, <1>5 DEF Turn, Origin
  <2>2. r.pc = "copyTx" /\ r \in Copying /\ rows' = rows
      BY <1>2, <2>1, RequestType DEF CopyInTx, tableVars
  <2>3. q # Idle
      BY <1>5 DEF Idle
  <2>4. PICK n \in IF FileNameExists(r.dest, r.user, r.name)
                   THEN FreeNames(r.dest, r.user) ELSE {r.name} :
            q = [r EXCEPT !.pc = "copy", !.name = n]
      BY <1>1, <1>2, <2>1, <2>3, GotoReaches DEF CopyInTx, Finish
  <2>5. q.dest = r.dest /\ q.user = r.user /\ q.name = n
      BY <2>2, <2>4 DEF Copying
  <2>6. ~FileNameExists(r.dest, r.user, n)
      BY <2>4 DEF FreeNames
  <2> QED
      BY <1>5, <2>2, <2>5, <2>6, SameNames DEF NameFree
<1>6. CASE q.pc = "rename"
  <2>1. PICK u \in Users, i \in Ids, n \in Names : RenameFile(w, u, i, n)
      BY <1>1, <1>6 DEF Turn, Origin
  <2>2. q = [pc |-> "rename", id |-> i, name |-> n]
      BY <1>1, <2>1, GotoReaches DEF RenameFile
  <2>3. rows' = rows /\ Owned(i, u) /\ ~FileNameExists(rows[i].parent, u, n)
      BY <2>1 DEF RenameFile, tableVars
  <2> QED
      BY <1>6, <2>2, <2>3, SameNames DEF NameFree, Owned, Exists
<1>7. CASE q.pc = "move"
  <2>1. MoveInTx(w) \/ BatchMoveInTx(w)
      BY <1>1, <1>7 DEF Turn, Origin
  <2>2. r \in Moving /\ rows' = rows
      BY <1>2, <2>1, RequestType DEF MoveInTx, BatchMoveInTx, tableVars
  <2>3. q # Idle
      BY <1>7 DEF Idle
  <2>4. /\ q = [r EXCEPT !.pc = "move"]
        /\ \A i \in r.ids : Owned(i, r.user) /\ ~FileNameExists(r.dest, r.user, rows[i].name)
      BY <1>1, <1>2, <2>1, <2>3, GotoReaches DEF MoveInTx, BatchMoveInTx, Finish
  <2>5. q.ids = r.ids /\ q.dest = r.dest /\ q.user = r.user
      BY <2>2, <2>4 DEF Moving
  <2> QED
      BY <1>7, <2>2, <2>4, <2>5, SameNames DEF NameFree, Owned, Exists
<1>8. CASE q.pc \notin {"stored", "mkdir", "copy", "rename", "move"}
    BY <1>8 DEF NameFree
<1> QED
    BY <1>3, <1>4, <1>5, <1>6, <1>7, <1>8

\* Two siblings may come to share a name in this step.
Excused ==
    \E w \in Handlers : /\ req'[w] # req[w]
                        /\ \/ req[w].pc = "restore"
                           \/ req[w].pc = "move" /\ Cardinality(req[w].ids) > 1
                           \/ CommitsChunked(w) /\ req[w].fresh

LEMMA NameWrites ==
    ASSUME TypeOK, NEW w \in Workers, Turn(w), NameFree(req[w]), ~(Clashes' \subseteq Clashes)
    PROVE  Excused
<1> w \in Procs /\ TableTypeOK
    BY DEF Procs, TypeOK
<1>1. PICK r \in Request : r = req[w] /\ NameFree(r)
    BY DEF TypeOK
<1>2. rows' # rows
    BY FewerClashes DEF Live, KeepsFile, KeepsPlace
<1>3. CASE CommitDelete(w)
  <2>1. rows' = SoftDeleted(r.ids)
      BY <1>1, <1>3 DEF CommitDelete
  <2>2. \A j \in Ids : Live(j)' => Live(j) /\ KeepsFile(j) /\ KeepsPlace(j)
      BY <2>1, SoftDeletedColumns DEF Live, Exists
  <2> QED
      BY <2>2, FewerClashes
<1>4. CASE CommitPurge(w) \/ (w = Cleaner /\ CleanRows)
  <2>1. PICK S : rows' = HardDeleted(S)
      BY <1>4 DEF CommitPurge, CleanRows
  <2>2. \A j \in Ids : Live(j)' => Live(j) /\ KeepsFile(j) /\ KeepsPlace(j)
      BY <2>1, HardDeletedColumns DEF Live, Exists, KeepsFile, KeepsPlace
  <2> QED
      BY <2>2, FewerClashes
<1>5. CASE w \in Handlers /\ CommitRestore(w)
  <2>1. req[w].pc = "restore" /\ req'[w] = Idle
      BY <1>5, GotoReaches DEF CommitRestore, Finish
  <2> QED
      BY <1>5, <2>1 DEF Excused, Idle
<1>6. CASE InsertDir(w) \/ CommitCopy(w)
  <2>1. r.pc \in {"mkdir", "copy"}
      BY <1>1, <1>6 DEF InsertDir, CommitCopy
  <2>2. PICK h, k : \E i \in Ids : rows' = Inserted({}, i, NewRow(r.user, r.dest, r.name, h, k))
      BY <1>1, <1>2, <1>6 DEF InsertDir, CommitCopy
  <2> QED
      BY <1>1, <2>1, <2>2, InsertClashes DEF NameFree
<1>7. CASE w \in Handlers /\ CommitUpload(w)
  <2>1. r.pc = "stored" /\ req'[w].pc \in {"uploaded", "idle"}
    <3>1. PICK q : Goto(w, q) /\ q.pc \in {"uploaded", "idle"}
        BY <1>7 DEF CommitUpload, Idle, Finish
    <3> QED
        BY <1>1, <1>7, <3>1, GotoReaches DEF CommitUpload
  <2>2. CASE r.from = NoUpload \/ ~r.fresh
    <3>1. r.old = {} /\ ~FileNameExists(r.dest, r.user, r.name)
        BY <1>1, <2>1, <2>2 DEF NameFree
    <3>2. PICK i \in Ids : rows' = Inserted({}, i, NewRow(r.user, r.dest, r.name, r.hash, r.key))
        BY <1>1, <1>2, <1>7, <3>1 DEF CommitUpload
    <3> QED
        BY <3>1, <3>2, InsertClashes
  <2>3. CASE r.from # NoUpload /\ r.fresh
      BY <1>1, <1>7, <2>1, <2>3 DEF Excused, CommitsChunked
  <2> QED
      BY <2>2, <2>3
<1>8. CASE CommitRename(w)
  <2>1. r \in Rename /\ r.pc = "rename" /\ rows' = Renamed(r.id, r.name)
      BY <1>1, <1>8, RequestType DEF CommitRename
  <2>2. r.id \in Ids /\ Exists(r.id) /\ ~FileNameExists(rows[r.id].parent, rows[r.id].owner, r.name)
      BY <1>1, <2>1 DEF NameFree, Rename
  <2>3. ASSUME NEW j \in Ids \ {r.id}, Live(j)' PROVE Live(j) /\ KeepsFile(j) /\ KeepsPlace(j)
      BY <2>1, <2>2, <2>3, RenamedColumns DEF Live, Exists, KeepsPlace
  <2>4. /\ rows'[r.id].parent = rows[r.id].parent /\ rows'[r.id].owner = rows[r.id].owner
        /\ rows'[r.id].name = r.name
      BY <2>1, <2>2, RenamedColumns DEF KeepsFile
  <2> QED
      BY <2>2, <2>3, <2>4, NoNewClash
<1>9. CASE w \in Handlers /\ CommitMove(w)
  <2>1. r \in Moving /\ r.pc = "move" /\ req'[w] = Idle
      BY <1>1, <1>9, RequestType, GotoReaches DEF CommitMove, Finish
  <2>2. rows' = Moved(r.ids, r.dest)
      BY <1>1, <1>2, <1>9 DEF CommitMove
  <2>3. CASE Cardinality(r.ids) > 1
      BY <1>1, <1>9, <2>1, <2>3 DEF Excused, Idle
  <2>4. CASE ~(Cardinality(r.ids) > 1)
    <3>1. r.ids \in SUBSET Ids /\ IsFiniteSet(r.ids)
        BY <2>1, TableAssumption, FS_Subset DEF Moving, TableAssumption
    <3>2. Cardinality(r.ids) \in {0, 1}
        BY <2>4, <3>1, FS_CardinalityType
    <3>3. r.ids = {} \/ \E i : r.ids = {i}
        BY <3>1, <3>2, FS_EmptySet, FS_Singleton
    <3>4. ASSUME NEW j \in Ids, j \notin r.ids, Live(j)'
          PROVE  Live(j) /\ KeepsFile(j) /\ KeepsPlace(j)
        BY <2>2, <3>4, MovedColumns DEF Live, Exists, KeepsPlace
    <3>5. CASE r.ids = {}
        BY <3>4, <3>5, FewerClashes
    <3>6. ASSUME NEW i, r.ids = {i} PROVE FALSE
      <4>1. i \in Ids /\ Owned(i, r.user) /\ ~FileNameExists(r.dest, r.user, rows[i].name)
          BY <1>1, <2>1, <3>1, <3>6 DEF NameFree
      <4>2. /\ rows'[i].parent = r.dest /\ rows'[i].owner = r.user
            /\ rows'[i].name = rows[i].name
        <5>1. Exists(i) /\ rows[i].owner = r.user /\ i \in r.ids
            BY <3>6, <4>1 DEF Owned
        <5>2. KeepsFile(i) /\ rows'[i].name = rows[i].name
              /\ rows'[i].parent = IF i \in r.ids THEN r.dest ELSE rows[i].parent
            BY <2>2, <4>1, <5>1, MovedColumns
        <5> QED
            BY <5>1, <5>2 DEF KeepsFile
      <4> QED
          BY <3>4, <3>6, <4>1, <4>2, NoNewClash
    <3> QED
        BY <3>3, <3>5, <3>6
  <2> QED
      BY <2>3, <2>4
<1> QED
    BY <1>2, <1>3, <1>4, <1>5, <1>6, <1>7, <1>8, <1>9 DEF Turn, Writer

NameInv == TypeOK /\ OneAtATime /\ \A w \in Workers : NameFree(req[w])

LEMMA NameStep ==
    ASSUME MaxActive = 1, ConflictMode # "overwrite", NameInv, [Next]_vars
    PROVE  NameInv' /\ (~(Clashes' \subseteq Clashes) => Excused)
<1> TypeOK /\ OneAtATime /\ \A v \in Workers : NameFree(req[v])
    BY DEF NameInv
<1>1. TypeOK' /\ OneAtATime'
    BY NextType, SerialStep
<1>0. NameFree(Idle)'
    BY DEF NameFree, Idle
<1>2. CASE Quiet
  <2>0. rows' = rows
      BY <1>2 DEF Quiet, tableVars
  <2>1. ASSUME NEW v \in Workers PROVE NameFree(req[v])'
    <3>1. PICK r : r = req[v] /\ NameFree(r)
        OBVIOUS
    <3>2. NameFree(r)'
        BY <2>0, <3>1, SameNames DEF NameFree, Owned, Exists
    <3>3. CASE req'[v] = r
        BY <3>2, <3>3 DEF NameFree
    <3>4. CASE req'[v] = Idle
        BY <1>0, <3>4 DEF NameFree
    <3> QED
        BY <1>2, <3>1, <3>3, <3>4 DEF Quiet
  <2>2. Clashes' \subseteq Clashes
      BY <2>0, FewerClashes DEF Live, KeepsFile, KeepsPlace
  <2> QED
      BY <1>1, <2>1, <2>2 DEF NameInv
<1>3. ASSUME NEW w \in Workers, Turn(w), \A v \in Workers \ {w} : req'[v] = Idle
      PROVE  NameInv' /\ (~(Clashes' \subseteq Clashes) => Excused)
  <2>1. \A v \in Workers \ {w} : NameFree(req[v])'
      BY <1>0, <1>3 DEF NameFree
  <2>2. NameFree(req[w])' /\ (~(Clashes' \subseteq Clashes) => Excused)
      BY <1>3, NameReads, NameWrites
  <2> QED
      BY <1>1, <2>1, <2>2 DEF NameInv
<1> QED
    BY <1>2, <1>3, SerialStep

LEMMA NameInvariant ==
    ASSUME MaxActive = 1, ConflictMode # "overwrite"
    PROVE  Spec => []NameInv
<1>1. Init => NameInv
    BY SerialInit DEF NameInv, NameFree, Idle, Procs
<1>2. NameInv /\ [Next]_vars => NameInv'
    BY NameStep
<1> QED
    BY <1>1, <1>2, PTL DEF Spec

\* With one request at a time, two live siblings come to share a name in the
\* three ways NamesClashOnlyBy lists and in no other: no upload, copy, rename or
\* move of one row takes a name that is in use, whatever fails.
THEOREM NamesClashNoOtherWay ==
    ASSUME MaxActive = 1, ConflictMode # "overwrite"
    PROVE  Spec => NamesClashOnlyBy
<1>1. NameInv /\ [Next]_vars => [~(Clashes' \subseteq Clashes) => Excused]_vars
    BY NameStep
<1> QED
    BY <1>1, NameInvariant, PTL DEF Spec, NamesClashOnlyBy, Excused

-----------------------------------------------------------------------------
(* What the recursive query finds *)

LEMMA ChildrenGrow ==
    ASSUME NEW S, NEW T, S \subseteq T
    PROVE  Children(S) \subseteq Children(T)
BY DEF Children

LEMMA BelowLeast ==
    ASSUME NEW r, NEW S \in SUBSET Ids, Children(S \cup {r}) \subseteq S
    PROVE  Below(r) \subseteq S
BY DEF Below

LEMMA BelowLeastNext ==
    ASSUME NEW r, NEW S \in SUBSET Ids, Children(S \cup {r})' \subseteq S
    PROVE  Below(r)' \subseteq S
BY DEF Below

LEMMA BelowClosed ==
    ASSUME NEW r
    PROVE  Below(r) \in SUBSET Ids /\ Children(Below(r) \cup {r}) \subseteq Below(r)
<1>1. Below(r) \in SUBSET Ids
    BY DEF Below
<1>2. ASSUME NEW j \in Children(Below(r) \cup {r}) PROVE j \in Below(r)
  <2>1. j \in Ids
      BY <1>2 DEF Children
  <2>2. ASSUME NEW S \in SUBSET Ids, Children(S \cup {r}) \subseteq S PROVE j \in S
    <3>1. Below(r) \cup {r} \subseteq S \cup {r}
        BY <2>2, BelowLeast
    <3>2. j \in Children(S \cup {r})
        BY <1>2, <3>1, ChildrenGrow
    <3> QED
        BY <2>2, <3>2
  <2> QED
      BY <2>1, <2>2 DEF Below
<1> QED
    BY <1>1, <1>2

\* What lies below r hangs below r or below something that does.
LEMMA BelowParent ==
    ASSUME NEW r, NEW j \in Below(r)
    PROVE  j \in Ids /\ Exists(j) /\ rows[j].parent \in Below(r) \cup {r}
<1> DEFINE S == Children(Below(r) \cup {r})
<1>1. S \in SUBSET Ids
    BY DEF Children
<1>2. S \cup {r} \subseteq Below(r) \cup {r}
    BY BelowClosed
<1>3. Children(S \cup {r}) \subseteq S
    BY <1>2, ChildrenGrow
<1> HIDE DEF S
<1>4. Below(r) \subseteq S
    BY <1>1, <1>3, BelowLeast
<1>5. j \in S
    BY <1>4
<1> QED
    BY <1>5 DEF S, Children

LEMMA BelowTransitive ==
    ASSUME NEW r, NEW j \in Below(r)
    PROVE  Below(j) \subseteq Below(r)
<1>1. Below(r) \cup {j} \subseteq Below(r) \cup {r}
    OBVIOUS
<1>2. Children(Below(r) \cup {j}) \subseteq Below(r)
    BY <1>1, ChildrenGrow, BelowClosed
<1> QED
    BY <1>2, BelowLeast, BelowClosed

\* Every row has one parent: what hangs off a cycle upwards lies on it.
LEMMA CycleUp ==
    ASSUME NEW j \in Ids, CycleAt(j)
    PROVE  CycleAt(rows[j].parent)
<1> DEFINE p == rows[j].parent
<1>1. j \in Below(j) /\ Exists(j) /\ p \in Below(j) \cup {j}
    BY BelowParent DEF CycleAt
<1>2. j \in Below(p)
    BY <1>1, BelowClosed DEF Children
<1>3. Below(j) \subseteq Below(p)
    BY <1>2, BelowTransitive
<1> QED
    BY <1>1, <1>2, <1>3 DEF CycleAt

LEMMA AcyclicBelow ==
    ASSUME NEW r, ~CycleAt(r)
    PROVE  \A j \in Below(r) : ~CycleAt(j)
<1> DEFINE S == {j \in Below(r) : ~CycleAt(j)}
<1>1. S \in SUBSET Ids
    BY BelowClosed
<1>2. ASSUME NEW c \in Children(S \cup {r}) PROVE c \in S
  <2>1. c \in Ids /\ Exists(c) /\ rows[c].parent \in S \cup {r}
      BY <1>2 DEF Children
  <2>2. ~CycleAt(c)
      BY <2>1, CycleUp
  <2>3. c \in Children(Below(r) \cup {r})
      BY <2>1 DEF Children
  <2>4. c \in Below(r)
      BY <2>3, BelowClosed
  <2> QED
      BY <2>2, <2>4
<1> HIDE DEF S
<1>3. Below(r) \subseteq S
    BY <1>1, <1>2, BelowLeast
<1> QED
    BY <1>3 DEF S

\* Only a directory has rows below it.
LEMMA FileHasNone ==
    ASSUME IInv, NEW i \in Ids, Exists(i), ~IsDir(i)
    PROVE  Children({i}) = {} /\ Below(i) = {}
<1>1. Children({i}) = {}
    BY TableAssumption DEF Children, IInv, OwnDir, TableAssumption
<1>2. Children({} \cup {i}) \subseteq {}
    BY <1>1
<1>3. Below(i) \subseteq {}
    BY <1>2, BelowLeast
<1> QED
    BY <1>1, <1>3

\* What a deletion, a restore or a purge of i collects, in the one state or the other.
Tree(i, b) == {i} \cup IF IsDir(i) THEN DescendantIDs(i, b) ELSE {}

In(j, b) == IF b THEN Deleted(j) ELSE Live(j)

LEMMA TreeDown ==
    ASSUME IInv, NEW i \in Ids, Exists(i), IsDir(i) => ~CycleAt(i), NEW b \in BOOLEAN
    PROVE  /\ \A j \in Tree(i, b) : j \in Ids /\ Exists(j) /\ ~CycleAt(j)
           /\ \A j \in Children(Tree(i, b)) : In(j, b) => j \in Tree(i, b)
           /\ \A j \in Tree(i, b) \ {i} :
                 /\ In(j, b) /\ Exists(rows[j].parent)
                 /\ In(rows[j].parent, b) => rows[j].parent \in Tree(i, b)
<1> DEFINE S == Tree(i, b)
<1>1. CASE ~IsDir(i)
  <2>1. S = {i} /\ Children({i}) = {} /\ ~CycleAt(i)
      BY <1>1, FileHasNone DEF CycleAt, Tree
  <2> QED
      BY <2>1
<1>2. CASE IsDir(i)
  <2>1. S = {i} \cup DescendantIDs(i, b)
      BY <1>2 DEF Tree
  <2>2. \A j \in Ids : j \in DescendantIDs(i, b) <=> j \in Below(i) /\ In(j, b)
      BY DEF DescendantIDs, In
  <2>3. DescendantIDs(i, b) \in SUBSET Ids
      BY DEF DescendantIDs
  <2>4. \A j \in Below(i) : ~CycleAt(j) /\ Exists(j) /\ rows[j].parent \in Below(i) \cup {i}
      BY <1>2, AcyclicBelow, BelowParent
  <2>5. \A j \in S : j \in Ids /\ Exists(j) /\ ~CycleAt(j)
      BY <1>2, <2>1, <2>2, <2>3, <2>4
  <2>6. ASSUME NEW j \in Children(S), In(j, b) PROVE j \in S
    <3>1. S \subseteq Below(i) \cup {i}
        BY <2>1, <2>2, <2>3
    <3>2. j \in Below(i) /\ j \in Ids
        BY <3>1, ChildrenGrow, BelowClosed
    <3> QED
        BY <2>1, <2>2, <2>6, <3>2
  <2>7. ASSUME NEW j \in S \ {i}
        PROVE  /\ In(j, b) /\ Exists(rows[j].parent)
               /\ In(rows[j].parent, b) => rows[j].parent \in S
    <3>1. j \in Below(i) /\ In(j, b) /\ rows[j].parent \in Below(i) \cup {i}
        BY <2>1, <2>2, <2>3, <2>4, <2>7
    <3>2. Below(i) \in SUBSET Ids
        BY BelowClosed
    <3> QED
        BY <2>1, <2>2, <2>4, <3>1, <3>2
  <2> QED
      BY <2>5, <2>6, <2>7
<1> QED
    BY <1>1, <1>2

-----------------------------------------------------------------------------
(* Trees *)

LiveDir(i) == Live(i) /\ IsDir(i)

\* No live directory hangs below a row that is not one.
LEMMA BelowOthers ==
    ASSUME IInv, LiveDirsHang, NEW j \in Ids, ~LiveDir(j)
    PROVE  \A k \in Below(j) : ~LiveDir(k)
<1> DEFINE S == {k \in Below(j) : ~LiveDir(k)}
<1>1. S \in SUBSET Ids
    BY BelowClosed
<1>2. ASSUME NEW c \in Children(S \cup {j}) PROVE c \in S
  <2>1. c \in Ids /\ Exists(c) /\ rows[c].parent \in S \cup {j}
      BY <1>2 DEF Children
  <2>2. c \in Below(j)
    <3>1. c \in Children(Below(j) \cup {j})
        BY <2>1 DEF Children
    <3> QED
        BY <3>1, BelowClosed
  <2>3. rows[c].parent \in Ids /\ ~LiveDir(rows[c].parent)
      BY <1>1, <2>1
  <2>4. rows[c].parent # Root /\ (Exists(rows[c].parent) => IsDir(rows[c].parent))
      BY <2>1, <2>3, TableAssumption DEF IInv, OwnDir, TableAssumption
  <2>5. ~LiveDir(c)
      BY <2>1, <2>3, <2>4 DEF LiveDirsHang, LiveDir, DirLive, Live, Exists
  <2> QED
      BY <2>2, <2>5
<1> HIDE DEF S
<1>3. Below(j) \subseteq S
    BY <1>1, <1>2, BelowLeast
<1> QED
    BY <1>3 DEF S

LEMMA SameTrees ==
    ASSUME rows' = rows
    PROVE  (\A S : Children(S)' = Children(S)) /\ (\A j : CycleAt(j)' <=> CycleAt(j))
<1>1. \A S : Children(S)' = Children(S)
    BY DEF Children, Exists
<1> QED
    BY <1>1 DEF CycleAt, Below

LEMMA TreeStays ==
    ASSUME rows' = rows, NEW r, TreeWhole(r)
    PROVE  TreeWhole(r)'
<1>1. \A i : /\ Exists(i)' <=> Exists(i)
             /\ Live(i)' <=> Live(i)
             /\ Deleted(i)' <=> Deleted(i)
             /\ DirLive(i)' <=> DirLive(i)
    BY DEF Exists, Live, Deleted, DirLive
<1> QED
    BY <1>1, SameTrees DEF TreeWhole

\* Rows only leave their places for the root or go: no cycle comes about.
LEMMA NoNewCycle ==
    ASSUME \A c \in Ids : Exists(c)' => Exists(c) /\ rows'[c].parent \in {rows[c].parent, Root},
           NEW j \in Ids, CycleAt(j)'
    PROVE  CycleAt(j)
<1>1. PICK B : B = Below(j)
    OBVIOUS
<1>2. B \in SUBSET Ids /\ Children(B \cup {j}) \subseteq B
    BY <1>1, BelowClosed
<1>3. Children(B \cup {j})' \subseteq B
    BY <1>2, TableAssumption DEF Children, TableAssumption
<1>4. Below(j)' \subseteq B
    BY <1>2, <1>3, BelowLeastNext
<1> QED
    BY <1>1, <1>4 DEF CycleAt

LEMMA ValidDirLives ==
    ASSUME NEW p, NEW u, ValidDir(p, u)
    PROVE  DirLive(p)
BY DEF ValidDir, DirLive

LEMMA TreeReads ==
    ASSUME IInv, DeletedAcyclic, NEW w \in Workers, Turn(w), TreeWhole(req[w])
    PROVE  TreeWhole(req[w])'
<1> w \in Procs /\ TypeOK /\ TableTypeOK
    BY DEF Procs, IInv, TypeOK
<1>1. PICK q : q = req'[w]
    OBVIOUS
<1>2. PICK r \in Request : r = req[w] /\ TreeWhole(r)
    BY DEF TypeOK
<1> SUFFICES TreeWhole(q)'
    BY <1>1 DEF TreeWhole
<1>3. CASE q.pc = "hashed"
  <2>1. CASE \E u \in Users, p \in Parents, n \in Names, h \in Contents : UploadFile(w, u, p, n, h)
    <3>1. PICK u \in Users, p \in Parents, n \in Names, h \in Contents : UploadFile(w, u, p, n, h)
        BY <2>1
    <3>2. q = [pc |-> "hashed", user |-> u, dest |-> p, name |-> n, hash |-> h, from |-> NoUpload]
        BY <1>1, <3>1, GotoReaches DEF UploadFile
    <3>3. rows' = rows /\ DirLive(p)
        BY <3>1, ValidDirLives DEF UploadFile, tableVars
    <3> QED
        BY <1>3, <3>2, <3>3, TreeStays DEF TreeWhole
  <2>2. CASE \E s \in Uploads, h \in Contents : CompleteUpload(w, s, h)
    <3>1. PICK s \in Uploads, h \in Contents : CompleteUpload(w, s, h)
        BY <2>2
    <3>2. q.from = s
        BY <1>1, <3>1, GotoReaches DEF CompleteUpload
    <3> QED
        BY <1>3, <3>2, ServiceAssumption DEF TreeWhole, ServiceAssumption
  <2> QED
      BY <1>1, <1>3, <2>1, <2>2 DEF Turn, Origin
<1>4. CASE q.pc = "lookedUp"
  <2>1. LookupHash(w)
      BY <1>1, <1>4 DEF Turn, Origin
  <2>2. PICK k : q = [pc |-> "lookedUp", user |-> r.user, dest |-> r.dest,
                      name |-> r.name, hash |-> r.hash, key |-> k, from |-> r.from]
      BY <1>1, <1>2, <2>1, GotoReaches DEF LookupHash
  <2>3. r.pc = "hashed" /\ rows' = rows /\ q.dest = r.dest /\ q.from = r.from
      BY <1>2, <2>1, <2>2 DEF LookupHash, tableVars
  <2> QED
      BY <1>2, <1>4, <2>3, TreeStays DEF TreeWhole
<1>5. CASE q.pc = "stored"
  <2>0. StoreBlob(w) \/ LinkDuplicate(w) \/ StoreMerged(w)
      BY <1>1, <1>5 DEF Turn, Origin
  <2>1. r.pc = "lookedUp" /\ rows' = rows
      BY <1>2, <2>0 DEF StoreBlob, LinkDuplicate, StoreMerged, tableVars
  <2>2. q.dest = r.dest /\ q.from = r.from
    <3>1. CASE StoreBlob(w)
      <4> DEFINE next(t, k) == [pc |-> "stored", user |-> r.user, dest |-> r.dest,
                                name |-> t.name, hash |-> r.hash, key |-> k,
                                fresh |-> (r.key = NoBlob), old |-> t.old,
                                freed |-> Bytes(t.old), from |-> NoUpload]
      <4>1. ~Finish(w)
          BY <1>1, <1>5, GotoReaches DEF Finish, Idle
      <4>2. PICK t, k : Goto(w, next(t, k))
          BY <1>2, <3>1, <4>1 DEF StoreBlob
      <4>3. next(t, k).dest = r.dest /\ next(t, k).from = NoUpload
          OBVIOUS
      <4> HIDE DEF next
      <4>4. q = next(t, k)
          BY <1>1, <4>2, GotoReaches
      <4> QED
          BY <1>2, <3>1, <4>3, <4>4 DEF StoreBlob
    <3>2. CASE LinkDuplicate(w)
      <4>1. q # Idle
          BY <1>5 DEF Idle
      <4>2. PICK n : q = Stores(r, n, r.key)
          BY <1>1, <1>2, <3>2, <4>1, GotoReaches DEF LinkDuplicate
      <4> QED
          BY <4>2 DEF Stores
    <3>3. CASE StoreMerged(w)
      <4>1. PICK k : q = Stores(r, r.name, k)
          BY <1>1, <1>2, <3>3, GotoReaches DEF StoreMerged
      <4> QED
          BY <4>1 DEF Stores
    <3> QED
        BY <2>0, <3>1, <3>2, <3>3
  <2> QED
      BY <1>2, <1>5, <2>1, <2>2, TreeStays DEF TreeWhole
<1>6. CASE q.pc \in {"mkdir", "moveTx", "batchMoveTx", "copyTx"}
  <2>1. PICK u, p : ValidDir(p, u) /\ UNCHANGED tableVars /\ q.dest = p
    <3>1. CASE q.pc = "mkdir"
      <4>1. PICK u \in Users, p \in Parents, n \in Names : CreateDir(w, u, p, n)
          BY <1>1, <3>1 DEF Turn, Origin
      <4>2. q = [pc |-> "mkdir", user |-> u, dest |-> p, name |-> n]
          BY <1>1, <4>1, GotoReaches DEF CreateDir
      <4> QED
          BY <4>1, <4>2 DEF CreateDir
    <3>2. CASE q.pc = "moveTx"
      <4>1. PICK u \in Users, i \in Ids, p \in Parents : MoveFile(w, u, i, p)
          BY <1>1, <3>2 DEF Turn, Origin
      <4>2. q = [pc |-> "moveTx", user |-> u, ids |-> {i}, dest |-> p]
          BY <1>1, <4>1, GotoReaches DEF MoveFile
      <4>3. ValidDir(p, u) /\ UNCHANGED tableVars
          BY <4>1 DEF MoveFile
      <4>4. q.dest = p
          BY <4>2
      <4> QED
          BY <4>3, <4>4
    <3>3. CASE q.pc = "batchMoveTx"
      <4>1. PICK u \in Users, S \in SUBSET Ids, p \in Parents : BatchMove(w, u, S, p)
          BY <1>1, <3>3 DEF Turn, Origin
      <4>2. q = [pc |-> "batchMoveTx", user |-> u, ids |-> S, dest |-> p]
          BY <1>1, <4>1, GotoReaches DEF BatchMove
      <4> QED
          BY <4>1, <4>2 DEF BatchMove
    <3>4. CASE q.pc = "copyTx"
      <4>1. PICK u \in Users, i \in Ids, p \in Parents : CopyFile(w, u, i, p)
          BY <1>1, <3>4 DEF Turn, Origin
      <4>2. q = [pc |-> "copyTx", user |-> u, dest |-> p, name |-> rows[i].name,
                 hash |-> rows[i].hash, key |-> rows[i].key]
          BY <1>1, <4>1, GotoReaches DEF CopyFile
      <4> QED
          BY <4>1, <4>2 DEF CopyFile
    <3> QED
        BY <1>6, <3>1, <3>2, <3>3, <3>4
  <2>2. DirLive(q.dest) /\ rows' = rows
      BY <2>1, ValidDirLives DEF tableVars
  <2> QED
      BY <1>6, <2>2, TreeStays DEF TreeWhole
<1>7. CASE q.pc \in {"move", "copy"}
  <2>1. /\ q.dest = r.dest /\ rows' = rows
        /\ r.pc \in {"moveTx", "batchMoveTx", "copyTx"}
    <3>1. CASE q.pc = "move"
      <4>1. MoveInTx(w) \/ BatchMoveInTx(w)
          BY <1>1, <3>1 DEF Turn, Origin
      <4>2. r \in Moving /\ r.pc \in {"moveTx", "batchMoveTx"} /\ rows' = rows
          BY <1>2, <4>1, RequestType DEF MoveInTx, BatchMoveInTx, tableVars
      <4>3. q # Idle
          BY <3>1 DEF Idle
      <4>4. q = [r EXCEPT !.pc = "move"]
          BY <1>1, <1>2, <4>1, <4>3, GotoReaches DEF MoveInTx, BatchMoveInTx, Finish
      <4>5. q.dest = r.dest
          BY <4>2, <4>4 DEF Moving
      <4> QED
          BY <4>2, <4>5
    <3>2. CASE q.pc = "copy"
      <4>1. CopyInTx(w)
          BY <1>1, <3>2 DEF Turn, Origin
      <4>2. r \in Copying /\ r.pc = "copyTx" /\ rows' = rows
          BY <1>2, <4>1, RequestType DEF CopyInTx, tableVars
      <4>3. q # Idle
          BY <3>2 DEF Idle
      <4>4. PICK n : q = [r EXCEPT !.pc = "copy", !.name = n]
          BY <1>1, <1>2, <4>1, <4>3, GotoReaches DEF CopyInTx, Finish
      <4>5. q.dest = r.dest
          BY <4>2, <4>4 DEF Copying
      <4> QED
          BY <4>2, <4>5
    <3> QED
        BY <1>7, <3>1, <3>2
  <2> QED
      BY <1>2, <1>7, <2>1, TreeStays DEF TreeWhole
<1>8. CASE q.pc = "delete"
  <2>1. /\ rows' = rows
        /\ \A j \in q.ids : Exists(j) /\ ~CycleAt(j)
        /\ \A j \in Children(q.ids) : Live(j) => j \in q.ids
    <3>1. CASE \E u \in Users, i \in Ids : DeleteFile(w, u, i)
      <4>1. PICK u \in Users, i \in Ids : DeleteFile(w, u, i)
          BY <3>1
      <4>2. PICK b : q = [pc |-> "delete", user |-> u, ids |-> Tree(i, FALSE), freed |-> b]
          BY <1>1, <4>1, GotoReaches DEF DeleteFile, Tree
      <4>3. rows' = rows /\ Exists(i) /\ (IsDir(i) => ~CycleAt(i)) /\ q.ids = Tree(i, FALSE)
          BY <4>1, <4>2 DEF DeleteFile, Owned, tableVars
      <4> QED
          BY <4>3, TreeDown DEF In
    <3>2. CASE \E u \in Users, S \in SUBSET Ids : BatchDelete(w, u, S)
      <4>1. PICK u \in Users, S \in SUBSET Ids : BatchDelete(w, u, S)
          BY <3>2
      <4> DEFINE T == {j \in Ids : \E i \in S : j \in Tree(i, FALSE)}
      <4>2. PICK b : q = [pc |-> "delete", user |-> u, ids |-> T, freed |-> b]
          BY <1>1, <4>1, GotoReaches DEF BatchDelete, Tree
      <4>3. rows' = rows /\ \A i \in S : Exists(i) /\ (IsDir(i) => ~CycleAt(i))
          BY <4>1 DEF BatchDelete, Owned, tableVars
      <4>4. \A j \in T : Exists(j) /\ ~CycleAt(j)
          BY <4>3, TreeDown
      <4>5. ASSUME NEW j \in Children(T), Live(j) PROVE j \in T
        <5>1. j \in Ids /\ Exists(j) /\ rows[j].parent \in T
            BY <4>5 DEF Children
        <5>2. PICK i \in S : rows[j].parent \in Tree(i, FALSE)
            BY <5>1
        <5>3. j \in Children(Tree(i, FALSE))
            BY <5>1, <5>2 DEF Children
        <5>4. j \in Tree(i, FALSE)
            BY <4>3, <4>5, <5>3, TreeDown DEF In
        <5> QED
            BY <5>1, <5>4
      <4>6. q.ids = T
          BY <4>2
      <4> HIDE DEF T
      <4> QED
          BY <4>3, <4>4, <4>5, <4>6
    <3> QED
        BY <1>1, <1>8, <3>1, <3>2 DEF Turn, Origin
  <2> QED
      BY <1>8, <2>1, TreeStays DEF TreeWhole
<1>9. CASE q.pc = "restore"
  <2>1. PICK u \in Users, i \in Ids : RestoreFile(w, u, i)
      BY <1>1, <1>9 DEF Turn, Origin
  <2> DEFINE p == rows[i].parent
             reachable == p # Root => Owned(p, u) /\ Live(p)
  <2>2. PICK b : q = [pc |-> "restore", user |-> u, ids |-> Tree(i, TRUE),
                      lifted |-> IF reachable THEN {} ELSE {i}, gained |-> b]
      BY <1>1, <2>1, GotoReaches DEF RestoreFile, Tree
  <2>3. /\ rows' = rows /\ Exists(i) /\ (IsDir(i) => ~CycleAt(i))
        /\ q.ids = Tree(i, TRUE) /\ (i \in q.lifted \/ DirLive(p))
      BY <2>1, <2>2 DEF RestoreFile, Owned, tableVars, DirLive
  <2>4. ASSUME NEW j \in Tree(i, TRUE)
        PROVE  /\ Exists(j)
               /\ j \in q.lifted \/ DirLive(rows[j].parent) \/ rows[j].parent \in q.ids
    <3>1. CASE j = i
        BY <2>3, <3>1
    <3>2. CASE j # i
      <4>1. Exists(j) /\ Exists(rows[j].parent)
            /\ (Deleted(rows[j].parent) => rows[j].parent \in Tree(i, TRUE))
          BY <2>3, <3>2, TreeDown DEF In
      <4> QED
          BY <2>3, <4>1 DEF DirLive, Exists, Live, Deleted
    <3> QED
        BY <3>1, <3>2
  <2> QED
      BY <1>9, <2>3, <2>4, TreeStays DEF TreeWhole
<1>10. CASE q.pc \in {"purge", "count", "clean"}
  <2>1. rows' = rows /\ \A j \in Children(q.ids) : Deleted(j) => j \in q.ids
    <3>1. CASE q.pc = "purge"
      <4>1. PICK u \in Users, i \in Ids : PermanentDeleteFile(w, u, i)
          BY <1>1, <3>1 DEF Turn, Origin
      <4>2. PICK b : q = [pc |-> "purge", user |-> u, ids |-> Tree(i, TRUE), freed |-> b]
          BY <1>1, <4>1, GotoReaches DEF PermanentDeleteFile, Tree
      <4>3. rows' = rows /\ Exists(i) /\ (IsDir(i) => ~CycleAt(i)) /\ q.ids = Tree(i, TRUE)
          BY <4>1, <4>2 DEF PermanentDeleteFile, Owned, tableVars
      <4> QED
          BY <4>3, TreeDown DEF In
    <3>2. CASE q.pc = "count"
      <4>1. PICK E \in SUBSET Ids : w = Cleaner /\ AutoCleanRecycle(E)
          BY <1>1, <3>2 DEF Turn, Origin
      <4> DEFINE T == {j \in Ids : \E i \in E : j \in Tree(i, TRUE)}
                 tree(i) == IF IsDir(i) /\ ~CycleAt(i) THEN DescendantIDs(i, TRUE) ELSE {}
                 S == {j \in Ids : j \in E \/ \E i \in E : j \in tree(i)}
      <4>2. PICK keys, owed : q = [pc |-> "count", ids |-> S, keys |-> keys, owed |-> owed]
          BY <1>1, <4>1, GotoReaches DEF AutoCleanRecycle
      <4>3. /\ rows' = rows
            /\ \A i \in E : i \in Ids /\ Exists(i) /\ (IsDir(i) => ~CycleAt(i))
          BY <4>1 DEF AutoCleanRecycle, tableVars, DeletedAcyclic, Deleted, Exists
      <4>4. S = T
          BY <4>3 DEF Tree
      <4>5. ASSUME NEW j \in Children(T), Deleted(j) PROVE j \in T
        <5>1. j \in Ids /\ Exists(j) /\ rows[j].parent \in T
            BY <4>5 DEF Children
        <5>2. PICK i \in E : rows[j].parent \in Tree(i, TRUE)
            BY <5>1
        <5>3. j \in Children(Tree(i, TRUE))
            BY <5>1, <5>2 DEF Children
        <5>4. j \in Tree(i, TRUE)
            BY <4>3, <4>5, <5>3, TreeDown DEF In
        <5> QED
            BY <5>1, <5>4
      <4>6. q.ids = S
          BY <4>2
      <4> HIDE DEF T, S
      <4> QED
          BY <4>3, <4>4, <4>5, <4>6
    <3>3. CASE q.pc = "clean"
      <4>1. w = Cleaner /\ CountKeys
          BY <1>1, <3>3 DEF Turn, Origin
      <4>2. r \in Cleaning /\ r.pc = "count" /\ rows' = rows
          BY <1>2, <4>1, RequestType DEF CountKeys, tableVars
      <4>3. PICK keys : q = [r EXCEPT !.pc = "clean", !.keys = keys]
          BY <1>1, <1>2, <4>1, GotoReaches DEF CountKeys
      <4>4. q.ids = r.ids
          BY <4>2, <4>3 DEF Cleaning
      <4> QED
          BY <1>2, <4>2, <4>4 DEF TreeWhole
    <3> QED
        BY <1>10, <3>1, <3>2, <3>3
  <2> QED
      BY <1>10, <2>1, TreeStays DEF TreeWhole
<1>11. CASE q.pc \notin {"hashed", "lookedUp", "stored", "mkdir", "moveTx", "batchMoveTx", "copyTx",
                         "move", "copy", "delete", "restore", "purge", "count", "clean"}
    BY <1>11 DEF TreeWhole
<1> QED
    BY <1>3, <1>4, <1>5, <1>6, <1>7, <1>8, <1>9, <1>10, <1>11

\* The statements on the table, each on what its request captured.
LEMMA DeleteKeepsTrees ==
    ASSUME TableTypeOK, LiveDirsHang, DeletedAcyclic, NEW S, rows' = SoftDeleted(S),
           \A i \in S : Exists(i) => ~CycleAt(i), \A j \in Children(S) : Live(j) => j \in S
    PROVE  LiveDirsHang' /\ DeletedAcyclic' /\ Orphans' \subseteq Orphans
<1>1. ASSUME NEW j \in Ids
      PROVE  /\ Exists(j)' <=> Exists(j)
             /\ Live(j)' <=> Live(j) /\ j \notin S
             /\ Deleted(j)' <=> Deleted(j) \/ (Exists(j) /\ j \in S)
             /\ Exists(j) => KeepsFile(j) /\ KeepsPlace(j)
    BY SoftDeletedColumns
<1>2. ASSUME NEW j \in Ids, Live(j), rows[j].parent \in S PROVE j \in S
    BY <1>2 DEF Children, Live, Exists
<1>3. LiveDirsHang'
  <2> SUFFICES ASSUME NEW i \in Ids, Live(i)', IsDir(i)' PROVE DirLive(rows[i].parent)'
      BY DEF LiveDirsHang
  <2>1. Live(i) /\ i \notin S /\ Exists(i)
      BY <1>1 DEF Live, Exists
  <2>2. IsDir(i) /\ rows'[i].parent = rows[i].parent
      BY <1>1, <2>1 DEF IsDir, KeepsFile, KeepsPlace
  <2>3. DirLive(rows[i].parent) /\ rows[i].parent \notin S /\ rows[i].parent \in Parents
      BY <1>2, <2>1, <2>2, RowType DEF LiveDirsHang
  <2> QED
      BY <1>1, <2>2, <2>3 DEF DirLive, Parents
<1>4. DeletedAcyclic'
  <2>1. \A c \in Ids : Exists(c)' => Exists(c) /\ rows'[c].parent \in {rows[c].parent, Root}
      BY <1>1 DEF KeepsPlace
  <2>2. \A j \in Ids : CycleAt(j)' => CycleAt(j)
      BY <2>1, NoNewCycle
  <2> QED
      BY <1>1, <2>2 DEF DeletedAcyclic
<1>5. ASSUME NEW i \in Ids, i \in Orphans' PROVE i \in Orphans
  <2>1. Exists(i) /\ rows'[i].parent = rows[i].parent /\ rows[i].parent # Root
      BY <1>1, <1>5 DEF Orphans, KeepsPlace
  <2>2. rows[i].parent \in Ids
      BY <2>1, RowType DEF Parents
  <2> QED
      BY <1>1, <1>2, <1>5, <2>1, <2>2 DEF Orphans
<1> QED
    BY <1>3, <1>4, <1>5 DEF Orphans

LEMMA RestoreKeepsTrees ==
    ASSUME TableTypeOK, LiveDirsHang, DeletedAcyclic, NEW S, NEW lifted,
           rows' = Restored(S, lifted),
           \A i \in S : /\ Exists(i)
                        /\ i \in lifted \/ DirLive(rows[i].parent) \/ rows[i].parent \in S
    PROVE  LiveDirsHang' /\ DeletedAcyclic' /\ Orphans' \subseteq Orphans
<1>1. ASSUME NEW j \in Ids
      PROVE  /\ Exists(j)' <=> Exists(j)
             /\ Live(j)' <=> Live(j) \/ (Exists(j) /\ j \in S)
             /\ Deleted(j)' <=> Deleted(j) /\ j \notin S
             /\ Exists(j) => KeepsFile(j)
             /\ Exists(j) => rows'[j].parent =
                                IF j \in S /\ j \in lifted THEN Root ELSE rows[j].parent
    BY RestoredColumns
<1>2. ASSUME NEW i \in Ids, i \in S PROVE DirLive(rows[i].parent)'
  <2>1. Exists(i) /\ rows[i].parent \in Parents
      BY <1>2, RowType
  <2>2. CASE i \in lifted
      BY <1>1, <1>2, <2>1, <2>2 DEF DirLive
  <2>3. CASE i \notin lifted
      BY <1>1, <1>2, <2>1, <2>3 DEF DirLive, Parents
  <2> QED
      BY <2>2, <2>3
<1>3. LiveDirsHang'
  <2> SUFFICES ASSUME NEW i \in Ids, Live(i)', IsDir(i)', i \notin S PROVE DirLive(rows[i].parent)'
      BY <1>2 DEF LiveDirsHang
  <2>1. Live(i) /\ Exists(i)
      BY <1>1 DEF Live, Exists
  <2>2. IsDir(i) /\ rows'[i].parent = rows[i].parent
      BY <1>1, <2>1 DEF IsDir, KeepsFile
  <2>3. DirLive(rows[i].parent) /\ rows[i].parent \in Parents
      BY <2>1, <2>2, RowType DEF LiveDirsHang
  <2> QED
      BY <1>1, <2>2, <2>3 DEF DirLive, Parents
<1>4. DeletedAcyclic'
  <2>1. \A c \in Ids : Exists(c)' => Exists(c) /\ rows'[c].parent \in {rows[c].parent, Root}
      BY <1>1
  <2>2. \A j \in Ids : CycleAt(j)' => CycleAt(j)
      BY <2>1, NoNewCycle
  <2> QED
      BY <1>1, <2>2 DEF DeletedAcyclic
<1>5. ASSUME NEW i \in Ids, i \in Orphans' PROVE i \in Orphans
  <2>1. Exists(i) /\ rows'[i].parent # Root
      BY <1>1, <1>5 DEF Orphans
  <2>2. i \notin S
      BY <1>2, <1>5, <2>1 DEF Orphans, DirLive, Live, Exists
  <2>3. rows'[i].parent = rows[i].parent /\ rows[i].parent \in Ids
      BY <1>1, <2>1, <2>2, RowType DEF Parents
  <2> QED
      BY <1>1, <1>5, <2>1, <2>2, <2>3 DEF Orphans
<1> QED
    BY <1>3, <1>4, <1>5 DEF Orphans

LEMMA PurgeKeepsTrees ==
    ASSUME TableTypeOK, LiveDirsHang, DeletedAcyclic, NEW S, rows' = HardDeleted(S),
           \A i \in S : Deleted(i), \A j \in Children(S) : Deleted(j) => j \in S
    PROVE  LiveDirsHang' /\ DeletedAcyclic' /\ Orphans' \subseteq Orphans
<1>1. ASSUME NEW j \in Ids
      PROVE  /\ Exists(j)' <=> Exists(j) /\ j \notin S
             /\ Live(j)' <=> Live(j)
             /\ Deleted(j)' <=> Deleted(j) /\ j \notin S
             /\ Exists(j)' => rows'[j] = rows[j]
    BY HardDeletedColumns DEF Deleted, Live
<1>2. LiveDirsHang'
  <2> SUFFICES ASSUME NEW i \in Ids, Live(i)', IsDir(i)' PROVE DirLive(rows[i].parent)'
      BY DEF LiveDirsHang
  <2>1. Live(i) /\ rows'[i] = rows[i] /\ Exists(i)
      BY <1>1 DEF Live, Exists
  <2>2. DirLive(rows[i].parent) /\ rows[i].parent \in Parents
      BY <2>1, RowType DEF LiveDirsHang, IsDir
  <2> QED
      BY <1>1, <2>1, <2>2 DEF DirLive, Parents
<1>3. DeletedAcyclic'
  <2>1. \A c \in Ids : Exists(c)' => Exists(c) /\ rows'[c].parent \in {rows[c].parent, Root}
      BY <1>1
  <2>2. \A j \in Ids : CycleAt(j)' => CycleAt(j)
      BY <2>1, NoNewCycle
  <2> QED
      BY <1>1, <2>2 DEF DeletedAcyclic
<1>4. ASSUME NEW i \in Ids, i \in Orphans' PROVE i \in Orphans
  <2>1. Exists(i) /\ i \notin S /\ rows'[i] = rows[i] /\ rows[i].parent # Root
      BY <1>1, <1>4 DEF Orphans
  <2>2. rows[i].parent \in Ids
      BY <2>1, RowType DEF Parents
  <2>3. rows[i].parent \in S => Live(i) /\ ~Live(rows[i].parent)
      BY <2>1, <2>2 DEF Children, Exists, Live, Deleted
  <2> QED
      BY <1>1, <1>4, <2>1, <2>2, <2>3 DEF Orphans
<1> QED
    BY <1>2, <1>3, <1>4 DEF Orphans

LEMMA RenameKeepsTrees ==
    ASSUME TableTypeOK, LiveDirsHang, DeletedAcyclic,
           \A j \in Ids : /\ rows'[j].st = rows[j].st
                          /\ Exists(j) => KeepsFile(j) /\ rows'[j].parent = rows[j].parent
    PROVE  LiveDirsHang' /\ DeletedAcyclic' /\ Orphans' \subseteq Orphans
<1>1. ASSUME NEW j \in Ids
      PROVE  (Exists(j)' <=> Exists(j)) /\ (Live(j)' <=> Live(j)) /\ (Deleted(j)' <=> Deleted(j))
    BY DEF Exists, Live, Deleted
<1>2. LiveDirsHang'
  <2> SUFFICES ASSUME NEW i \in Ids, Live(i)', IsDir(i)' PROVE DirLive(rows[i].parent)'
      BY DEF LiveDirsHang
  <2>1. Live(i) /\ Exists(i)
      BY <1>1 DEF Live, Exists
  <2>2. IsDir(i) /\ rows'[i].parent = rows[i].parent
      BY <2>1 DEF IsDir, KeepsFile
  <2>3. DirLive(rows[i].parent) /\ rows[i].parent \in Parents
      BY <2>1, <2>2, RowType DEF LiveDirsHang
  <2> QED
      BY <1>1, <2>2, <2>3 DEF DirLive, Parents
<1>3. DeletedAcyclic'
  <2>1. \A c \in Ids : Exists(c)' => Exists(c) /\ rows'[c].parent \in {rows[c].parent, Root}
      BY <1>1
  <2>2. \A j \in Ids : CycleAt(j)' => CycleAt(j)
      BY <2>1, NoNewCycle
  <2> QED
      BY <1>1, <2>2 DEF DeletedAcyclic
<1>4. ASSUME NEW i \in Ids, i \in Orphans' PROVE i \in Orphans
  <2>1. Exists(i) /\ rows'[i].parent = rows[i].parent /\ rows[i].parent # Root
      BY <1>1, <1>4 DEF Orphans
  <2>2. rows[i].parent \in Ids
      BY <2>1, RowType DEF Parents
  <2> QED
      BY <1>1, <1>4, <2>1, <2>2 DEF Orphans
<1> QED
    BY <1>2, <1>3, <1>4 DEF Orphans

\* Rows move below a live directory, and so never below a deleted one.
LEMMA MoveKeepsTrees ==
    ASSUME IInv, LiveDirsHang, DeletedAcyclic, NEW S, NEW p \in Parents, rows' = Moved(S, p),
           p # Root => LiveDir(p)
    PROVE  LiveDirsHang' /\ DeletedAcyclic' /\ Orphans' \subseteq Orphans
<1> TableTypeOK
    BY DEF IInv, TypeOK
<1>1. ASSUME NEW j \in Ids
      PROVE  /\ (Exists(j)' <=> Exists(j)) /\ (Live(j)' <=> Live(j)) /\ (Deleted(j)' <=> Deleted(j))
             /\ Exists(j) => KeepsFile(j)
             /\ Exists(j) => rows'[j].parent = IF j \in S THEN p ELSE rows[j].parent
    BY MovedColumns DEF Exists, Live, Deleted
<1>2. LiveDirsHang'
  <2> SUFFICES ASSUME NEW i \in Ids, Live(i)', IsDir(i)' PROVE DirLive(rows[i].parent)'
      BY DEF LiveDirsHang
  <2>1. Live(i) /\ Exists(i)
      BY <1>1 DEF Live, Exists
  <2>2. IsDir(i) /\ rows'[i].parent = IF i \in S THEN p ELSE rows[i].parent
      BY <1>1, <2>1 DEF IsDir, KeepsFile
  <2>3. DirLive(rows[i].parent) /\ rows[i].parent \in Parents
      BY <2>1, <2>2, RowType DEF LiveDirsHang
  <2> QED
      BY <1>1, <2>2, <2>3 DEF DirLive, Parents, LiveDir
<1>3. ASSUME NEW j \in Ids, Deleted(j)' PROVE ~CycleAt(j)'
  <2>1. Deleted(j) /\ ~CycleAt(j) /\ ~LiveDir(j)
      BY <1>1, <1>3 DEF DeletedAcyclic, LiveDir, Deleted, Live
  <2>2. PICK B : B = Below(j)
      OBVIOUS
  <2>3. B \in SUBSET Ids /\ Children(B \cup {j}) \subseteq B /\ \A k \in B \cup {j} : ~LiveDir(k)
      BY <2>1, <2>2, BelowClosed, BelowOthers
  <2>4. p \notin B \cup {j}
      BY <2>3, TableAssumption DEF TableAssumption
  <2>5. Children(B \cup {j})' \subseteq B
      BY <1>1, <2>3, <2>4 DEF Children
  <2>6. Below(j)' \subseteq B
      BY <2>3, <2>5, BelowLeastNext
  <2> QED
      BY <2>1, <2>2, <2>6 DEF CycleAt
<1>4. ASSUME NEW i \in Ids, i \in Orphans' PROVE i \in Orphans
  <2>1. Exists(i) /\ rows'[i].parent # Root
        /\ rows'[i].parent = IF i \in S THEN p ELSE rows[i].parent
      BY <1>1, <1>4 DEF Orphans
  <2>2. i \notin S
      BY <1>1, <1>4, <2>1 DEF Orphans, LiveDir, Live, Exists, Parents
  <2>3. rows[i].parent \in Ids
      BY <2>1, <2>2, RowType DEF Parents
  <2> QED
      BY <1>1, <1>4, <2>1, <2>2, <2>3 DEF Orphans
<1> QED
    BY <1>2, <1>3, <1>4 DEF Orphans, DeletedAcyclic

\* A new row is nobody's parent yet.
LEMMA InsertKeepsTrees ==
    ASSUME IInv, LiveDirsHang, DeletedAcyclic, NEW i \in Ids, rows[i].st = "unused",
           NEW row, row.st = "live", row.parent \in Parents, rows' = Inserted({}, i, row),
           row.key = NoBlob => DirLive(row.parent)
    PROVE  LiveDirsHang' /\ DeletedAcyclic' /\ (DirLive(row.parent) => Orphans' \subseteq Orphans)
<1> TableTypeOK
    BY DEF IInv, TypeOK
<1>1. ASSUME NEW j \in Ids, j # i
      PROVE  /\ (Exists(j)' <=> Exists(j)) /\ (Live(j)' <=> Live(j)) /\ (Deleted(j)' <=> Deleted(j))
             /\ Exists(j) => KeepsFile(j) /\ rows'[j].parent = rows[j].parent
  <2>1. rows'[j] = SoftDeleted({})[j]
      BY <1>1, InsertedColumns
  <2> QED
      BY <2>1, SoftDeletedColumns DEF KeepsPlace
<1>2. rows'[i] = row /\ ~Exists(i) /\ ~Live(i) /\ Live(i)'
  <2>1. rows'[i] = row
      BY DEF Inserted, SoftDeleted, Marked
  <2> QED
      BY <2>1 DEF Exists, Live
<1>3. ASSUME NEW j \in Ids, Exists(j) PROVE rows[j].parent \in Parents \ {i}
    BY <1>3, RowType, TableAssumption DEF IInv, OwnDir, TableAssumption
<1>4. ASSUME NEW p \in Parents, DirLive(p) PROVE p # i /\ DirLive(p)'
    BY <1>1, <1>2, <1>4, TableAssumption DEF DirLive, Parents, TableAssumption
<1>5. LiveDirsHang'
  <2> SUFFICES ASSUME NEW j \in Ids, Live(j)', IsDir(j)' PROVE DirLive(rows[j].parent)'
      BY DEF LiveDirsHang
  <2>1. CASE j = i
      BY <1>2, <1>4, <2>1 DEF IsDir, DirLive
  <2>2. CASE j # i
    <3>1. Live(j) /\ Exists(j)
        BY <1>1, <2>2 DEF Live, Exists
    <3>2. IsDir(j) /\ rows'[j].parent = rows[j].parent
        BY <1>1, <2>2, <3>1 DEF IsDir, KeepsFile
    <3>3. DirLive(rows[j].parent) /\ rows[j].parent \in Parents
        BY <3>1, <3>2, RowType DEF LiveDirsHang
    <3> QED
        BY <1>4, <3>2, <3>3 DEF DirLive
  <2> QED
      BY <2>1, <2>2
<1>6. ASSUME NEW j \in Ids, Deleted(j)' PROVE ~CycleAt(j)'
  <2>1. j # i
      BY <1>2, <1>6 DEF Live, Deleted
  <2>2. PICK B : B = Below(j)
      OBVIOUS
  <2>3. B \in SUBSET Ids /\ Children(B \cup {j}) \subseteq B /\ j \notin B
      BY <1>1, <1>6, <2>1, <2>2, BelowClosed DEF DeletedAcyclic, CycleAt
  <2>4. ASSUME NEW c \in Ids, c # i, Exists(c)', rows'[c].parent \in B \cup {i} \cup {j}
        PROVE  c \in B
    <3>1. Exists(c) /\ rows[c].parent \in B \cup {j}
        BY <1>1, <1>3, <2>4
    <3>2. c \in Children(B \cup {j})
        BY <3>1 DEF Children
    <3> QED
        BY <2>3, <3>2
  <2>5. PICK C : C = B \cup {i}
      OBVIOUS
  <2>6. Children(C \cup {j})' \subseteq C
      BY <2>4, <2>5 DEF Children
  <2>7. C \in SUBSET Ids
      BY <2>3, <2>5
  <2>8. Below(j)' \subseteq C
      BY <2>6, <2>7, BelowLeastNext
  <2> QED
      BY <2>1, <2>3, <2>5, <2>8 DEF CycleAt
<1>7. ASSUME DirLive(row.parent), NEW j \in Ids, j \in Orphans' PROVE j \in Orphans
  <2>1. j # i
      BY <1>2, <1>4, <1>7 DEF Orphans, DirLive, Live, Exists
  <2>2. Exists(j) /\ rows'[j].parent = rows[j].parent /\ rows[j].parent # Root
      BY <1>1, <1>7, <2>1 DEF Orphans
  <2>3. rows[j].parent \in Ids \ {i}
      BY <1>3, <2>2 DEF Parents
  <2> QED
      BY <1>1, <1>7, <2>1, <2>2, <2>3 DEF Orphans
<1> QED
    BY <1>5, <1>6, <1>7 DEF Orphans, DeletedAcyclic

\* A chunked upload puts its row into a directory it does not look at again.
Adopts == \E w \in Handlers : CommitsChunked(w) /\ req'[w] # req[w]

LEMMA TreeWrites ==
    ASSUME ~Failures, IInv, LiveDirsHang, DeletedAcyclic, NEW w \in Workers, Turn(w),
           BinOnly(req[w]), NameFree(req[w]), TreeWhole(req[w])
    PROVE  LiveDirsHang' /\ DeletedAcyclic' /\ (~(Orphans' \subseteq Orphans) => Adopts)
<1> w \in Procs /\ TypeOK /\ TableTypeOK
    BY DEF Procs, IInv, TypeOK
<1>1. PICK r \in Request : /\ r = req[w] /\ BinOnly(r) /\ NameFree(r) /\ TreeWhole(r)
                           /\ Captured(r)
    BY DEF TypeOK, IInv
<1>2. CASE rows' = rows
    BY <1>2, RenameKeepsTrees DEF KeepsFile
<1>3. CASE CommitDelete(w)
  <2>1. r.pc = "delete" /\ rows' = SoftDeleted(r.ids)
      BY <1>1, <1>3 DEF CommitDelete
  <2>2. /\ \A i \in r.ids : Exists(i) => ~CycleAt(i)
        /\ \A j \in Children(r.ids) : Live(j) => j \in r.ids
      BY <1>1, <2>1 DEF TreeWhole
  <2> QED
      BY <2>1, <2>2, DeleteKeepsTrees
<1>4. CASE CommitRestore(w)
  <2>1. r.pc = "restore" /\ rows' = Restored(r.ids, r.lifted)
      BY <1>1, <1>4 DEF CommitRestore
  <2>2. \A i \in r.ids : /\ Exists(i)
                         /\ i \in r.lifted \/ DirLive(rows[i].parent) \/ rows[i].parent \in r.ids
      BY <1>1, <2>1 DEF TreeWhole
  <2> QED
      BY <2>1, <2>2, RestoreKeepsTrees
<1>5. CASE CommitPurge(w) \/ (w = Cleaner /\ CleanRows)
  <2>1. r.pc \in {"purge", "clean"} /\ rows' = HardDeleted(r.ids)
      BY <1>1, <1>5 DEF CommitPurge, CleanRows
  <2>2. /\ \A i \in r.ids : Deleted(i)
        /\ \A j \in Children(r.ids) : Deleted(j) => j \in r.ids
      BY <1>1, <2>1 DEF TreeWhole, BinOnly
  <2> QED
      BY <2>1, <2>2, PurgeKeepsTrees
<1>6. CASE CommitRename(w)
  <2>1. r \in Rename /\ rows' = Renamed(r.id, r.name)
      BY <1>1, <1>6, RequestType DEF CommitRename
  <2>2. r.id \in Ids
      BY <2>1 DEF Rename
  <2>3. \A j \in Ids : /\ rows'[j].st = rows[j].st
                       /\ Exists(j) => KeepsFile(j) /\ rows'[j].parent = rows[j].parent
      BY <2>1, <2>2, RenamedColumns
  <2> QED
      BY <2>3, RenameKeepsTrees
<1>7. CASE CommitMove(w) /\ rows' # rows
  <2>1. r \in Moving /\ r.pc = "move" /\ rows' = Moved(r.ids, r.dest)
      BY <1>1, <1>7, RequestType DEF CommitMove
  <2>2. r.dest \in Parents /\ (r.dest # Root => LiveDir(r.dest))
      BY <1>1, <2>1 DEF TreeWhole, Captured, DirLive, OwnDir, LiveDir, Live, Exists, Moving
  <2> QED
      BY <2>1, <2>2, MoveKeepsTrees
<1>8. CASE (InsertDir(w) \/ CommitCopy(w)) /\ rows' # rows
  <2>1. r.pc \in {"mkdir", "copy"} /\ r.dest \in Parents
      BY <1>1, <1>8, RequestType DEF InsertDir, CommitCopy, Mkdir, Copying
  <2>2. PICK i \in Ids : /\ rows[i].st = "unused"
                         /\ \E h, k : rows' = Inserted({}, i, NewRow(r.user, r.dest, r.name, h, k))
      BY <1>1, <1>8 DEF InsertDir, CommitCopy
  <2>3. PICK row : rows' = Inserted({}, i, row) /\ row.st = "live" /\ row.parent = r.dest
      BY <2>2 DEF NewRow
  <2>4. DirLive(r.dest)
      BY <1>1, <2>1 DEF TreeWhole
  <2> QED
      BY <2>1, <2>2, <2>3, <2>4, InsertKeepsTrees
<1>9. CASE w \in Handlers /\ CommitUpload(w) /\ rows' # rows
  <2>1. r.pc = "stored" /\ r \in Stored /\ r.old = {}
      BY <1>1, <1>9, RequestType DEF CommitUpload, NameFree
  <2>2. PICK i \in Ids :
            /\ rows[i].st = "unused"
            /\ rows' = Inserted({}, i, NewRow(r.user, r.dest, r.name, r.hash, r.key))
      BY <1>1, <1>9, <2>1 DEF CommitUpload
  <2>3. PICK row : /\ rows' = Inserted({}, i, row) /\ row.st = "live" /\ row.parent = r.dest
                   /\ row.key = r.key
      BY <2>2 DEF NewRow
  <2>4. r.dest \in Parents /\ r.key # NoBlob
      BY <2>1, TableAssumption DEF Stored, TableAssumption
  <2>5. LiveDirsHang' /\ DeletedAcyclic' /\ (DirLive(r.dest) => Orphans' \subseteq Orphans)
      BY <2>2, <2>3, <2>4, InsertKeepsTrees
  <2>6. r.from = NoUpload => DirLive(r.dest)
      BY <1>1, <2>1 DEF TreeWhole
  <2>7. r.from # NoUpload => Adopts
    <3>1. req'[w].pc \in {"uploaded", "idle"}
      <4>1. PICK q : Goto(w, q) /\ q.pc \in {"uploaded", "idle"}
          BY <1>9 DEF CommitUpload, Idle, Finish
      <4> QED
          BY <4>1, GotoReaches
    <3> QED
        BY <1>1, <1>9, <2>1, <3>1 DEF Adopts, CommitsChunked
  <2> QED
      BY <2>5, <2>6, <2>7
<1> QED
    BY <1>2, <1>3, <1>4, <1>5, <1>6, <1>7, <1>8, <1>9 DEF Turn, Writer

TreeInv ==
    /\ IInv /\ OneAtATime /\ LiveDirsHang /\ DeletedAcyclic
    /\ \A w \in Workers : BinOnly(req[w]) /\ NameFree(req[w]) /\ TreeWhole(req[w])

LEMMA TreesStep ==
    ASSUME MaxActive = 1, ~Failures, ConflictMode # "overwrite", TreeInv, [Next]_vars
    PROVE  TreeInv' /\ (~(Orphans' \subseteq Orphans) => Adopts)
<1> /\ IInv /\ TypeOK /\ TableTypeOK /\ OneAtATime /\ LiveDirsHang /\ DeletedAcyclic
    /\ \A w \in Workers : BinOnly(req[w]) /\ NameFree(req[w]) /\ TreeWhole(req[w])
    BY DEF TreeInv, IInv, TypeOK
<1>1. PurgeInv' /\ NameInv'
    BY PurgeStep, NameStep DEF PurgeInv, NameInv
<1>2. /\ IInv' /\ OneAtATime'
      /\ \A w \in Workers : BinOnly(req[w])' /\ NameFree(req[w])'
    BY <1>1, IInvStep DEF PurgeInv, NameInv
<1>0. TreeWhole(Idle)'
    BY DEF TreeWhole, Idle
<1>3. CASE Quiet
  <2>0. rows' = rows
      BY <1>3 DEF Quiet, tableVars
  <2>1. ASSUME NEW v \in Workers PROVE TreeWhole(req[v])'
    <3>1. PICK r : r = req[v] /\ TreeWhole(r)
        OBVIOUS
    <3>2. TreeWhole(r)'
        BY <2>0, <3>1, TreeStays
    <3>3. CASE req'[v] = r
        BY <3>2, <3>3 DEF TreeWhole
    <3>4. CASE req'[v] = Idle
        BY <1>0, <3>4 DEF TreeWhole
    <3> QED
        BY <1>3, <3>1, <3>3, <3>4 DEF Quiet
  <2>2. LiveDirsHang' /\ DeletedAcyclic' /\ Orphans' \subseteq Orphans
      BY <2>0, RenameKeepsTrees DEF KeepsFile
  <2> QED
      BY <1>2, <2>1, <2>2 DEF TreeInv
<1>4. ASSUME NEW w \in Workers, Turn(w), \A v \in Workers \ {w} : req'[v] = Idle
      PROVE  TreeInv' /\ (~(Orphans' \subseteq Orphans) => Adopts)
  <2>1. \A v \in Workers \ {w} : TreeWhole(req[v])'
      BY <1>0, <1>4 DEF TreeWhole
  <2>2. TreeWhole(req[w])'
      BY <1>4, TreeReads
  <2>3. LiveDirsHang' /\ DeletedAcyclic' /\ (~(Orphans' \subseteq Orphans) => Adopts)
      BY <1>4, TreeWrites
  <2> QED
      BY <1>2, <2>1, <2>2, <2>3 DEF TreeInv
<1> QED
    BY <1>3, <1>4, SerialStep

LEMMA TreeInvariant ==
    ASSUME MaxActive = 1, ~Failures, ConflictMode # "overwrite"
    PROVE  Spec => []TreeInv
<1>1. Init => TreeInv
    BY SerialInit, IInvInit DEF TreeInv, BinOnly, NameFree, TreeWhole, LiveDirsHang, DeletedAcyclic,
                                Live, Deleted, Exists, Idle, Procs
<1>2. TreeInv /\ [Next]_vars => TreeInv'
    BY TreesStep
<1> QED
    BY <1>1, <1>2, PTL DEF Spec

\* With one request at a time and no failing statement, no delete, restore,
\* purge or move of a tree of whatever shape, cycles of live directories
\* included, leaves a row behind: only CompleteUpload does, which does not look
\* at the directory its session was opened for.
THEOREM OrphansNoOtherWay ==
    ASSUME MaxActive = 1, ~Failures, ConflictMode # "overwrite"
    PROVE  Spec => OrphansOnlyBy
<1>1. TreeInv /\ [Next]_vars => [~(Orphans' \subseteq Orphans) => Adopts]_vars
    BY TreesStep
<1> QED
    BY <1>1, TreeInvariant, PTL DEF Spec, OrphansOnlyBy, Adopts

-----------------------------------------------------------------------------
(* Sums of sizes.  Total takes the column as a function, so that it speaks *)
(* of the tables before and after a step alike.                            *)

Sizes == [i \in Ids |-> SizeOf(i)]

Pairs(S, f) == {p \in S \X (1..MaxSize) : p[2] <= f[p[1]]}

Total(S, f) == Cardinality(Pairs(S, f))

LEMMA PairsFinite ==
    ASSUME NEW S \in SUBSET Ids, NEW f
    PROVE  IsFiniteSet(Pairs(S, f)) /\ Total(S, f) \in Nat
<1>1. IsFiniteSet(S)
    BY TableAssumption, FS_Subset DEF TableAssumption
<1>2. IsFiniteSet(1..MaxSize)
    BY TableAssumption, FS_Interval DEF TableAssumption
<1>3. IsFiniteSet(S \X (1..MaxSize))
    BY <1>1, <1>2, FS_Product
<1>4. Pairs(S, f) \subseteq S \X (1..MaxSize)
    BY DEF Pairs
<1>5. IsFiniteSet(Pairs(S, f))
    BY <1>3, <1>4, FS_Subset
<1> QED
    BY <1>5, FS_CardinalityType DEF Total

LEMMA TotalUnion ==
    ASSUME NEW S \in SUBSET Ids, NEW T \in SUBSET Ids, NEW f, S \cap T = {}
    PROVE  Total(S \cup T, f) = Total(S, f) + Total(T, f)
<1>1. Pairs(S \cup T, f) = Pairs(S, f) \cup Pairs(T, f)
    BY DEF Pairs
<1>2. Pairs(S, f) \cap Pairs(T, f) = {}
    BY DEF Pairs
<1>3. IsFiniteSet(Pairs(S, f)) /\ IsFiniteSet(Pairs(T, f)) /\ Total(S, f) \in Nat /\ Total(T, f) \in Nat
    BY PairsFinite
<1>4. Cardinality(Pairs(S, f) \cup Pairs(T, f))
         = Cardinality(Pairs(S, f)) + Cardinality(Pairs(T, f)) - Cardinality({})
    BY <1>2, <1>3, FS_Union
<1>5. Cardinality({}) = 0
    BY FS_EmptySet
<1>6. Total(S \cup T, f) = Total(S, f) + Total(T, f) - 0
    BY <1>1, <1>4, <1>5 DEF Total
<1> QED
    BY <1>3, <1>6

LEMMA TotalGrows ==
    ASSUME NEW T \in SUBSET Ids, NEW S \in SUBSET T, NEW f
    PROVE  Total(S, f) <= Total(T, f)
<1>1. Pairs(S, f) \in SUBSET Pairs(T, f)
    BY DEF Pairs
<1>2. IsFiniteSet(Pairs(T, f))
    BY PairsFinite
<1> QED
    BY <1>1, <1>2, FS_Subset DEF Total

LEMMA TotalSame ==
    ASSUME NEW S, NEW f, NEW g, \A i \in S : f[i] = g[i]
    PROVE  Total(S, f) = Total(S, g)
<1>1. Pairs(S, f) = Pairs(S, g)
    BY DEF Pairs
<1> QED
    BY <1>1 DEF Total

LEMMA TotalOne ==
    ASSUME NEW i \in Ids, NEW f, f[i] \in 0..MaxSize
    PROVE  Total({i}, f) = f[i]
<1>1. PICK n : n = f[i] /\ n \in 0..MaxSize
    OBVIOUS
<1>2. MaxSize \in Nat /\ n \in Nat /\ n <= MaxSize
    BY <1>1, TableAssumption DEF TableAssumption
<1>3. Pairs({i}, f) = {i} \X (1..n)
  <2>1. ASSUME NEW p \in Pairs({i}, f) PROVE p \in {i} \X (1..n)
      BY <1>1, <1>2, <2>1 DEF Pairs
  <2>2. ASSUME NEW p \in {i} \X (1..n) PROVE p \in Pairs({i}, f)
      BY <1>1, <1>2, <2>2 DEF Pairs
  <2> QED
      BY <2>1, <2>2
<1>4. Cardinality({i}) = 1 /\ IsFiniteSet({i})
    BY FS_Singleton
<1>5. IsFiniteSet(1..n) /\ Cardinality(1..n) = n
  <2>0. 1 \in Int /\ n \in Int
      BY <1>2
  <2>1. IsFiniteSet(1..n) /\ Cardinality(1..n) = IF 1 > n THEN 0 ELSE n - 1 + 1
      BY <2>0, FS_Interval, Zenon
  <2>2. (IF 1 > n THEN 0 ELSE n - 1 + 1) = n
      BY <1>2
  <2> QED
      BY <2>1, <2>2
<1>6. Cardinality({i} \X (1..n)) = 1 * n
  <2>1. Cardinality({i} \X (1..n)) = Cardinality({i}) * Cardinality(1..n)
      BY <1>4, <1>5, FS_Product, Zenon
  <2> QED
      BY <1>4, <1>5, <2>1
<1>7. Total({i}, f) = 1 * n
    BY <1>3, <1>6 DEF Total
<1> QED
    BY <1>1, <1>2, <1>7

LEMMA TotalNone ==
    ASSUME NEW f
    PROVE  Total({}, f) = 0
<1>1. Pairs({}, f) = {}
    BY DEF Pairs
<1> QED
    BY <1>1, FS_EmptySet DEF Total

LEMMA BytesTotal ==
    ASSUME NEW S \in SUBSET Ids
    PROVE  Bytes(S) = Total(S, Sizes) /\ Bytes(S)' = Total(S, Sizes')
<1>1. Pairs(S, Sizes) = {p \in S \X (1..MaxSize) : p[2] <= SizeOf(p[1])}
    BY DEF Pairs, Sizes
<1>2. Pairs(S, Sizes') = {p \in S \X (1..MaxSize) : p[2] <= SizeOf(p[1])'}
    BY DEF Pairs, Sizes
<1> QED
    BY <1>1, <1>2 DEF Bytes, Total

LEMMA SumTotal ==
    ASSUME NEW u
    PROVE  /\ LiveOf(u) \in SUBSET Ids /\ LiveOf(u)' \in SUBSET Ids
           /\ SumActiveStorage(u) = Total(LiveOf(u), Sizes)
           /\ SumActiveStorage(u)' = Total(LiveOf(u)', Sizes')
           /\ SumActiveStorage(u) \in Nat /\ SumActiveStorage(u)' \in Nat
<1>1. LiveOf(u) \in SUBSET Ids /\ LiveOf(u)' \in SUBSET Ids
    BY DEF LiveOf
<1>2. Pairs(LiveOf(u)', Sizes') = {p \in LiveOf(u)' \X (1..MaxSize) : p[2] <= SizeOf(p[1])'}
    BY <1>1 DEF Pairs, Sizes
<1>3. SumActiveStorage(u)' = Total(LiveOf(u)', Sizes')
    BY <1>2 DEF SumActiveStorage, Bytes, Total
<1>4. SumActiveStorage(u) = Total(LiveOf(u), Sizes)
    BY <1>1, BytesTotal DEF SumActiveStorage
<1> QED
    BY <1>1, <1>3, <1>4, PairsFinite

\* What the live files of a user add up to after some went and some came.
LEMMA SumChanges ==
    ASSUME NEW u, NEW gone \in SUBSET LiveOf(u), NEW come \in SUBSET Ids, come \cap LiveOf(u) = {},
           LiveOf(u)' = (LiveOf(u) \ gone) \cup come,
           \A i \in LiveOf(u) \ gone : SizeOf(i)' = SizeOf(i)
    PROVE  SumActiveStorage(u)' = SumActiveStorage(u) - Total(gone, Sizes) + Total(come, Sizes')
<1> DEFINE kept == LiveOf(u) \ gone
<1>1. kept \in SUBSET Ids /\ gone \in SUBSET Ids /\ kept \cap gone = {} /\ kept \cap come = {}
    BY SumTotal
<1>2. LiveOf(u) = kept \cup gone /\ LiveOf(u)' = kept \cup come
    OBVIOUS
<1>3. Total(kept, Sizes') = Total(kept, Sizes)
  <2>1. \A i \in kept : Sizes'[i] = Sizes[i]
      BY <1>1 DEF Sizes
  <2> HIDE DEF kept
  <2> QED
      BY <2>1, TotalSame
<1> HIDE DEF kept
<1>4. SumActiveStorage(u) = Total(kept, Sizes) + Total(gone, Sizes)
    BY <1>1, <1>2, SumTotal, TotalUnion
<1>5. SumActiveStorage(u)' = Total(kept, Sizes') + Total(come, Sizes')
    BY <1>1, <1>2, SumTotal, TotalUnion
<1>6. /\ Total(kept, Sizes) \in Nat /\ Total(gone, Sizes) \in Nat /\ Total(come, Sizes') \in Nat
    BY <1>1, PairsFinite
<1> QED
    BY <1>3, <1>4, <1>5, <1>6

\* Nothing of the user went.
LEMMA SumGrows ==
    ASSUME NEW u, \A i \in LiveOf(u) : i \in LiveOf(u)' /\ SizeOf(i)' = SizeOf(i)
    PROVE  SumActiveStorage(u) <= SumActiveStorage(u)'
<1>1. LiveOf(u) \in SUBSET LiveOf(u)' /\ LiveOf(u) \in SUBSET Ids /\ LiveOf(u)' \in SUBSET Ids
    BY SumTotal
<1>2. Total(LiveOf(u), Sizes') = Total(LiveOf(u), Sizes)
  <2>1. \A i \in LiveOf(u) : Sizes'[i] = Sizes[i]
      BY <1>1 DEF Sizes
  <2> QED
      BY <2>1, TotalSame
<1>3. Total(LiveOf(u), Sizes') <= Total(LiveOf(u)', Sizes')
    BY <1>1, TotalGrows
<1> QED
    BY <1>2, <1>3, SumTotal

LEMMA SizeKept ==
    ASSUME NEW i, Exists(i), Exists(i)', KeepsFile(i)
    PROVE  SizeOf(i)' = SizeOf(i)
BY DEF SizeOf, IsDir, KeepsFile

-----------------------------------------------------------------------------
(* Usage *)

\* A tree is one user's.
LEMMA TreeOwned ==
    ASSUME IInv, NEW i \in Ids, Exists(i), NEW b \in BOOLEAN
    PROVE  \A j \in Tree(i, b) : j \in Ids /\ Owned(j, rows[i].owner)
<1> DEFINE S == {j \in Below(i) : rows[j].owner = rows[i].owner}
<1>1. S \in SUBSET Ids
    BY BelowClosed
<1>2. ASSUME NEW c \in Children(S \cup {i}) PROVE c \in S
  <2>1. c \in Ids /\ Exists(c) /\ rows[c].parent \in S \cup {i}
      BY <1>2 DEF Children
  <2>2. c \in Below(i)
    <3>1. c \in Children(Below(i) \cup {i})
        BY <2>1 DEF Children
    <3> QED
        BY <3>1, BelowClosed
  <2>3. Exists(rows[c].parent) /\ rows[rows[c].parent].owner = rows[i].owner
      BY <2>1, BelowParent
  <2>4. rows[c].parent # Root
      BY <1>1, <2>1, TableAssumption DEF TableAssumption
  <2>5. rows[c].owner = rows[i].owner
      BY <2>1, <2>3, <2>4 DEF IInv, OwnDir
  <2> QED
      BY <2>2, <2>5
<1> HIDE DEF S
<1>3. Below(i) \subseteq S
    BY <1>1, <1>2, BelowLeast
<1>4. \A j \in Below(i) : j \in Ids /\ Owned(j, rows[i].owner)
    BY <1>3, BelowParent DEF S, Owned
<1> QED
    BY <1>4 DEF Tree, DescendantIDs, Owned

\* BatchDelete counts every row of the trees at least once.
LEMMA CountedCovers ==
    ASSUME NEW S \in SUBSET Ids, NEW T \in SUBSET Ids, NEW counted,
           T = {j \in Ids : \E i \in S : j \in Tree(i, FALSE)},
           counted = {p \in S \X (Ids \X (1..MaxSize)) :
                          p[2][1] \in Tree(p[1], FALSE) /\ p[2][2] <= SizeOf(p[2][1])}
    PROVE  Bytes(T) <= Cardinality(counted)
<1> DEFINE B == {q \in T \X (1..MaxSize) : q[2] <= SizeOf(q[1])}
           f == [p \in counted |-> p[2]]
<1>1. IsFiniteSet(counted)
  <2>1. IsFiniteSet(S)
      BY TableAssumption, FS_Subset DEF TableAssumption
  <2>2. IsFiniteSet(1..MaxSize)
      BY TableAssumption, FS_Interval DEF TableAssumption
  <2>3. IsFiniteSet(Ids \X (1..MaxSize))
      BY <2>2, TableAssumption, FS_Product DEF TableAssumption
  <2>4. IsFiniteSet(S \X (Ids \X (1..MaxSize)))
      BY <2>1, <2>3, FS_Product
  <2>5. counted \subseteq S \X (Ids \X (1..MaxSize))
      OBVIOUS
  <2> QED
      BY <2>4, <2>5, FS_Subset
<1>2. ASSUME NEW p \in counted PROVE p[2] \in B
  <2>1. p \in S \X (Ids \X (1..MaxSize)) /\ p[2][1] \in Tree(p[1], FALSE)
        /\ p[2][2] <= SizeOf(p[2][1])
      BY <1>2
  <2>2. p[1] \in S /\ p[2] \in Ids \X (1..MaxSize)
      BY <2>1
  <2>3. p[2][1] \in T
      BY <2>1, <2>2
  <2> QED
      BY <2>1, <2>2, <2>3
<1>3. ASSUME NEW q \in B PROVE \E p \in counted : p[2] = q
  <2>1. q \in T \X (1..MaxSize) /\ q[1] \in T /\ q[2] <= SizeOf(q[1])
      BY <1>3
  <2>2. PICK i \in S : q[1] \in Tree(i, FALSE)
      BY <2>1
  <2>3. q \in Ids \X (1..MaxSize)
      BY <2>1
  <2>4. <<i, q>> \in counted
      BY <2>1, <2>2, <2>3
  <2> QED
      BY <2>4
<1>4. f \in Surjection(counted, B)
  <2>1. f \in [counted -> B] /\ \A q \in B : \E p \in counted : f[p] = q
      BY <1>2, <1>3
  <2> QED
      BY <2>1 DEF Surjection
<1>5. Cardinality(B) <= Cardinality(counted)
  <2> HIDE DEF B, f
  <2> QED
      BY <1>1, <1>4, FS_Surjection
<1> QED
    BY <1>5 DEF Bytes

LEMMA SumsStay ==
    ASSUME rows' = rows, used' = used, NEW r, SumsRight(r)
    PROVE  SumsRight(r)'
<1>1. \A i : (Live(i)' <=> Live(i)) /\ (Deleted(i)' <=> Deleted(i)) /\ SizeOf(i)' = SizeOf(i)
             /\ \A u : Owned(i, u)' <=> Owned(i, u)
    BY DEF Live, Deleted, Exists, SizeOf, IsDir, Owned
<1>2. \A S : Bytes(S)' = Bytes(S)
    BY <1>1 DEF Bytes
<1>3. \A u : SumActiveStorage(u)' = SumActiveStorage(u)
    BY <1>1 DEF SumActiveStorage, Bytes, LiveOf
<1> QED
    BY <1>1, <1>2, <1>3 DEF SumsRight

LEMMA SumReads ==
    ASSUME IInv, NEW w \in Workers, Turn(w), SumsRight(req[w])
    PROVE  SumsRight(req[w])'
<1> w \in Procs /\ TypeOK /\ TableTypeOK
    BY DEF Procs, IInv, TypeOK
<1>1. PICK q : q = req'[w]
    OBVIOUS
<1>2. PICK r \in Request : r = req[w] /\ SumsRight(r)
    BY DEF TypeOK
<1> SUFFICES SumsRight(q)'
    BY <1>1 DEF SumsRight
<1>0. Bytes({}) = 0
    BY BytesTotal, TotalNone
<1>3. CASE q.pc = "stored"
  <2>0. StoreBlob(w) \/ LinkDuplicate(w) \/ StoreMerged(w)
      BY <1>1, <1>3 DEF Turn, Origin
  <2>1. rows' = rows /\ used' = used
      BY <2>0 DEF StoreBlob, LinkDuplicate, StoreMerged, tableVars
  <2>2. /\ \A i \in q.old : Live(i) /\ rows[i].owner = q.user
        /\ q.freed = Bytes(q.old)
    <3>1. CASE StoreBlob(w)
      <4> DEFINE next(t, k) == [pc |-> "stored", user |-> r.user, dest |-> r.dest,
                                name |-> t.name, hash |-> r.hash, key |-> k,
                                fresh |-> (r.key = NoBlob), old |-> t.old,
                                freed |-> Bytes(t.old), from |-> NoUpload]
      <4>1. ~Finish(w)
          BY <1>1, <1>3, GotoReaches DEF Finish, Idle
      <4>2. \E t \in Resolved(r.dest, r.user, r.name) : \E k : Goto(w, next(t, k))
          BY <1>2, <3>1, <4>1 DEF StoreBlob
      <4>3. PICK t \in Resolved(r.dest, r.user, r.name) : \E k : Goto(w, next(t, k))
          BY <4>2
      <4>4. PICK k : Goto(w, next(t, k))
          BY <4>3
      <4>5. /\ next(t, k).old = t.old /\ next(t, k).user = r.user
            /\ next(t, k).freed = Bytes(t.old)
          OBVIOUS
      <4> HIDE DEF next
      <4>6. q = next(t, k)
          BY <1>1, <4>4, GotoReaches
      <4>7. \A i \in t.old : Live(i) /\ rows[i].owner = r.user
          BY <4>3 DEF Resolved, FilesByName
      <4> QED
          BY <4>5, <4>6, <4>7
    <3>2. CASE LinkDuplicate(w)
      <4>1. q # Idle
          BY <1>3 DEF Idle
      <4>2. PICK n : q = Stores(r, n, r.key)
          BY <1>1, <1>2, <3>2, <4>1, GotoReaches DEF LinkDuplicate
      <4> QED
          BY <1>0, <4>2 DEF Stores
    <3>3. CASE StoreMerged(w)
      <4>1. PICK k : q = Stores(r, r.name, k)
          BY <1>1, <1>2, <3>3, GotoReaches DEF StoreMerged
      <4> QED
          BY <1>0, <4>1 DEF Stores
    <3> QED
        BY <2>0, <3>1, <3>2, <3>3
  <2> QED
      BY <1>3, <2>1, <2>2, SumsStay DEF SumsRight
<1>4. CASE q.pc = "delete"
  <2>1. CASE \E u \in Users, i \in Ids : DeleteFile(w, u, i)
    <3>1. PICK u \in Users, i \in Ids : DeleteFile(w, u, i)
        BY <2>1
    <3>2. q = [pc |-> "delete", user |-> u, ids |-> Tree(i, FALSE), freed |-> Bytes(Tree(i, FALSE))]
        BY <1>1, <3>1, GotoReaches DEF DeleteFile, Tree
    <3>3. Exists(i) /\ rows[i].owner = u /\ UNCHANGED tableVars
        BY <3>1 DEF DeleteFile, Owned
    <3>4. \A j \in Tree(i, FALSE) : j \in Ids /\ Owned(j, u)
        BY <3>3, TreeOwned
    <3>5. Bytes(Tree(i, FALSE)) \in Nat
        BY <3>4, BytesType
    <3>6. Bytes(Tree(i, FALSE)) <= Bytes(Tree(i, FALSE))
      <4>1. \A n \in Nat : n <= n
          OBVIOUS
      <4> QED
          BY <3>5, <4>1
    <3>7. q.user = u /\ q.ids = Tree(i, FALSE) /\ q.freed = Bytes(Tree(i, FALSE))
        BY <3>2
    <3> QED
        BY <1>4, <3>3, <3>4, <3>6, <3>7, SumsStay DEF SumsRight, tableVars
  <2>2. CASE \E u \in Users, S \in SUBSET Ids : BatchDelete(w, u, S)
    <3>1. PICK u \in Users, S \in SUBSET Ids : BatchDelete(w, u, S)
        BY <2>2
    <3> DEFINE T == {j \in Ids : \E i \in S : j \in Tree(i, FALSE)}
               counted == {p \in S \X (Ids \X (1..MaxSize)) :
                          p[2][1] \in Tree(p[1], FALSE) /\ p[2][2] <= SizeOf(p[2][1])}
    <3>2. q = [pc |-> "delete", user |-> u, ids |-> T, freed |-> Cardinality(counted)]
        BY <1>1, <3>1, GotoReaches DEF BatchDelete, Tree
    <3>3. (\A i \in S : Exists(i) /\ rows[i].owner = u) /\ UNCHANGED tableVars
        BY <3>1 DEF BatchDelete, Owned
    <3>4. \A j \in T : j \in Ids /\ Owned(j, u)
        BY <3>3, TreeOwned
    <3>5. Bytes(T) <= Cardinality(counted)
        BY CountedCovers
    <3>6. q.user = u /\ q.ids = T /\ q.freed = Cardinality(counted)
        BY <3>2
    <3> HIDE DEF T, counted
    <3> QED
        BY <1>4, <3>3, <3>4, <3>5, <3>6, SumsStay DEF SumsRight, tableVars
  <2> QED
      BY <1>1, <1>4, <2>1, <2>2 DEF Turn, Origin
<1>5. CASE q.pc = "restore"
  <2>1. PICK u \in Users, i \in Ids : RestoreFile(w, u, i)
      BY <1>1, <1>5 DEF Turn, Origin
  <2> DEFINE p == rows[i].parent
             reachable == p # Root => Owned(p, u) /\ Live(p)
  <2>2. q = [pc |-> "restore", user |-> u, ids |-> Tree(i, TRUE),
             lifted |-> IF reachable THEN {} ELSE {i}, gained |-> Bytes(Tree(i, TRUE))]
      BY <1>1, <2>1, GotoReaches DEF RestoreFile, Tree
  <2>3. /\ Exists(i) /\ rows[i].owner = u /\ Deleted(i) /\ (IsDir(i) => ~CycleAt(i))
        /\ UNCHANGED tableVars
      BY <2>1 DEF RestoreFile, Owned
  <2>4. \A j \in Tree(i, TRUE) : Deleted(j) /\ Owned(j, u)
      BY <2>3, TreeOwned, TreeDown DEF In
  <2>5. q.user = u /\ q.ids = Tree(i, TRUE) /\ q.gained = Bytes(Tree(i, TRUE))
      BY <2>2
  <2> QED
      BY <1>5, <2>3, <2>4, <2>5, SumsStay DEF SumsRight, tableVars
<1>6. CASE q.pc = "summed"
  <2>1. PICK u \in Users : w = Calibrator /\ Calibrate(u)
      BY <1>1, <1>6 DEF Turn, Origin
  <2>2. q = [pc |-> "summed", user |-> u, actual |-> SumActiveStorage(u)] /\ UNCHANGED tableVars
      BY <1>1, <2>1, GotoReaches DEF Calibrate
  <2>3. q.user = u /\ q.actual = SumActiveStorage(u)
      BY <2>2
  <2> QED
      BY <1>6, <2>2, <2>3, SumsStay DEF SumsRight, tableVars
<1>7. CASE q.pc = "calibrate"
  <2>1. PICK u \in Users : w = Calibrator /\ ReadUsed(u)
      BY <1>1, <1>7 DEF Turn, Origin
  <2>2. /\ q = [pc |-> "calibrate", user |-> u, delta |-> r.actual - used[u]]
        /\ r.pc = "summed" /\ r.user = u /\ UNCHANGED tableVars
      BY <1>1, <1>2, <2>1, GotoReaches DEF ReadUsed
  <2>3. q.user = u /\ q.delta = r.actual - used[u]
      BY <2>2
  <2>4. r.actual = SumActiveStorage(u)
      BY <1>2, <2>2 DEF SumsRight
  <2> QED
      BY <1>7, <2>2, <2>3, <2>4, SumsStay DEF SumsRight, tableVars
<1>8. CASE q.pc \notin {"stored", "delete", "restore", "summed", "calibrate"}
    BY <1>8 DEF SumsRight
<1> QED
    BY <1>3, <1>4, <1>5, <1>6, <1>7, <1>8

\* What the statements on the table do to the sums.
LEMMA SumStays ==
    ASSUME NEW u, \A j \in Ids : Live(j) /\ rows[j].owner = u => Live(j)' /\ KeepsFile(j)
    PROVE  SumActiveStorage(u) <= SumActiveStorage(u)'
<1>1. ASSUME NEW i \in LiveOf(u) PROVE i \in LiveOf(u)' /\ SizeOf(i)' = SizeOf(i)
  <2>1. i \in Ids /\ Live(i) /\ rows[i].owner = u /\ Live(i)' /\ KeepsFile(i)
      BY <1>1 DEF LiveOf
  <2>2. Exists(i) /\ Exists(i)'
      BY <2>1 DEF Live, Exists
  <2> QED
      BY <2>1, <2>2, SizeKept DEF LiveOf, KeepsFile
<1> QED
    BY <1>1, SumGrows

LEMMA SumInsert ==
    ASSUME TableTypeOK, NEW old \in SUBSET Ids, NEW i \in Ids, rows[i].st = "unused",
           NEW row, row.st = "live", rows' = Inserted(old, i, row),
           row.key # NoBlob => row.hash \in Contents,
           \A j \in old : Live(j) /\ rows[j].owner = row.owner, NEW u
    PROVE  IF u = row.owner
           THEN SumActiveStorage(u)' = SumActiveStorage(u) - Bytes(old)
                                          + (IF row.key = NoBlob THEN 0 ELSE Size[row.hash])
           ELSE SumActiveStorage(u) <= SumActiveStorage(u)'
<1>1. ASSUME NEW j \in Ids, j # i
      PROVE  /\ Live(j)' <=> Live(j) /\ j \notin old
             /\ Live(j) => KeepsFile(j)
  <2>1. rows'[j] = SoftDeleted(old)[j]
      BY <1>1, InsertedColumns
  <2> QED
      BY <2>1, SoftDeletedColumns DEF Live, Exists
<1>2. rows'[i] = row /\ Exists(i)' /\ Live(i)' /\ ~Live(i) /\ i \notin old
    BY InsertedColumns DEF Exists, Live
<1>3. CASE u = row.owner
  <2>1. old \in SUBSET LiveOf(u) /\ {i} \in SUBSET Ids /\ {i} \cap LiveOf(u) = {}
      BY <1>2, <1>3 DEF LiveOf
  <2>2. LiveOf(u)' = (LiveOf(u) \ old) \cup {i}
    <3>1. ASSUME NEW j \in Ids PROVE j \in LiveOf(u)' <=> j \in (LiveOf(u) \ old) \cup {i}
      <4>1. CASE j = i
          BY <1>2, <1>3, <4>1 DEF LiveOf
      <4>2. CASE j # i
          BY <1>1, <4>2 DEF LiveOf, KeepsFile
      <4> QED
          BY <4>1, <4>2
    <3> QED
        BY <3>1, SumTotal
  <2>3. \A j \in LiveOf(u) \ old : SizeOf(j)' = SizeOf(j)
    <3> SUFFICES ASSUME NEW j \in LiveOf(u) \ old PROVE SizeOf(j)' = SizeOf(j)
        OBVIOUS
    <3>1. j \in Ids /\ Live(j) /\ j # i /\ j \notin old
        BY <1>2 DEF LiveOf
    <3>2. Live(j)' /\ KeepsFile(j)
        BY <1>1, <3>1
    <3>3. Exists(j) /\ Exists(j)'
        BY <3>1, <3>2 DEF Live, Exists
    <3> QED
        BY <3>2, <3>3, SizeKept
  <2>4. SumActiveStorage(u)' = SumActiveStorage(u) - Total(old, Sizes) + Total({i}, Sizes')
      BY <2>1, <2>2, <2>3, SumChanges
  <2>5. SizeOf(i)' = IF row.key = NoBlob THEN 0 ELSE Size[row.hash]
      BY <1>2 DEF SizeOf, IsDir
  <2>6. Sizes'[i] = SizeOf(i)' /\ SizeOf(i)' \in 0..MaxSize
      BY <2>5, TableAssumption DEF Sizes, TableAssumption
  <2>7. Total({i}, Sizes') = SizeOf(i)'
      BY <2>6, TotalOne
  <2>8. Bytes(old) = Total(old, Sizes)
      BY BytesTotal
  <2> QED
      BY <1>3, <2>4, <2>5, <2>7, <2>8
<1>4. CASE u # row.owner
  <2>1. \A j \in Ids : Live(j) /\ rows[j].owner = u => Live(j)' /\ KeepsFile(j)
      BY <1>1, <1>2, <1>4
  <2> QED
      BY <1>4, <2>1, SumStays
<1> QED
    BY <1>3, <1>4

LEMMA SumDelete ==
    ASSUME TableTypeOK, NEW S \in SUBSET Ids, NEW v, \A i \in S : Owned(i, v),
           rows' = SoftDeleted(S), NEW u
    PROVE  IF u = v THEN SumActiveStorage(u) <= SumActiveStorage(u)' + Bytes(S)
                    ELSE SumActiveStorage(u) <= SumActiveStorage(u)'
<1>1. ASSUME NEW j \in Ids
      PROVE  /\ Live(j)' <=> Live(j) /\ j \notin S
             /\ Live(j) => KeepsFile(j)
    BY SoftDeletedColumns DEF Live, Exists
<1>2. CASE u = v
  <2> DEFINE gone == S \cap LiveOf(u)
  <2>1. gone \in SUBSET LiveOf(u) /\ {} \in SUBSET Ids /\ {} \cap LiveOf(u) = {}
      OBVIOUS
  <2>2. LiveOf(u)' = (LiveOf(u) \ gone) \cup {}
    <3>1. ASSUME NEW j \in Ids PROVE j \in LiveOf(u)' <=> j \in LiveOf(u) \ gone
        BY <1>1 DEF LiveOf, KeepsFile
    <3> QED
        BY <3>1, SumTotal
  <2>3. \A j \in LiveOf(u) \ gone : SizeOf(j)' = SizeOf(j)
    <3> SUFFICES ASSUME NEW j \in LiveOf(u) \ gone PROVE SizeOf(j)' = SizeOf(j)
        OBVIOUS
    <3>1. j \in Ids /\ Live(j) /\ j \notin S
        BY DEF LiveOf
    <3>2. Live(j)' /\ KeepsFile(j)
        BY <1>1, <3>1
    <3>3. Exists(j) /\ Exists(j)'
        BY <3>1, <3>2 DEF Live, Exists
    <3> QED
        BY <3>2, <3>3, SizeKept
  <2>g. gone \in SUBSET S
      OBVIOUS
  <2> HIDE DEF gone
  <2>4. SumActiveStorage(u)' = SumActiveStorage(u) - Total(gone, Sizes) + Total({}, Sizes')
      BY <2>1, <2>2, <2>3, SumChanges
  <2>5. Total({}, Sizes') = 0 /\ Total(gone, Sizes) <= Total(S, Sizes) /\ Bytes(S) = Total(S, Sizes)
      BY <2>g, TotalNone, TotalGrows, BytesTotal
  <2>6. Total(gone, Sizes) \in Nat /\ Total(S, Sizes) \in Nat
      BY <2>g, PairsFinite
  <2> QED
      BY <1>2, <2>4, <2>5, <2>6, SumTotal
<1>3. CASE u # v
  <2>1. \A j \in Ids : Live(j) /\ rows[j].owner = u => Live(j)' /\ KeepsFile(j)
      BY <1>1, <1>3 DEF Owned
  <2> QED
      BY <1>3, <2>1, SumStays
<1> QED
    BY <1>2, <1>3

LEMMA SumRestore ==
    ASSUME TableTypeOK, NEW S \in SUBSET Ids, NEW v, \A i \in S : Deleted(i) /\ Owned(i, v),
           NEW lifted, rows' = Restored(S, lifted), NEW u
    PROVE  IF u = v THEN SumActiveStorage(u)' = SumActiveStorage(u) + Bytes(S)
                    ELSE SumActiveStorage(u) <= SumActiveStorage(u)'
<1>1. ASSUME NEW j \in Ids
      PROVE  /\ Live(j)' <=> Live(j) \/ (Exists(j) /\ j \in S)
             /\ Exists(j) => Exists(j)' /\ KeepsFile(j)
    BY RestoredColumns
<1>2. CASE u = v
  <2>1. {} \in SUBSET LiveOf(u) /\ S \cap LiveOf(u) = {}
      BY DEF LiveOf, Live, Deleted
  <2>2. LiveOf(u)' = (LiveOf(u) \ {}) \cup S
    <3>1. ASSUME NEW j \in Ids PROVE j \in LiveOf(u)' <=> j \in (LiveOf(u) \ {}) \cup S
      <4>1. Live(j) => Exists(j)
          BY DEF Live, Exists
      <4>2. j \in S => Exists(j) /\ rows[j].owner = u
          BY <1>2 DEF Owned
      <4> QED
          BY <1>1, <4>1, <4>2 DEF LiveOf, KeepsFile
    <3> QED
        BY <3>1, SumTotal
  <2>3. \A j \in Ids : Exists(j) => SizeOf(j)' = SizeOf(j)
      BY <1>1, SizeKept
  <2>4. \A j \in LiveOf(u) \ {} : SizeOf(j)' = SizeOf(j)
      BY <2>3 DEF LiveOf, Live, Exists
  <2>5. SumActiveStorage(u)' = SumActiveStorage(u) - Total({}, Sizes) + Total(S, Sizes')
      BY <2>1, <2>2, <2>4, SumChanges
  <2>6. \A j \in S : Sizes'[j] = Sizes[j]
      BY <2>3 DEF Sizes, Owned
  <2>7. Total(S, Sizes') = Total(S, Sizes) /\ Total({}, Sizes) = 0 /\ Bytes(S) = Total(S, Sizes)
      BY <2>6, TotalSame, TotalNone, BytesTotal
  <2> QED
      BY <1>2, <2>5, <2>7, SumTotal
<1>3. CASE u # v
  <2>1. \A j \in Ids : Live(j) /\ rows[j].owner = u => Live(j)' /\ KeepsFile(j)
      BY <1>1 DEF Live, Exists
  <2> QED
      BY <1>3, <2>1, SumStays
<1> QED
    BY <1>2, <1>3

\* No user is charged more by a step than his live files gain.
LEMMA UsageWrites ==
    ASSUME IInv, NeverOvercharged, NEW w \in Workers, Turn(w), BinOnly(req[w]), SumsRight(req[w])
    PROVE  NeverOvercharged'
<1> w \in Procs /\ TypeOK /\ TableTypeOK /\ used \in [Users -> Nat]
    BY DEF Procs, IInv, TypeOK, TableTypeOK
<1>1. PICK r \in Request : r = req[w] /\ BinOnly(r) /\ SumsRight(r)
    BY DEF TypeOK
<1> SUFFICES ASSUME NEW u \in Users PROVE used'[u] <= SumActiveStorage(u)'
    BY DEF NeverOvercharged
<1>2. PICK before, after : /\ before = SumActiveStorage(u) /\ after = SumActiveStorage(u)'
                           /\ before \in Nat /\ after \in Nat
    BY SumTotal
<1>3. used[u] \in Nat /\ used[u] <= before
    BY <1>2 DEF NeverOvercharged
<1>4. CASE used' = used /\ \A j \in Ids : Live(j) => Live(j)' /\ KeepsFile(j)
  <2>1. before <= after
      BY <1>2, <1>4, SumStays
  <2> QED
      BY <1>2, <1>3, <1>4, <2>1
<1>5. CASE CommitUpload(w) /\ rows' # rows
  <2>1. r \in Stored /\ r.pc = "stored"
      BY <1>1, <1>5, RequestType DEF CommitUpload
  <2>2. PICK i \in Ids :
            /\ rows[i].st = "unused"
            /\ rows' = Inserted(r.old, i, NewRow(r.user, r.dest, r.name, r.hash, r.key))
            /\ used' = [used EXCEPT ![r.user] = Clamp(@ - r.freed) + Size[r.hash]]
      BY <1>1, <1>5 DEF CommitUpload
  <2>3. PICK row : /\ rows' = Inserted(r.old, i, row) /\ row.st = "live" /\ row.owner = r.user
                   /\ row.hash = r.hash /\ row.key = r.key
      BY <2>2 DEF NewRow
  <2>4. /\ r.old \in SUBSET Ids /\ r.hash \in Contents /\ row.key # NoBlob
        /\ \A j \in r.old : Live(j) /\ rows[j].owner = row.owner
        /\ r.freed = Bytes(r.old)
      BY <1>1, <2>1, <2>3, TableAssumption DEF Stored, SumsRight, TableAssumption
  <2>5. IF u = row.owner THEN after = before - r.freed + Size[r.hash] ELSE before <= after
      BY <1>2, <2>2, <2>3, <2>4, SumInsert
  <2>6. r.freed \in Nat /\ Size[r.hash] \in Nat
      BY <2>1, <2>4, TableAssumption DEF Stored, TableAssumption
  <2>7. CASE u = r.user
    <3>1. used'[u] = Clamp(used[u] - r.freed) + Size[r.hash]
        BY <2>2, <2>7
    <3>2. before - r.freed >= 0
      <4>1. r.old \subseteq LiveOf(u) /\ LiveOf(u) \in SUBSET Ids
          BY <2>3, <2>4, <2>7 DEF LiveOf
      <4>2. Total(r.old, Sizes) <= Total(LiveOf(u), Sizes)
          BY <4>1, TotalGrows
      <4>3. r.freed <= before
          BY <1>2, <2>4, <4>2, BytesTotal, SumTotal
      <4> QED
          BY <1>2, <2>6, <4>3
    <3>3. Clamp(used[u] - r.freed) <= before - r.freed
        BY <1>2, <1>3, <2>6, <3>2 DEF Clamp
    <3>4. Clamp(used[u] - r.freed) \in Nat
        BY <1>3, <2>6, ClampType
    <3> QED
        BY <1>2, <2>3, <2>5, <2>6, <2>7, <3>1, <3>3, <3>4
  <2>8. CASE u # r.user
    <3>1. used'[u] = used[u]
        BY <2>2, <2>8
    <3> QED
        BY <1>2, <1>3, <2>3, <2>5, <2>8, <3>1
  <2> QED
      BY <2>7, <2>8
<1>6. CASE InsertDir(w) /\ rows' # rows
  <2>1. PICK i \in Ids : /\ rows[i].st = "unused"
                         /\ \E v, p, n : rows' = Inserted({}, i, NewRow(v, p, n, NoBlob, NoBlob))
      BY <1>6 DEF InsertDir
  <2>2. PICK row : rows' = Inserted({}, i, row) /\ row.st = "live" /\ row.key = NoBlob
      BY <2>1 DEF NewRow
  <2>3. IF u = row.owner
        THEN after = before - Bytes({}) + (IF row.key = NoBlob THEN 0 ELSE Size[row.hash])
        ELSE before <= after
    <3>1. PICK old : old = {}
        OBVIOUS
    <3>2. /\ old \in SUBSET Ids /\ rows' = Inserted(old, i, row)
          /\ \A j \in old : Live(j) /\ rows[j].owner = row.owner
          /\ row.key # NoBlob => row.hash \in Contents
        BY <2>2, <3>1
    <3> QED
        BY <1>2, <2>1, <2>2, <3>1, <3>2, SumInsert
  <2>4. Bytes({}) = 0 /\ used' = used
      BY <1>6, BytesTotal, TotalNone DEF InsertDir
  <2> QED
      BY <1>2, <1>3, <2>2, <2>3, <2>4
<1>7. CASE CommitCopy(w) /\ rows' # rows
  <2>1. r \in Copying
      BY <1>1, <1>7, RequestType DEF CommitCopy
  <2>2. PICK i \in Ids :
            /\ rows[i].st = "unused"
            /\ rows' = Inserted({}, i, NewRow(r.user, r.dest, r.name, r.hash, r.key))
            /\ used' = Charged(r.user, Size[r.hash])
      BY <1>1, <1>7 DEF CommitCopy
  <2>3. PICK row : /\ rows' = Inserted({}, i, row) /\ row.st = "live" /\ row.owner = r.user
                   /\ row.hash = r.hash /\ row.key = r.key
      BY <2>2 DEF NewRow
  <2>4. r.hash \in Contents /\ row.key # NoBlob /\ Bytes({}) = 0 /\ Size[r.hash] \in Nat
      BY <2>1, <2>3, TableAssumption, BytesTotal, TotalNone DEF Copying, TableAssumption
  <2>5. IF u = row.owner THEN after = before - 0 + Size[r.hash] ELSE before <= after
      BY <1>2, <2>2, <2>3, <2>4, SumInsert
  <2>6. CASE u = r.user
    <3>1. used'[u] = used[u] + Size[r.hash]
        BY <1>3, <2>2, <2>4, <2>6 DEF Charged, Clamp
    <3> QED
        BY <1>2, <1>3, <2>3, <2>4, <2>5, <2>6, <3>1
  <2>7. CASE u # r.user
    <3>1. used'[u] = used[u]
        BY <2>2, <2>7 DEF Charged
    <3> QED
        BY <1>2, <1>3, <2>3, <2>5, <2>7, <3>1
  <2> QED
      BY <2>6, <2>7
<1>8. CASE CommitDelete(w)
  <2>1. /\ r \in Deleting /\ r.pc = "delete" /\ rows' = SoftDeleted(r.ids)
        /\ used' = Charged(r.user, -r.freed)
      BY <1>1, <1>8, RequestType DEF CommitDelete
  <2>2. /\ r.ids \in SUBSET Ids /\ r.freed \in Nat
        /\ (\A i \in r.ids : Owned(i, r.user)) /\ Bytes(r.ids) <= r.freed
      BY <1>1, <2>1 DEF Deleting, SumsRight
  <2>3. Bytes(r.ids) \in Nat
      BY <2>2, BytesType
  <2>4. IF u = r.user THEN before <= after + Bytes(r.ids) ELSE before <= after
      BY <1>2, <2>1, <2>2, SumDelete
  <2>5. CASE u = r.user
    <3>1. used'[u] = Clamp(used[u] + -r.freed)
        BY <2>1, <2>5 DEF Charged
    <3>2. used[u] + -r.freed <= after
        BY <1>2, <1>3, <2>2, <2>3, <2>4, <2>5
    <3> QED
        BY <1>2, <3>1, <3>2 DEF Clamp
  <2>6. CASE u # r.user
    <3>1. used'[u] = used[u]
        BY <2>1, <2>6 DEF Charged
    <3> QED
        BY <1>2, <1>3, <2>4, <2>6, <3>1
  <2> QED
      BY <2>5, <2>6
<1>9. CASE CommitRestore(w)
  <2>1. /\ r \in Restoring /\ r.pc = "restore" /\ rows' = Restored(r.ids, r.lifted)
        /\ used' = Charged(r.user, r.gained)
      BY <1>1, <1>9, RequestType DEF CommitRestore
  <2>2. /\ r.ids \in SUBSET Ids /\ r.gained \in Nat
        /\ (\A i \in r.ids : Deleted(i) /\ Owned(i, r.user)) /\ r.gained = Bytes(r.ids)
      BY <1>1, <2>1 DEF Restoring, SumsRight
  <2>3. IF u = r.user THEN after = before + r.gained ELSE before <= after
      BY <1>2, <2>1, <2>2, SumRestore
  <2>4. CASE u = r.user
    <3>1. used'[u] = used[u] + r.gained
        BY <1>3, <2>1, <2>2, <2>4 DEF Charged, Clamp
    <3> QED
        BY <1>2, <1>3, <2>2, <2>3, <2>4, <3>1
  <2>5. CASE u # r.user
    <3>1. used'[u] = used[u]
        BY <2>1, <2>5 DEF Charged
    <3> QED
        BY <1>2, <1>3, <2>3, <2>5, <3>1
  <2> QED
      BY <2>4, <2>5
<1>10. CASE CommitPurge(w) \/ (w = Cleaner /\ CleanRows)
  <2>1. used' = used /\ \E S : rows' = HardDeleted(S) /\ \A i \in S : Deleted(i)
      BY <1>1, <1>10 DEF CommitPurge, CleanRows, BinOnly
  <2>2. \A j \in Ids : Live(j) => Live(j)' /\ KeepsFile(j)
      BY <2>1, HardDeletedColumns DEF Live, Exists, Deleted, KeepsFile
  <2> QED
      BY <1>4, <2>1, <2>2
<1>11. CASE CommitRename(w) \/ (CommitMove(w) /\ rows' # rows)
  <2>1. /\ used' = used
        /\ (\E i \in Ids : \E n : rows' = Renamed(i, n)) \/ (\E S, p : rows' = Moved(S, p))
      BY <1>1, <1>11, RequestType DEF CommitRename, CommitMove, Rename
  <2>2. \A j \in Ids : Live(j) => Live(j)' /\ KeepsFile(j)
      BY <2>1, RenamedColumns, MovedColumns DEF Live, Exists
  <2> QED
      BY <1>4, <2>1, <2>2
<1>12. CASE ChargeBack(w)
  <2>1. r \in Sweeping /\ r.pc = "sweep"
      BY <1>1, <1>12, RequestType DEF ChargeBack
  <2>2. rows' = rows /\ (used' = used \/ \E v \in Users : used' = Charged(v, -r.owed[v]) /\ r.owed[v] \in Nat)
      BY <1>1, <1>12, <2>1 DEF ChargeBack, Sweeping
  <2>3. before <= after
      BY <1>2, <2>2, SumStays DEF Live, KeepsFile
  <2>4. used'[u] <= used[u] /\ used'[u] \in Nat
      BY <1>3, <2>2 DEF Charged, Clamp
  <2> QED
      BY <1>2, <1>3, <2>3, <2>4
<1>13. CASE w = Calibrator /\ \E v \in Users : CorrectUsed(v)
  <2>1. PICK v \in Users : w = Calibrator /\ CorrectUsed(v)
      BY <1>13
  <2>2. r.pc = "calibrate" /\ r.user = v /\ used' = Charged(v, r.delta) /\ rows' = rows
      BY <1>1, <2>1 DEF CorrectUsed
  <2>3. before <= after
      BY <1>2, <2>2, SumStays DEF Live, KeepsFile
  <2>4. used'[u] <= before
    <3>1. CASE u = v
      <4>1. r.delta = before - used[u]
          BY <1>1, <1>2, <2>2, <3>1 DEF SumsRight
      <4>2. used'[u] = Clamp(used[u] + r.delta)
          BY <2>2, <3>1 DEF Charged
      <4> QED
          BY <1>2, <1>3, <4>1, <4>2 DEF Clamp
    <3>2. CASE u # v
        BY <1>3, <2>2, <3>2 DEF Charged
    <3> QED
        BY <3>1, <3>2
  <2>5. used'[u] \in Int
    <3>1. used' \in [Users -> Int]
      <4>1. r.delta \in Int
          BY <1>1, <2>2, RequestType DEF Calibrating
      <4> QED
          BY <2>2, <4>1, ChargedType
    <3> QED
        BY <3>1
  <2> QED
      BY <1>2, <2>3, <2>4, <2>5
<1>14. rows' = rows /\ used' = used => \A j \in Ids : Live(j) => Live(j)' /\ KeepsFile(j)
    BY DEF Live, KeepsFile
<1>15. used' = used \/ rows' # rows \/ ChargeBack(w) \/ (w = Calibrator /\ \E v \in Users : CorrectUsed(v))
       \/ CommitDelete(w) \/ CommitRestore(w)
  <2>1. CommitUpload(w) \/ CommitCopy(w) => used' = used \/ rows' # rows
    <3>1. ASSUME NEW i \in Ids, rows[i].st = "unused", NEW old, NEW row, row.st = "live",
                 rows' = Inserted(old, i, row)
          PROVE  rows' # rows
      <4>1. rows'[i] = row
          BY <3>1, InsertedColumns
      <4> QED
          BY <3>1, <4>1
    <3>2. \A v, p, n, h, k : NewRow(v, p, n, h, k).st = "live"
        BY DEF NewRow
    <3> QED
        BY <3>1, <3>2 DEF CommitUpload, CommitCopy
  <2> QED
      BY <2>1 DEF Turn, Writer
<1> QED
    BY <1>4, <1>5, <1>6, <1>7, <1>8, <1>9, <1>10, <1>11, <1>12, <1>13, <1>14, <1>15 DEF Turn, Writer

UsageInv ==
    /\ IInv /\ OneAtATime /\ NeverOvercharged
    /\ \A w \in Workers : BinOnly(req[w]) /\ SumsRight(req[w])

LEMMA UsageStep ==
    ASSUME MaxActive = 1, UsageInv, [Next]_vars
    PROVE  UsageInv'
<1> /\ IInv /\ TypeOK /\ OneAtATime /\ NeverOvercharged
    /\ \A w \in Workers : BinOnly(req[w]) /\ SumsRight(req[w])
    BY DEF UsageInv, IInv
<1>1. PurgeInv'
    BY PurgeStep DEF PurgeInv
<1>2. IInv' /\ OneAtATime' /\ \A w \in Workers : BinOnly(req[w])'
    BY <1>1, IInvStep DEF PurgeInv
<1>0. SumsRight(Idle)'
    BY DEF SumsRight, Idle
<1>3. CASE Quiet
  <2>0. rows' = rows /\ used' = used
      BY <1>3 DEF Quiet, tableVars
  <2>1. ASSUME NEW v \in Workers PROVE SumsRight(req[v])'
    <3>1. PICK r : r = req[v] /\ SumsRight(r)
        OBVIOUS
    <3>2. SumsRight(r)'
        BY <2>0, <3>1, SumsStay
    <3>3. CASE req'[v] = r
        BY <3>2, <3>3 DEF SumsRight
    <3>4. CASE req'[v] = Idle
        BY <1>0, <3>4 DEF SumsRight
    <3> QED
        BY <1>3, <3>1, <3>3, <3>4 DEF Quiet
  <2>2. NeverOvercharged'
    <3> SUFFICES ASSUME NEW u \in Users PROVE used'[u] <= SumActiveStorage(u)'
        BY DEF NeverOvercharged
    <3>1. SumActiveStorage(u) <= SumActiveStorage(u)'
        BY <2>0, SumStays DEF Live, KeepsFile
    <3>2. used[u] \in Nat /\ used'[u] = used[u] /\ used[u] <= SumActiveStorage(u)
        BY <2>0 DEF NeverOvercharged, TypeOK, TableTypeOK
    <3>3. SumActiveStorage(u) \in Nat /\ SumActiveStorage(u)' \in Nat
        BY SumTotal
    <3> QED
        BY <3>1, <3>2, <3>3
  <2> QED
      BY <1>2, <2>1, <2>2 DEF UsageInv
<1>4. ASSUME NEW w \in Workers, Turn(w), \A v \in Workers \ {w} : req'[v] = Idle
      PROVE  UsageInv'
  <2>1. \A v \in Workers \ {w} : SumsRight(req[v])'
      BY <1>0, <1>4 DEF SumsRight
  <2>2. SumsRight(req[w])'
      BY <1>4, SumReads
  <2>3. NeverOvercharged'
      BY <1>4, UsageWrites
  <2> QED
      BY <1>2, <2>1, <2>2, <2>3 DEF UsageInv
<1> QED
    BY <1>3, <1>4, SerialStep

LEMMA UsageInvariant ==
    ASSUME MaxActive = 1
    PROVE  Spec => []UsageInv
<1>1. ASSUME Init PROVE UsageInv
  <2>1. IInv /\ OneAtATime /\ \A w \in Procs : req[w] = Idle
      BY <1>1, SerialInit, IInvInit
  <2>2. \A w \in Workers : BinOnly(req[w]) /\ SumsRight(req[w])
      BY <2>1 DEF BinOnly, SumsRight, Idle, Procs
  <2>3. \A u \in Users : used[u] = 0 /\ SumActiveStorage(u) \in Nat
      BY <1>1, SumTotal DEF Init, TableInit
  <2> QED
      BY <2>1, <2>2, <2>3 DEF UsageInv, NeverOvercharged
<1>2. UsageInv /\ [Next]_vars => UsageInv'
    BY UsageStep
<1> QED
    BY <1>1, <1>2, PTL DEF Spec

\* With one request at a time, no user is ever charged for more than his live
\* files, whatever statement fails and wherever the process is killed: each
\* operation charges what it counted or less, and gives back what it counted or
\* more.
THEOREM ChargesStayBelow ==
    ASSUME MaxActive = 1
    PROVE  Spec => []NeverOvercharged
<1>1. UsageInv => NeverOvercharged
    BY DEF UsageInv
<1> QED
    BY <1>1, UsageInvariant, PTL

-----------------------------------------------------------------------------
(* All of it *)

\* With one request at a time, no failing statement and no file replaced by an
\* upload, whatever a request captured is still so when it acts on it.
THEOREM SerialInductive ==
    ASSUME MaxActive = 1, ~Failures, ConflictMode # "overwrite"
    PROVE  Spec => []SerialIInv
<1>1. BlobInv /\ TreeInv /\ UsageInv => SerialIInv
    BY DEF BlobInv, TreeInv, UsageInv, SerialIInv
<1> QED
    BY <1>1, BlobInvariant, TreeInvariant, UsageInvariant, PTL
=============================================================================
