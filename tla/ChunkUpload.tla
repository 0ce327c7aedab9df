---------------------------- MODULE ChunkUpload ----------------------------
(***************************************************************************)
(* internal/service/file.go: uploads in chunks.  A session is a directory  *)
(* tmp/chunks/<id> that holds session.json and one file for each chunk;    *)
(* nothing locks it.  Requests of its owner, however retried, repeated or  *)
(* reordered, the hourly cleaning and crashes of the server meet there.    *)
(* The row that CompleteUpload inserts is a row of FileTable, the lock it  *)
(* takes is HashLock's.                                                    *)
(***************************************************************************)
EXTENDS Integers, FiniteSets

CONSTANTS
    Uploads,    \* upload ids: random, never generated twice
    NoUpload,   \* the cleaning job has nothing to remove
    ChunkCount, \* chunks of a file
    Handlers,   \* goroutines of HTTP requests
    Failures    \* may writes and statements fail?

ASSUME ChunkAssumption ==
    /\ NoUpload \notin Uploads
    /\ ChunkCount \in Nat \ {0}
    /\ Handlers \cap {"absent", "torn", "whole"} = {}
    /\ Failures \in BOOLEAN

VARIABLES
    dir,        \* the directory of each upload
    begun,      \* the uploads that InitUpload has begun
    req,        \* what each request is doing
    job,        \* the upload that CleanStaleChunks is about to remove
    acked,      \* chunks the client knows to be stored: every request it sent
                \* for them was answered, the last one with 200
    listed      \* chunks that UploadStatus last listed as completed

vars == <<dir, begun, req, job, acked, listed>>

-----------------------------------------------------------------------------
Index == 0 .. ChunkCount - 1

\* A chunk's file: written by a request, or left by one.
Chunk == {"absent", "torn", "whole"} \cup Handlers

NoDir == [st |-> "none"]
\* `session`: session.json; `expired`: it is older than chunk_clean_timeout;
\* `fresh`: an entry was made or removed in the last minute.
Dir == [st : {"dir"}, session : {"absent", "torn", "saved"}, expired : BOOLEAN,
        fresh : BOOLEAN, chunks : [Index -> Chunk]]

Idle == [pc |-> "idle"]
Initiating == [pc : {"save"}, upload : Uploads]
Chunking == [pc : {"create", "copy"}, upload : Uploads, index : Index]
\* `whole`: the chunks merged so far were; `careful`, `resumed`: the client had
\* every chunk acknowledged, or listed, and has sent none since.
Completing ==
    [pc : {"merge"}, upload : Uploads, index : Index, whole : BOOLEAN,
     careful : BOOLEAN, resumed : BOOLEAN]
    \cup [pc : {"lookup", "link", "store", "cleanup"}, upload : Uploads,
          whole : BOOLEAN, careful : BOOLEAN, resumed : BOOLEAN]

TypeOK ==
    /\ dir \in [Uploads -> {NoDir} \cup Dir]
    /\ begun \subseteq Uploads
    /\ req \in [Handlers -> {Idle} \cup Initiating \cup Chunking \cup Completing]
    /\ job \in Uploads \cup {NoUpload}
    /\ acked \in [Uploads -> SUBSET Index]
    /\ listed \in [Uploads -> SUBSET Index]

Init ==
    /\ dir = [u \in Uploads |-> NoDir]
    /\ begun = {}
    /\ req = [w \in Handlers |-> Idle]
    /\ job = NoUpload
    /\ acked = [u \in Uploads |-> {}]
    /\ listed = [u \in Uploads |-> {}]

Exists(u) == dir[u] # NoDir

\* loadUploadSession
Loads(u) == Exists(u) /\ dir[u].session = "saved"

Goto(w, r) == req' = [req EXCEPT ![w] = r]
Finish(w) == Goto(w, Idle)

\* os.MkdirAll made it a moment ago
NewDir == [st |-> "dir", session |-> "absent", expired |-> FALSE, fresh |-> TRUE,
           chunks |-> [i \in Index |-> "absent"]]

\* os.RemoveAll
Removed(u) == [dir EXCEPT ![u] = NoDir]

\* Making or removing an entry renews the time of the directory.
Renews(d, i, c) == (d.chunks[i] = "absent" /\ c # "absent")
                   \/ (d.chunks[i] # "absent" /\ c = "absent")

\* The directory with chunk i as c.
WithChunk(d, i, c) ==
    [st |-> "dir", session |-> d.session, expired |-> d.expired,
     fresh |-> IF Renews(d, i, c) THEN TRUE ELSE d.fresh,
     chunks |-> [d.chunks EXCEPT ![i] = c]]

ChunkInFlight(w, u) == req[w].pc \in {"create", "copy"} /\ req[w].upload = u

-----------------------------------------------------------------------------
(* InitUpload *)

InitUpload(w, u) ==
    /\ req[w] = Idle
    /\ u \notin begun
    /\ begun' = begun \cup {u}
    /\ dir' = [dir EXCEPT ![u] = NewDir]
    /\ Goto(w, [pc |-> "save", upload |-> u])
    /\ UNCHANGED <<job, acked, listed>>

\* os.WriteFile fails when the directory is gone, or halfway.
SaveSession(w) ==
    /\ req[w].pc = "save"
    /\ LET u == req[w].upload
       IN  \E s \in IF Failures THEN {"saved", "torn"} ELSE {"saved"} :
              dir' = IF Exists(u)
                     THEN [dir EXCEPT ![u] = [@ EXCEPT !.session = s, !.fresh = TRUE]]
                     ELSE dir
    /\ Finish(w)
    /\ UNCHANGED <<begun, job, acked, listed>>

-----------------------------------------------------------------------------
(* UploadChunk *)

\* The client sends chunk i: what it knew of the chunk, and the completions it
\* has asked for, are no longer safe.
UploadChunk(w, u, i) ==
    /\ req[w] = Idle
    /\ Loads(u)
    /\ req' = [v \in Handlers |->
                  IF v = w THEN [pc |-> "create", upload |-> u, index |-> i]
                  ELSE IF req[v].pc = "merge" /\ req[v].upload = u
                  THEN [req[v] EXCEPT !.careful = FALSE, !.resumed = FALSE]
                  ELSE req[v]]
    /\ acked' = [acked EXCEPT ![u] = @ \ {i}]
    /\ listed' = [listed EXCEPT ![u] = @ \ {i}]
    /\ UNCHANGED <<dir, begun, job>>

\* MkdirAll, even if the session has gone since; os.Create truncates.
CreateChunk(w) ==
    /\ req[w].pc = "create"
    /\ LET u == req[w].upload
       IN  dir' = [dir EXCEPT ![u] =
                      WithChunk(IF Exists(u) THEN dir[u] ELSE NewDir, req[w].index, w)]
    /\ Goto(w, [req[w] EXCEPT !.pc = "copy"])
    /\ UNCHANGED <<begun, job, acked, listed>>

\* MkdirAll or os.Create fails: at most an empty directory is left.
FailCreate(w) ==
    /\ Failures
    /\ req[w].pc = "create"
    /\ LET u == req[w].upload
       IN  dir' = dir \/ (~Exists(u) /\ dir' = [dir EXCEPT ![u] = NewDir])
    /\ Finish(w)
    /\ UNCHANGED <<begun, job, acked, listed>>

\* The file w writes is no longer the chunk's if the directory was removed, and
\* not the whole of it before the last request that truncated it has finished.
CopyChunk(w) ==
    /\ req[w].pc = "copy"
    /\ LET u == req[w].upload
           i == req[w].index
           alone == \A v \in Handlers \ {w} : ~(ChunkInFlight(v, u) /\ req[v].index = i)
       IN  /\ dir' = IF Exists(u) /\ dir[u].chunks[i] = w
                     THEN [dir EXCEPT ![u] = WithChunk(@, i, "whole")] ELSE dir
           /\ acked' = IF alone THEN [acked EXCEPT ![u] = @ \cup {i}] ELSE acked
    /\ Finish(w)
    /\ UNCHANGED <<begun, job, listed>>

\* io.Copy failed: the chunk is removed, whoever writes it now.
FailChunk(w) ==
    /\ Failures
    /\ req[w].pc = "copy"
    /\ LET u == req[w].upload
       IN  dir' = IF Exists(u) THEN [dir EXCEPT ![u] = WithChunk(@, req[w].index, "absent")]
                  ELSE dir
    /\ Finish(w)
    /\ UNCHANGED <<begun, job, acked, listed>>

-----------------------------------------------------------------------------
(* CompleteUpload *)

\* Mutant: the session is not loaded.
CompleteUnloaded(w, u) ==
    /\ req[w] = Idle
    /\ Exists(u) /\ \A i \in Index : dir[u].chunks[i] # "absent"
    /\ LET answered == \A v \in Handlers : ~ChunkInFlight(v, u)
       IN  Goto(w, [pc |-> "merge", upload |-> u, index |-> 0, whole |-> TRUE,
                    careful |-> answered /\ acked[u] = Index,
                    resumed |-> acked[u] \cup listed[u] = Index])
    /\ UNCHANGED <<dir, begun, job, acked, listed>>

\* Every chunk is there; then they are merged one by one.
CompleteUpload(w, u) ==
    /\ req[w] = Idle
    /\ Loads(u)
    /\ \A i \in Index : dir[u].chunks[i] # "absent"
    /\ LET answered == \A v \in Handlers : ~ChunkInFlight(v, u)
       IN  Goto(w, [pc |-> "merge", upload |-> u, index |-> 0, whole |-> TRUE,
                    careful |-> answered /\ acked[u] = Index,
                    resumed |-> acked[u] \cup listed[u] = Index])
    /\ UNCHANGED <<dir, begun, job, acked, listed>>

Merged(r, whole) ==
    IF r.index < ChunkCount - 1
    THEN [r EXCEPT !.index = @ + 1, !.whole = whole]
    ELSE [pc |-> "lookup", upload |-> r.upload, whole |-> whole,
          careful |-> r.careful, resumed |-> r.resumed]

\* Mutant: a chunk that is missing by now is skipped.
MergeOrSkip(w) ==
    /\ req[w].pc = "merge"
    /\ LET r == req[w]
           there == Exists(r.upload) /\ dir[r.upload].chunks[r.index] # "absent"
       IN  Goto(w, Merged(r, r.whole /\ there /\ dir[r.upload].chunks[r.index] = "whole"))
    /\ UNCHANGED <<dir, begun, job, acked, listed>>

\* os.Open fails if the chunk was removed meanwhile; a file being written, or
\* left torn by a crash, is merged as it is.
MergeChunk(w) ==
    /\ req[w].pc = "merge"
    /\ LET r == req[w]
           there == Exists(r.upload) /\ dir[r.upload].chunks[r.index] # "absent"
       IN  \/ there /\ Goto(w, Merged(r, r.whole /\ dir[r.upload].chunks[r.index] = "whole"))
           \/ ~there /\ Finish(w)
    /\ UNCHANGED <<dir, begun, job, acked, listed>>

\* No hash to compare: InitUpload leaves FileHash empty.  FileByHash answers; a
\* duplicate's session is removed before the row is inserted.
LookupHash(w) ==
    /\ req[w].pc = "lookup"
    /\ \/ /\ Goto(w, [req[w] EXCEPT !.pc = "link"])
          /\ dir' = Removed(req[w].upload)
       \/ Goto(w, [req[w] EXCEPT !.pc = "store"]) /\ UNCHANGED dir
       \/ Failures /\ Finish(w) /\ UNCHANGED dir
    /\ UNCHANGED <<begun, job, acked, listed>>

\* The transaction of a duplicate, or the rename of the merged file and its
\* transaction, after which the session is removed.
CommitFile(w) ==
    /\ req[w].pc \in {"link", "store"}
    /\ \/ req[w].pc = "store" /\ Goto(w, [req[w] EXCEPT !.pc = "cleanup"])
       \/ (req[w].pc = "link" \/ Failures) /\ Finish(w)
    /\ UNCHANGED <<dir, begun, job, acked, listed>>

CleanupSession(w) ==
    /\ req[w].pc = "cleanup"
    /\ dir' = Removed(req[w].upload)
    /\ Finish(w)
    /\ UNCHANGED <<begun, job, acked, listed>>

-----------------------------------------------------------------------------
(* UploadStatus, CancelUpload *)

\* A chunk is "completed" when its file exists.
UploadStatus(u) ==
    /\ Loads(u)
    /\ listed' = [listed EXCEPT ![u] = {i \in Index : dir[u].chunks[i] # "absent"}]
    /\ UNCHANGED <<dir, begun, req, job, acked>>

CancelUpload(u) ==
    /\ Loads(u)
    /\ dir' = Removed(u)
    /\ UNCHANGED <<begun, req, job, acked, listed>>

-----------------------------------------------------------------------------
(* CleanStaleChunks, time and crashes *)

\* Mutant: a directory made a moment ago is not spared.
InspectAny(u) ==
    /\ job = NoUpload
    /\ Exists(u)
    /\ dir[u].session = "absent" \/ dir[u].expired
    /\ job' = u
    /\ UNCHANGED <<dir, begun, req, acked, listed>>

\* Mutant: a directory without session.json is left alone.
InspectSessions(u) ==
    /\ job = NoUpload
    /\ Exists(u) /\ ~dir[u].fresh
    /\ dir[u].session # "absent" /\ dir[u].expired
    /\ job' = u
    /\ UNCHANGED <<dir, begun, req, acked, listed>>

Inspect(u) ==
    /\ job = NoUpload
    /\ Exists(u) /\ ~dir[u].fresh
    /\ dir[u].session = "absent" \/ dir[u].expired
    /\ job' = u
    /\ UNCHANGED <<dir, begun, req, acked, listed>>

RemoveStale ==
    /\ job # NoUpload
    /\ dir' = Removed(job)
    /\ job' = NoUpload
    /\ UNCHANGED <<begun, req, acked, listed>>

\* A minute, or chunk_clean_timeout, is longer than InitUpload takes.
Saving(u) == \E w \in Handlers : req[w].pc = "save" /\ req[w].upload = u

AgeDir(u) ==
    /\ Exists(u) /\ dir[u].fresh /\ ~Saving(u)
    /\ dir' = [dir EXCEPT ![u].fresh = FALSE]
    /\ UNCHANGED <<begun, req, job, acked, listed>>

ExpireSession(u) ==
    /\ Exists(u) /\ dir[u].session # "absent" /\ ~dir[u].expired
    /\ dir' = [dir EXCEPT ![u].expired = TRUE]
    /\ UNCHANGED <<begun, req, job, acked, listed>>

\* The server dies and starts again: a chunk being written is left torn.
Crash ==
    /\ dir' = [u \in Uploads |->
                  IF ~Exists(u) THEN NoDir
                  ELSE [dir[u] EXCEPT !.chunks =
                          [i \in Index |-> IF @[i] \in Handlers THEN "torn" ELSE @[i]]]]
    /\ req' = [w \in Handlers |-> Idle]
    /\ job' = NoUpload
    /\ UNCHANGED <<begun, acked, listed>>

-----------------------------------------------------------------------------
Next ==
    \/ \E w \in Handlers :
          \/ \E u \in Uploads :
                \/ InitUpload(w, u)
                \/ CompleteUpload(w, u)
                \/ \E i \in Index : UploadChunk(w, u, i)
          \/ SaveSession(w) \/ CreateChunk(w) \/ FailCreate(w) \/ CopyChunk(w) \/ FailChunk(w)
          \/ MergeChunk(w) \/ LookupHash(w) \/ CommitFile(w) \/ CleanupSession(w)
    \/ \E u \in Uploads :
          UploadStatus(u) \/ CancelUpload(u) \/ Inspect(u) \/ AgeDir(u) \/ ExpireSession(u)
    \/ RemoveStale
    \/ Crash

Spec == Init /\ [][Next]_vars

\* From some time on the client sends no chunk of u.
SendsEnd(u) == <>[][\A w \in Handlers, i \in Index : ~UploadChunk(w, u, i)]_vars

\* InitUpload goes on, and a session grows old.  A request for a chunk renews its
\* directory a few times at most, but as long as the client sends chunks the
\* hourly cleaning may find it renewed every time; afterwards it is renewed no
\* more and a minute passes.  The cleaning goes over every directory and is not
\* killed at the same place for ever.
FairSpec ==
    /\ Spec
    /\ \A w \in Handlers : WF_vars(SaveSession(w))
    /\ \A u \in Uploads :
          /\ WF_vars(ExpireSession(u))
          /\ SendsEnd(u) => WF_vars(AgeDir(u)) /\ SF_vars(Inspect(u))
    /\ SF_vars(RemoveStale)

-----------------------------------------------------------------------------
(* Properties *)

Assembled(w) == req[w].pc \in {"lookup", "link", "store", "cleanup"}

\* The file CompleteUpload stores is the client's, if the client had an answer
\* to every request, 200 for each chunk, and sends no chunk while it waits.
CarefulIsWhole == \A w \in Handlers : (Assembled(w) /\ req[w].careful) => req[w].whole

\* The same for a client that, as the web client does, resumes with the chunks
\* that UploadStatus lists.
ResumedIsWhole == \A w \in Handlers : (Assembled(w) /\ req[w].resumed) => req[w].whole

\* The cleaning removes no session younger than chunk_clean_timeout, one that
\* InitUpload is about to write included.
YoungSessionsKept ==
    (job # NoUpload /\ Exists(job)) => dir[job].session # "saved" \/ dir[job].expired

\* Nothing has happened to an upload that is not begun.
UnbegunUntouched ==
    \A u \in Uploads \ begun :
        ~Exists(u) /\ job # u /\ \A w \in Handlers : req[w] # Idle => req[w].upload # u

\* InitUpload has its directory to itself until the session is written.
SavingAlone ==
    \A w \in Handlers : req[w].pc = "save" =>
        LET u == req[w].upload
        IN  /\ Exists(u) /\ dir[u].session = "absent" /\ dir[u].fresh
            /\ job # u /\ u \in begun
            /\ \A v \in Handlers \ {w} : req[v] # Idle => req[v].upload # u

Writing(w, u, i) == ChunkInFlight(w, u) /\ req[w].index = i

\* A chunk being written has its writer; only a crash leaves one torn.
ChunksHaveWriters ==
    \A u \in Uploads, i \in Index : Exists(u) =>
        /\ \A w \in Handlers :
              dir[u].chunks[i] = w => req[w].pc = "copy" /\ Writing(w, u, i)
        /\ dir[u].chunks[i] = "torn" =>
              \A w \in Handlers : Writing(w, u, i) => req[w].pc = "create"

\* What the client knows to be stored is stored, or was removed.
AckedSettled ==
    \A u \in Uploads : \A i \in acked[u] :
        /\ \A w \in Handlers : ~Writing(w, u, i)
        /\ Exists(u) => dir[u].chunks[i] \in {"absent", "whole"}

CarefulMerge ==
    \A w \in Handlers : (req[w].pc = "merge" /\ req[w].careful) =>
        acked[req[w].upload] = Index /\ req[w].whole

\* The inductive invariant behind CarefulIsWhole and YoungSessionsKept.
IInv ==
    /\ TypeOK
    /\ UnbegunUntouched /\ SavingAlone /\ YoungSessionsKept
    /\ ChunksHaveWriters /\ AckedSettled /\ CarefulMerge /\ CarefulIsWhole

\* Once the client of an upload has sent its last chunk, its directory is removed
\* in the end, whether the upload was completed, abandoned, made again by a late
\* chunk or left without a session by a crash.  While it goes on sending, the
\* cleaning may spare the directory for ever.
DirectoriesGo == \A u \in Uploads : SendsEnd(u) => (Exists(u) ~> ~Exists(u))

-----------------------------------------------------------------------------
(* Implementing UploadPromise *)

life == [u \in Uploads |->
            IF u \notin begun THEN "unknown"
            ELSE IF Saving(u) THEN "opening" ELSE IF Loads(u) THEN "open" ELSE "closed"]
pledge == [w \in Handlers |->
              IF req[w].pc = "merge"
              THEN [upload |-> req[w].upload, sound |-> req[w].careful, file |-> "partial"]
              ELSE IF Assembled(w)
              THEN [upload |-> req[w].upload, sound |-> req[w].careful,
                    file |-> IF req[w].whole THEN "whole" ELSE "torn"]
              ELSE Idle]

Promise ==
    INSTANCE UploadPromise WITH Chunks <- Index, Requests <- Handlers, NoPledge <- Idle, sure <- acked

\* What a client can rely on: an upload that was completed, cancelled, cleaned
\* or never written to its session opens no more, although a late chunk makes its
\* directory again; a file guaranteed when it was asked for is whole, whatever
\* other requests, the cleaning and a crash do between two steps.
ImplementsUpload == Promise!Spec
=============================================================================
