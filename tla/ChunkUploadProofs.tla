-------------------------- MODULE ChunkUploadProofs --------------------------
(***************************************************************************)
(* Theorems about ChunkUpload, for any numbers of uploads, chunks and      *)
(* requests.                                                               *)
(***************************************************************************)
EXTENDS ChunkUpload, TLAPS

USE DEF Writing, ChunkInFlight, Assembled

Request == {Idle} \cup Initiating \cup Chunking \cup Completing

-----------------------------------------------------------------------------
(* Records *)

LEMMA DirType ==
    ASSUME TypeOK, NEW u \in Uploads
    PROVE  /\ Exists(u) => dir[u] \in Dir
           /\ dir[u] \in Dir => Exists(u)
BY DEF TypeOK, Exists, NoDir, Dir

LEMMA NewDirType ==
    /\ NewDir \in Dir /\ NewDir.session = "absent" /\ NewDir.fresh
    /\ \A i \in Index : NewDir.chunks[i] = "absent"
BY DEF NewDir, Dir, Chunk

LEMMA WithChunkFacts ==
    ASSUME NEW d \in Dir, NEW i \in Index, NEW c \in Chunk
    PROVE  /\ WithChunk(d, i, c) \in Dir
           /\ WithChunk(d, i, c).session = d.session
           /\ WithChunk(d, i, c).expired = d.expired
           /\ d.fresh => WithChunk(d, i, c).fresh
           /\ WithChunk(d, i, c).chunks[i] = c
           /\ \A j \in Index \ {i} : WithChunk(d, i, c).chunks[j] = d.chunks[j]
<1> DEFINE e == WithChunk(d, i, c)
<1>1. /\ d.st = "dir" /\ d.session \in {"absent", "torn", "saved"}
      /\ d.expired \in BOOLEAN /\ d.fresh \in BOOLEAN /\ d.chunks \in [Index -> Chunk]
    BY DEF Dir
<1>2. e = [st |-> "dir", session |-> d.session, expired |-> d.expired,
           fresh |-> IF Renews(d, i, c) THEN TRUE ELSE d.fresh,
           chunks |-> [d.chunks EXCEPT ![i] = c]]
    BY DEF WithChunk
<1> HIDE DEF e
<1>3. /\ e.session = d.session /\ e.expired = d.expired
      /\ e.fresh = IF Renews(d, i, c) THEN TRUE ELSE d.fresh
      /\ e.chunks = [d.chunks EXCEPT ![i] = c]
    BY <1>2
<1>4. e.fresh \in BOOLEAN /\ (d.fresh => e.fresh)
    BY <1>1, <1>3
<1>5. e.chunks \in [Index -> Chunk]
    BY <1>1, <1>3
<1>6. e \in Dir
    BY <1>1, <1>2, <1>3, <1>4, <1>5 DEF Dir
<1> QED
    BY <1>1, <1>3, <1>4, <1>6 DEF e

\* What the fields of a request are, by the place it has reached.
LEMMA RequestFields ==
    ASSUME NEW r \in Request
    PROVE  /\ r # Idle => r.upload \in Uploads
           /\ r.pc \in {"create", "copy"} => r.index \in Index /\ r \in Chunking
           /\ r.pc = "merge" =>
                /\ r.index \in Index /\ r.whole \in BOOLEAN
                /\ r.careful \in BOOLEAN /\ r.resumed \in BOOLEAN
           /\ r.pc \in {"lookup", "link", "store", "cleanup"} =>
                r.whole \in BOOLEAN /\ r.careful \in BOOLEAN /\ r.resumed \in BOOLEAN
           /\ r.pc = "idle" <=> r = Idle
BY DEF Request, Idle, Initiating, Chunking, Completing

LEMMA ReqType ==
    ASSUME TypeOK, NEW w \in Handlers
    PROVE  req[w] \in Request
BY DEF TypeOK, Request

\* A step that changes the request of w only.
LEMMA GotoFacts ==
    ASSUME TypeOK, NEW w \in Handlers, NEW r \in Request, Goto(w, r)
    PROVE  /\ req' \in [Handlers -> Request]
           /\ req'[w] = r
           /\ \A v \in Handlers \ {w} : req'[v] = req[v]
BY DEF TypeOK, Goto, Request

LEMMA IdleType == Idle \in Request
BY DEF Request

-----------------------------------------------------------------------------
(* Steps that write no chunk *)

DirOf == [Uploads -> {NoDir} \cup Dir]

\* No InitUpload is about to write the session of u.
NotSaving(u) == \A v \in Handlers : req[v].pc = "save" => req[v].upload # u

\* The directory of u stays, is removed, or only grows older.
Kept(u) == dir'[u] = dir[u]
Gone(u) == dir'[u] = NoDir /\ NotSaving(u)
Aged(u) ==
    /\ Exists(u) /\ Exists(u)'
    /\ dir'[u].chunks = dir[u].chunks /\ dir'[u].session = dir[u].session
    /\ dir[u].expired => dir'[u].expired
    /\ dir'[u].fresh = dir[u].fresh \/ NotSaving(u)

\* Who has loaded the session of u shares it with no InitUpload.
LEMMA LoadedNotSaving ==
    ASSUME IInv, NEW u \in Uploads
    PROVE  /\ Loads(u) => NotSaving(u)
           /\ \A w \in Handlers : (req[w] # Idle /\ req[w].pc # "save" /\ req[w].upload = u)
                                    => NotSaving(u)
           /\ Exists(u) => u \in begun
BY DEF IInv, Loads, NotSaving, SavingAlone, UnbegunUntouched

\* Time, the cleaning and cancellation.
LEMMA DirStep ==
    ASSUME IInv, UNCHANGED <<begun, req, acked>>, dir' \in DirOf,
           job' \in Uploads \cup {NoUpload}, listed' \in [Uploads -> SUBSET Index],
           \A u \in Uploads : Kept(u) \/ Gone(u) \/ Aged(u),
           \/ job' = job
           \/ job' = NoUpload
           \/ /\ dir' = dir
              /\ Exists(job') /\ ~dir[job'].fresh
              /\ dir[job'].session = "absent" \/ dir[job'].expired
    PROVE  IInv'
<1> USE ChunkAssumption DEF IInv
<1>1. TypeOK'
    BY DEF TypeOK, DirOf
<1>2. UnbegunUntouched'
    BY DEF UnbegunUntouched, Kept, Gone, Aged, Exists
<1>3. SavingAlone'
    <2> SUFFICES ASSUME NEW w \in Handlers, req[w].pc = "save"
                 PROVE  LET u == req[w].upload
                        IN  /\ Exists(u)' /\ dir'[u].session = "absent" /\ dir'[u].fresh
                            /\ job' # u
        BY DEF SavingAlone
    <2> DEFINE u == req[w].upload
    <2>1. u \in Uploads
        BY ReqType, RequestFields DEF Idle
    <2>2. ~NotSaving(u)
        BY DEF NotSaving
    <2>3. /\ Exists(u) /\ dir[u].session = "absent" /\ dir[u].fresh /\ job # u
        BY DEF SavingAlone
    <2>4. Exists(u)' /\ dir'[u].session = "absent" /\ dir'[u].fresh
        BY <2>1, <2>2, <2>3 DEF Kept, Gone, Aged, Exists
    <2> QED
        BY <2>1, <2>3, <2>4
<1>4. YoungSessionsKept'
    BY DEF YoungSessionsKept, Kept, Gone, Aged, Exists
<1>5. ChunksHaveWriters'
    BY DEF ChunksHaveWriters, Kept, Gone, Aged, Exists
<1>6. AckedSettled'
    BY DEF AckedSettled, Kept, Gone, Aged, Exists
<1>7. CarefulMerge' /\ CarefulIsWhole'
    BY DEF CarefulMerge, CarefulIsWhole
<1> QED
    BY <1>1, <1>2, <1>3, <1>4, <1>5, <1>6, <1>7

\* A request of CompleteUpload starts, goes on or ends.
LEMMA CompletionStep ==
    ASSUME IInv, NEW w \in Handlers, NEW r \in Request,
           req[w].pc \notin {"save", "create", "copy"}, Goto(w, r),
           UNCHANGED <<begun, job, acked, listed>>, dir' \in DirOf,
           \A u \in Uploads : Kept(u) \/ Gone(u),
           r = Idle \/ /\ r.pc \in {"merge", "lookup", "link", "store", "cleanup"}
                       /\ r.upload \in begun /\ NotSaving(r.upload),
           (r.pc = "merge" /\ r.careful) => acked[r.upload] = Index /\ r.whole,
           (r.pc \in {"lookup", "link", "store", "cleanup"} /\ r.careful) => r.whole
    PROVE  IInv'
<1> USE DEF IInv
<1>1. /\ req' \in [Handlers -> Request]
      /\ req'[w] = r
      /\ \A v \in Handlers \ {w} : req'[v] = req[v]
    BY GotoFacts
<1>2. r.pc \notin {"save", "create", "copy"}
    BY DEF Idle
<1>3. TypeOK'
    BY <1>1 DEF TypeOK, DirOf, Request
<1>4. UnbegunUntouched'
    BY <1>1 DEF UnbegunUntouched, Kept, Gone, Exists
<1>5. SavingAlone'
    <2> SUFFICES ASSUME NEW v \in Handlers \ {w}, req[v].pc = "save"
                 PROVE  /\ dir'[req[v].upload] # NoDir
                        /\ dir'[req[v].upload].session = "absent" /\ dir'[req[v].upload].fresh
                        /\ job # req[v].upload /\ req[v].upload \in begun
                        /\ \A x \in Handlers \ {v} : req'[x] # Idle => req'[x].upload # req[v].upload
        BY <1>1, <1>2 DEF SavingAlone, Exists
    <2> DEFINE u == req[v].upload
    <2>2. u \in Uploads
        BY ReqType, RequestFields DEF Idle
    <2>3. ~NotSaving(u)
        BY DEF NotSaving
    <2>4. /\ Exists(u) /\ dir[u].session = "absent" /\ dir[u].fresh /\ job # u
          /\ u \in begun /\ \A x \in Handlers \ {v} : req[x] # Idle => req[x].upload # u
        BY DEF SavingAlone
    <2>5. dir'[u] = dir[u]
        BY <2>2, <2>3 DEF Kept, Gone
    <2> QED
        BY <1>1, <2>3, <2>4, <2>5 DEF Exists
<1>6. YoungSessionsKept'
    BY DEF YoungSessionsKept, Kept, Gone, Exists, TypeOK
<1>7. ChunksHaveWriters'
    <2> SUFFICES ASSUME NEW u \in Uploads, NEW i \in Index, Exists(u)'
                 PROVE  /\ \A v \in Handlers :
                              dir'[u].chunks[i] = v => req'[v].pc = "copy" /\ Writing(v, u, i)'
                        /\ dir'[u].chunks[i] = "torn" =>
                              \A v \in Handlers : Writing(v, u, i)' => req'[v].pc = "create"
        BY DEF ChunksHaveWriters
    <2>1. Exists(u) /\ dir'[u] = dir[u]
        BY DEF Kept, Gone, Exists
    <2> QED
        BY <1>1, <1>2, <2>1 DEF ChunksHaveWriters
<1>8. AckedSettled'
    BY <1>1, <1>2 DEF AckedSettled, Kept, Gone, Exists, TypeOK
<1>9. CarefulMerge' /\ CarefulIsWhole'
    BY <1>1 DEF CarefulMerge, CarefulIsWhole
<1> QED
    BY <1>3, <1>4, <1>5, <1>6, <1>7, <1>8, <1>9

-----------------------------------------------------------------------------
(* Steps that write the session or a chunk *)

LEMMA InitUploadInv ==
    ASSUME IInv, NEW w \in Handlers, NEW u \in Uploads, InitUpload(w, u)
    PROVE  IInv'
<1> USE DEF IInv
<1> DEFINE r == [pc |-> "save", upload |-> u]
<1>1. r \in Request
    BY DEF Request, Initiating
<1>2. /\ req' \in [Handlers -> Request] /\ req'[w] = r
      /\ \A v \in Handlers \ {w} : req'[v] = req[v]
    BY <1>1, GotoFacts DEF InitUpload
<1>3. /\ req[w] = Idle /\ u \notin begun /\ begun' = begun \cup {u}
      /\ dir' = [dir EXCEPT ![u] = NewDir]
      /\ UNCHANGED <<job, acked, listed>>
    BY DEF InitUpload
<1>4. /\ dir'[u] = NewDir /\ NewDir # NoDir /\ dir[u] = NoDir
      /\ \A t \in Uploads \ {u} : dir'[t] = dir[t]
    BY <1>3 DEF TypeOK, NewDir, NoDir, UnbegunUntouched, Exists
<1>5. job # u /\ \A v \in Handlers : req[v] # Idle => req[v].upload # u
    BY <1>3 DEF UnbegunUntouched
<1>6. TypeOK'
    BY <1>2, <1>3, NewDirType DEF TypeOK, Request
<1>7. UnbegunUntouched'
    BY <1>2, <1>3, <1>4 DEF UnbegunUntouched, Exists
<1>8. SavingAlone'
    <2>1. ASSUME NEW v \in Handlers \ {w}, req[v].pc = "save"
          PROVE  req[v] # Idle /\ req[v].upload \in Uploads \ {u}
        BY <2>1, <1>5, ReqType, RequestFields DEF Idle
    <2> QED
        BY <1>2, <1>3, <1>4, <1>5, <2>1, NewDirType DEF SavingAlone, Exists
<1>9. YoungSessionsKept'
    BY <1>3, <1>4, <1>5 DEF YoungSessionsKept, Exists, TypeOK
<1>10. ChunksHaveWriters'
    <2>1. ASSUME NEW v \in Handlers, NEW t \in Uploads, NEW i \in Index
          PROVE  Writing(v, t, i)' <=> Writing(v, t, i)
        BY <1>2, <1>3 DEF Idle
    <2>2. \A v \in Handlers : req[v].pc = "copy" => req'[v].pc = "copy"
        BY <1>2, <1>3 DEF Idle
    <2>3. \A v \in Handlers : req[v].pc = "create" => req'[v].pc = "create"
        BY <1>2, <1>3 DEF Idle
    <2> QED
        BY <1>4, <2>1, <2>2, <2>3, NewDirType, ChunkAssumption
        DEF ChunksHaveWriters, Exists
<1>11. AckedSettled'
    BY <1>2, <1>3, <1>4, NewDirType DEF AckedSettled, Exists, TypeOK
<1>12. CarefulMerge' /\ CarefulIsWhole'
    BY <1>2, <1>3 DEF CarefulMerge, CarefulIsWhole
<1> QED
    BY <1>6, <1>7, <1>8, <1>9, <1>10, <1>11, <1>12

LEMMA SaveSessionInv ==
    ASSUME IInv, NEW w \in Handlers, SaveSession(w)
    PROVE  IInv'
<1> USE DEF IInv
<1> DEFINE u == req[w].upload
<1>1. /\ req[w].pc = "save" /\ u \in Uploads /\ Exists(u) /\ job # u /\ u \in begun
      /\ \A v \in Handlers \ {w} : req[v] # Idle => req[v].upload # u
    BY ReqType, RequestFields DEF SaveSession, SavingAlone, Idle
<1>2. /\ req' \in [Handlers -> Request] /\ req'[w] = Idle
      /\ \A v \in Handlers \ {w} : req'[v] = req[v]
    BY IdleType, GotoFacts DEF SaveSession, Finish
<1>3. PICK s \in {"saved", "torn"} :
          dir' = [dir EXCEPT ![u] = [@ EXCEPT !.session = s, !.fresh = TRUE]]
    BY <1>1 DEF SaveSession
<1> HIDE DEF u
<1>4. UNCHANGED <<begun, job, acked, listed>>
    BY DEF SaveSession
<1>5. dir[u] \in Dir
    BY <1>1, DirType
<1>6. /\ dir'[u] \in Dir /\ dir'[u].chunks = dir[u].chunks
      /\ \A t \in Uploads \ {u} : dir'[t] = dir[t]
    BY <1>1, <1>3, <1>5 DEF TypeOK, Dir
<1>7. TypeOK'
    BY <1>1, <1>2, <1>3, <1>4, <1>6 DEF TypeOK, Request
<1>8. dir'[u] # NoDir /\ \A t \in Uploads : Exists(t)' <=> Exists(t)
    <2>1. dir'[u] # NoDir
        BY <1>6 DEF Dir, NoDir
    <2>2. ASSUME NEW t \in Uploads
          PROVE  Exists(t)' <=> Exists(t)
        <3>1. CASE t = u
            BY <3>1, <2>1, <1>1 DEF Exists
        <3>2. CASE t # u
            BY <3>2, <1>6 DEF Exists
        <3> QED
            BY <3>1, <3>2
    <2> QED
        BY <2>1, <2>2
<1>9. UnbegunUntouched'
    BY <1>1, <1>2, <1>4, <1>8 DEF UnbegunUntouched
<1>10. SavingAlone'
    <2>1. ASSUME NEW v \in Handlers, req'[v].pc = "save"
          PROVE  /\ v # w /\ req'[v] = req[v]
                 /\ req[v].upload \in Uploads \ {u}
        BY <2>1, <1>1, <1>2, ReqType, RequestFields DEF Idle
    <2> QED
        BY <1>2, <1>4, <1>6, <1>8, <2>1 DEF SavingAlone
<1>11. YoungSessionsKept'
    BY <1>1, <1>4, <1>6, <1>8 DEF YoungSessionsKept, TypeOK
<1>12. \A v \in Handlers, t \in Uploads, i \in Index :
          /\ Writing(v, t, i)' <=> Writing(v, t, i)
          /\ req[v].pc \in {"create", "copy"} => req'[v].pc = req[v].pc
    BY <1>1, <1>2 DEF Idle
<1>13. ChunksHaveWriters'
    BY <1>6, <1>8, <1>12 DEF ChunksHaveWriters
<1>14. AckedSettled'
    BY <1>4, <1>6, <1>8, <1>12 DEF AckedSettled, TypeOK
<1>15. CarefulMerge' /\ CarefulIsWhole'
    BY <1>2, <1>4 DEF CarefulMerge, CarefulIsWhole, Idle
<1> QED
    BY <1>7, <1>9, <1>10, <1>11, <1>13, <1>14, <1>15

LEMMA UploadChunkInv ==
    ASSUME IInv, NEW w \in Handlers, NEW u \in Uploads, NEW i \in Index,
           UploadChunk(w, u, i)
    PROVE  IInv'
<1> USE DEF IInv
<1> DEFINE Unsure(r) == [r EXCEPT !.careful = FALSE, !.resumed = FALSE]
           Merges(v) == req[v].pc = "merge" /\ req[v].upload = u
<1>1. /\ req[w] = Idle /\ Loads(u) /\ UNCHANGED <<dir, begun, job>>
      /\ acked' = [acked EXCEPT ![u] = @ \ {i}]
      /\ listed' = [listed EXCEPT ![u] = @ \ {i}]
    BY DEF UploadChunk
<1>2. u \in begun /\ NotSaving(u)
    BY <1>1, LoadedNotSaving DEF Loads
<1>3. /\ req'[w] = [pc |-> "create", upload |-> u, index |-> i]
      /\ \A v \in Handlers \ {w} :
            /\ Merges(v) => req'[v] = Unsure(req[v])
            /\ ~Merges(v) => req'[v] = req[v]
    BY DEF UploadChunk
<1>4. ASSUME NEW v \in Handlers, Merges(v)
      PROVE  /\ Unsure(req[v]) \in Request /\ Unsure(req[v]) # Idle
             /\ Unsure(req[v]).pc = "merge" /\ Unsure(req[v]).upload = u
             /\ ~Unsure(req[v]).careful
    <2>1. req[v] \in [pc : {"merge"}, upload : Uploads, index : Index, whole : BOOLEAN,
                       careful : BOOLEAN, resumed : BOOLEAN]
        BY <1>4, ReqType DEF Request, Idle, Initiating, Chunking, Completing
    <2>2. Unsure(req[v]) \in [pc : {"merge"}, upload : Uploads, index : Index, whole : BOOLEAN,
                              careful : BOOLEAN, resumed : BOOLEAN]
        BY <2>1
    <2>3. Unsure(req[v]).pc = "merge" /\ Unsure(req[v]).upload = u /\ ~Unsure(req[v]).careful
        BY <2>1, <1>4
    <2> HIDE DEF Unsure
    <2> QED
        BY <2>2, <2>3 DEF Request, Completing, Idle
<1> HIDE DEF Unsure
<1>5. req' \in [Handlers -> Request]
    <2>1. [pc |-> "create", upload |-> u, index |-> i] \in Request
        BY DEF Request, Chunking
    <2>2. \A v \in Handlers : req'[v] \in Request
        BY <2>1, <1>3, <1>4, ReqType
    <2>3. DOMAIN req' = Handlers /\ req' = [v \in Handlers |-> req'[v]]
        BY DEF UploadChunk
    <2> QED
        BY <2>2, <2>3
<1>6. TypeOK'
    BY <1>1, <1>5 DEF TypeOK, Request
<1>7. \A v \in Handlers \ {w} :
         /\ req'[v].pc = req[v].pc
         /\ req[v] # Idle => req'[v] # Idle /\ req'[v].upload = req[v].upload
         /\ req'[v] # Idle => req[v] # Idle
         /\ ~Merges(v) => req'[v] = req[v]
    BY <1>3, <1>4, ReqType, RequestFields DEF Idle
<1>8. UnbegunUntouched'
    BY <1>1, <1>2, <1>3, <1>7 DEF UnbegunUntouched, Exists
<1>9. SavingAlone'
    <2>1. ASSUME NEW v \in Handlers, req'[v].pc = "save"
          PROVE  v # w /\ req'[v] = req[v] /\ req[v].upload # u
        BY <2>1, <1>2, <1>3, <1>7 DEF NotSaving
    <2> QED
        BY <1>1, <1>3, <1>7, <2>1 DEF SavingAlone, Exists
<1>10. YoungSessionsKept'
    BY <1>1 DEF YoungSessionsKept, Exists
<1>11. ASSUME NEW v \in Handlers \ {w}, NEW t \in Uploads, NEW j \in Index
       PROVE  Writing(v, t, j)' <=> Writing(v, t, j)
    BY <1>7
<1>12. ASSUME NEW t \in Uploads, NEW j \in Index
       PROVE  /\ ~Writing(w, t, j)
              /\ Writing(w, t, j)' => t = u /\ j = i
              /\ req'[w].pc = "create"
    BY <1>1, <1>3 DEF Idle
<1>13. ChunksHaveWriters'
    <2> SUFFICES ASSUME NEW t \in Uploads, NEW j \in Index, Exists(t)
                 PROVE  /\ \A v \in Handlers :
                              dir[t].chunks[j] = v => req'[v].pc = "copy" /\ Writing(v, t, j)'
                        /\ dir[t].chunks[j] = "torn" =>
                              \A v \in Handlers : Writing(v, t, j)' => req'[v].pc = "create"
        BY <1>1 DEF ChunksHaveWriters, Exists
    <2> HIDE DEF Writing
    <2> QED
        BY <1>7, <1>11, <1>12 DEF ChunksHaveWriters
<1>14. AckedSettled'
    <2> SUFFICES ASSUME NEW t \in Uploads, NEW j \in acked'[t]
                 PROVE  /\ \A v \in Handlers : ~Writing(v, t, j)'
                        /\ Exists(t) => dir[t].chunks[j] \in {"absent", "whole"}
        BY <1>1 DEF AckedSettled, Exists
    <2>1. j \in acked[t] /\ j \in Index /\ ~(t = u /\ j = i)
        BY <1>1 DEF TypeOK
    <2> HIDE DEF Writing
    <2> QED
        BY <2>1, <1>11, <1>12 DEF AckedSettled
<1>15. CarefulMerge'
    <2> SUFFICES ASSUME NEW v \in Handlers, req'[v].pc = "merge", req'[v].careful
                 PROVE  acked'[req'[v].upload] = Index /\ req'[v].whole
        BY DEF CarefulMerge
    <2>1. v # w /\ ~Merges(v)
        BY <1>3, <1>4
    <2>2. req'[v] = req[v] /\ req[v].upload \in Uploads \ {u}
        BY <2>1, <1>7, ReqType, RequestFields DEF Idle
    <2> QED
        BY <1>1, <2>2 DEF CarefulMerge, TypeOK
<1>16. CarefulIsWhole'
    BY <1>3, <1>7 DEF CarefulIsWhole
<1> QED
    BY <1>6, <1>8, <1>9, <1>10, <1>13, <1>14, <1>15, <1>16

\* What writing chunk i of upload u leaves as it was: the parts of the
\* invariant that are not about chunks.
LEMMA ChunkStep ==
    ASSUME IInv, NEW w \in Handlers, NEW u \in Uploads, NEW r \in Request,
           req[w].pc \in {"create", "copy"}, req[w].upload = u,
           Goto(w, r), r = Idle \/ (r.pc = "copy" /\ r.upload = u),
           UNCHANGED <<begun, job, listed>>, dir' \in DirOf,
           acked' \in [Uploads -> SUBSET Index],
           \A t \in Uploads : acked[t] \subseteq acked'[t],
           \A t \in Uploads \ {u} : dir'[t] = dir[t],
           \/ dir'[u] = dir[u]
           \/ /\ dir'[u] \in Dir
              /\ \/ /\ Exists(u) /\ dir'[u].session = dir[u].session
                    /\ dir'[u].expired = dir[u].expired
                 \/ ~Exists(u) /\ dir'[u].session = "absent"
    PROVE  /\ TypeOK' /\ UnbegunUntouched' /\ SavingAlone' /\ YoungSessionsKept'
           /\ CarefulMerge' /\ CarefulIsWhole'
<1> USE DEF IInv
<1>1. /\ req' \in [Handlers -> Request] /\ req'[w] = r
      /\ \A v \in Handlers \ {w} : req'[v] = req[v]
    BY GotoFacts
<1>2. req[w] # Idle /\ u \in begun /\ NotSaving(u)
    BY LoadedNotSaving DEF Idle, UnbegunUntouched
<1>3. TypeOK'
    BY <1>1 DEF TypeOK, DirOf, Request
<1>4. UnbegunUntouched'
    BY <1>1, <1>2 DEF UnbegunUntouched, Exists
<1>5. SavingAlone'
    <2>1. ASSUME NEW v \in Handlers, req'[v].pc = "save"
          PROVE  v # w /\ req'[v] = req[v] /\ req[v].upload \in Uploads \ {u}
        BY <2>1, <1>1, <1>2, ReqType, RequestFields DEF NotSaving, Idle
    <2> QED
        BY <1>1, <1>2, <2>1 DEF SavingAlone, Exists
<1>6. YoungSessionsKept'
    BY DEF YoungSessionsKept, Exists, TypeOK
<1>7. CarefulMerge'
    <2> SUFFICES ASSUME NEW v \in Handlers, req'[v].pc = "merge", req'[v].careful
                 PROVE  acked'[req'[v].upload] = Index /\ req'[v].whole
        BY DEF CarefulMerge
    <2>1. v # w /\ req'[v] = req[v] /\ req[v].upload \in Uploads
        BY <1>1, ReqType, RequestFields DEF Idle
    <2>2. acked[req[v].upload] = Index /\ req[v].whole
        BY <2>1 DEF CarefulMerge
    <2>3. acked'[req[v].upload] = Index
        <3>1. acked'[req[v].upload] \in SUBSET Index
            BY <2>1
        <3>2. Index \subseteq acked'[req[v].upload]
            BY <2>1, <2>2
        <3> QED
            BY <3>1, <3>2
    <2> QED
        BY <2>1, <2>2, <2>3
<1>8. CarefulIsWhole'
    BY <1>1 DEF CarefulIsWhole, Idle
<1> QED
    BY <1>3, <1>4, <1>5, <1>6, <1>7, <1>8

LEMMA CreateChunkInv ==
    ASSUME IInv, NEW w \in Handlers, CreateChunk(w)
    PROVE  IInv'
<1> USE ChunkAssumption DEF IInv
<1>1. PICK u \in Uploads, i \in Index : req[w] = [pc |-> "create", upload |-> u, index |-> i]
    BY ReqType, RequestFields DEF CreateChunk, Chunking
<1> DEFINE old == IF Exists(u) THEN dir[u] ELSE NewDir
           new == WithChunk(old, i, w)
           r == [pc |-> "copy", upload |-> u, index |-> i]
<1>2. /\ dir' = [dir EXCEPT ![u] = new] /\ Goto(w, r)
      /\ UNCHANGED <<begun, job, acked, listed>>
    BY <1>1 DEF CreateChunk
<1>3. old \in Dir /\ (Exists(u) => old = dir[u]) /\ (~Exists(u) => old = NewDir)
    BY DirType, NewDirType
<1> HIDE DEF old
<1>4. /\ new \in Dir /\ new.session = old.session /\ new.expired = old.expired
      /\ new.chunks[i] = w /\ \A j \in Index \ {i} : new.chunks[j] = old.chunks[j]
    <2>1. w \in Chunk
        BY DEF Chunk
    <2> QED
        BY <1>3, <2>1, WithChunkFacts
<1>5. /\ dir'[u] = new /\ \A t \in Uploads \ {u} : dir'[t] = dir[t]
      /\ dir' \in DirOf
    BY <1>2, <1>4 DEF TypeOK, DirOf
<1> HIDE DEF new
<1>6. r \in Request
    BY DEF Request, Chunking
<1>7. /\ req'[w] = r /\ \A v \in Handlers \ {w} : req'[v] = req[v]
    BY <1>2, <1>6, GotoFacts
<1>8. /\ TypeOK' /\ UnbegunUntouched' /\ SavingAlone' /\ YoungSessionsKept'
      /\ CarefulMerge' /\ CarefulIsWhole'
    <2>1. /\ req[w].pc \in {"create", "copy"} /\ req[w].upload = u
          /\ r.pc = "copy" /\ r.upload = u
        BY <1>1
    <2>2. /\ acked' \in [Uploads -> SUBSET Index]
          /\ \A t \in Uploads : acked[t] \subseteq acked'[t]
        BY <1>2 DEF TypeOK
    <2>3. /\ dir'[u] \in Dir
          /\ \/ /\ Exists(u) /\ dir'[u].session = dir[u].session
                /\ dir'[u].expired = dir[u].expired
             \/ ~Exists(u) /\ dir'[u].session = "absent"
        BY <1>3, <1>4, <1>5, NewDirType
    <2> HIDE DEF r, IInv
    <2> QED
        BY <1>2, <1>5, <1>6, <2>1, <2>2, <2>3, ChunkStep
<1>9. ASSUME NEW v \in Handlers, NEW t \in Uploads, NEW j \in Index
      PROVE  Writing(v, t, j)' <=> Writing(v, t, j)
    BY <1>1, <1>7
<1>10. ChunksHaveWriters'
    <2> SUFFICES ASSUME NEW t \in Uploads, NEW j \in Index, Exists(t)'
                 PROVE  /\ \A v \in Handlers :
                              dir'[t].chunks[j] = v => req'[v].pc = "copy" /\ Writing(v, t, j)'
                        /\ dir'[t].chunks[j] = "torn" =>
                              \A v \in Handlers : Writing(v, t, j)' => req'[v].pc = "create"
        BY DEF ChunksHaveWriters
    <2>1. CASE t = u /\ j = i
        BY <2>1, <1>4, <1>5, <1>7
    <2>2. CASE ~(t = u /\ j = i)
        <3>1. \/ Exists(t) /\ dir'[t].chunks[j] = dir[t].chunks[j]
              \/ dir'[t].chunks[j] = "absent"
            BY <2>2, <1>3, <1>4, <1>5, NewDirType DEF Exists
        <3>2. ~Writing(w, t, j)
            BY <2>2, <1>1
        <3> QED
            BY <3>1, <3>2, <1>7, <1>9 DEF ChunksHaveWriters
    <2> QED
        BY <2>1, <2>2
<1>11. AckedSettled'
    <2> SUFFICES ASSUME NEW t \in Uploads, NEW j \in acked[t]
                 PROVE  /\ \A v \in Handlers : ~Writing(v, t, j)'
                        /\ Exists(t)' => dir'[t].chunks[j] \in {"absent", "whole"}
        BY <1>2 DEF AckedSettled
    <2>1. j \in Index /\ \A v \in Handlers : ~Writing(v, t, j)
        BY DEF AckedSettled, TypeOK
    <2>2. ~(t = u /\ j = i)
        BY <2>1, <1>1
    <2>3. \/ Exists(t) /\ dir'[t].chunks[j] = dir[t].chunks[j]
          \/ ~Exists(t)'
          \/ dir'[t].chunks[j] = "absent"
        BY <2>1, <2>2, <1>3, <1>4, <1>5, NewDirType DEF Exists
    <2> QED
        BY <2>1, <2>3, <1>9 DEF AckedSettled
<1> QED
    BY <1>8, <1>10, <1>11

LEMMA FailCreateInv ==
    ASSUME IInv, NEW w \in Handlers, FailCreate(w)
    PROVE  IInv'
<1> USE ChunkAssumption DEF IInv
<1>1. PICK u \in Uploads, i \in Index : req[w] = [pc |-> "create", upload |-> u, index |-> i]
    BY ReqType, RequestFields DEF FailCreate, Chunking
<1>2. /\ dir' = dir \/ (~Exists(u) /\ dir' = [dir EXCEPT ![u] = NewDir])
      /\ Goto(w, Idle)
      /\ UNCHANGED <<begun, job, acked, listed>>
    BY <1>1 DEF FailCreate, Finish
<1>3. /\ dir'[u] = dir[u] \/ (~Exists(u) /\ dir'[u] = NewDir)
      /\ \A t \in Uploads \ {u} : dir'[t] = dir[t]
      /\ dir' \in DirOf
    BY <1>2, NewDirType DEF TypeOK, DirOf
<1>4. /\ req'[w] = Idle /\ \A v \in Handlers \ {w} : req'[v] = req[v]
    BY <1>2, IdleType, GotoFacts
<1>5. /\ TypeOK' /\ UnbegunUntouched' /\ SavingAlone' /\ YoungSessionsKept'
      /\ CarefulMerge' /\ CarefulIsWhole'
    <2>1. req[w].pc \in {"create", "copy"} /\ req[w].upload = u
        BY <1>1
    <2>2. \/ dir'[u] = dir[u]
          \/ dir'[u] \in Dir /\ ~Exists(u) /\ dir'[u].session = "absent"
        BY <1>3, NewDirType
    <2>3. /\ acked' \in [Uploads -> SUBSET Index]
          /\ \A t \in Uploads : acked[t] \subseteq acked'[t]
        BY <1>2 DEF TypeOK
    <2>4. Goto(w, Idle) /\ UNCHANGED <<begun, job, listed>>
        BY <1>2
    <2>5. dir' \in DirOf /\ \A t \in Uploads \ {u} : dir'[t] = dir[t]
        BY <1>3
    <2> HIDE DEF IInv
    <2> QED
        BY <2>1, <2>2, <2>3, <2>4, <2>5, IdleType, ChunkStep
<1>6. ASSUME NEW v \in Handlers, NEW t \in Uploads, NEW j \in Index
      PROVE  Writing(v, t, j)' <=> v # w /\ Writing(v, t, j)
    BY <1>4 DEF Idle
<1>7. ASSUME NEW t \in Uploads, NEW j \in Index, Exists(t)'
      PROVE  \/ Exists(t) /\ dir'[t].chunks[j] = dir[t].chunks[j]
             \/ dir'[t].chunks[j] = "absent"
    <2>1. CASE t = u
        BY <2>1, <1>7, <1>3, NewDirType DEF Exists
    <2>2. CASE t # u
        BY <2>2, <1>7, <1>3 DEF Exists
    <2> QED
        BY <2>1, <2>2
<1>8. ChunksHaveWriters'
    <2> SUFFICES ASSUME NEW t \in Uploads, NEW j \in Index, Exists(t)'
                 PROVE  /\ \A v \in Handlers :
                              dir'[t].chunks[j] = v => req'[v].pc = "copy" /\ Writing(v, t, j)'
                        /\ dir'[t].chunks[j] = "torn" =>
                              \A v \in Handlers : Writing(v, t, j)' => req'[v].pc = "create"
        BY DEF ChunksHaveWriters
    <2>1. CASE dir'[t].chunks[j] = "absent"
        BY <2>1
    <2>2. CASE Exists(t) /\ dir'[t].chunks[j] = dir[t].chunks[j]
        <3>1. dir[t].chunks[j] # w
            BY <2>2, <1>1 DEF ChunksHaveWriters
        <3> QED
            BY <2>2, <3>1, <1>4, <1>6 DEF ChunksHaveWriters
    <2> QED
        BY <2>1, <2>2, <1>7
<1>9. AckedSettled'
    <2> SUFFICES ASSUME NEW t \in Uploads, NEW j \in acked[t]
                 PROVE  /\ \A v \in Handlers : ~Writing(v, t, j)'
                        /\ Exists(t)' => dir'[t].chunks[j] \in {"absent", "whole"}
        BY <1>2 DEF AckedSettled
    <2>1. j \in Index /\ \A v \in Handlers : ~Writing(v, t, j)
        BY DEF AckedSettled, TypeOK
    <2>2. Exists(t) => dir[t].chunks[j] \in {"absent", "whole"}
        BY DEF AckedSettled
    <2> QED
        BY <2>1, <2>2, <1>6, <1>7
<1> QED
    BY <1>5, <1>8, <1>9

\* The file of w is the whole chunk, or is not the chunk's; the client counts
\* the answer if no other request for the chunk is under way.
LEMMA CopyChunkInv ==
    ASSUME IInv, NEW w \in Handlers, CopyChunk(w)
    PROVE  IInv'
<1> USE ChunkAssumption DEF IInv
<1>1. PICK u \in Uploads, i \in Index : req[w] = [pc |-> "copy", upload |-> u, index |-> i]
    BY ReqType, RequestFields DEF CopyChunk, Chunking
<1> DEFINE new == WithChunk(dir[u], i, "whole")
           mine == Exists(u) /\ dir[u].chunks[i] = w
           alone == \A v \in Handlers \ {w} : ~Writing(v, u, i)
<1>2. /\ dir' = IF mine THEN [dir EXCEPT ![u] = new] ELSE dir
      /\ acked' = IF alone THEN [acked EXCEPT ![u] = @ \cup {i}] ELSE acked
      /\ Goto(w, Idle)
      /\ UNCHANGED <<begun, job, listed>>
    BY <1>1 DEF CopyChunk, Finish
<1>3. ASSUME mine
      PROVE  /\ new \in Dir /\ new.session = dir[u].session /\ new.expired = dir[u].expired
             /\ new.chunks[i] = "whole"
             /\ \A j \in Index \ {i} : new.chunks[j] = dir[u].chunks[j]
    <2>1. "whole" \in Chunk /\ dir[u] \in Dir
        BY <1>3, DirType DEF Chunk
    <2> QED
        BY <2>1, WithChunkFacts
<1>4. /\ ~mine => dir' = dir
      /\ mine => dir'[u] = new
      /\ \A t \in Uploads \ {u} : dir'[t] = dir[t]
      /\ dir' \in DirOf
    BY <1>2, <1>3 DEF TypeOK, DirOf
<1> HIDE DEF new
<1>5. /\ req'[w] = Idle /\ \A v \in Handlers \ {w} : req'[v] = req[v]
    BY <1>2, IdleType, GotoFacts
<1>6. /\ acked' \in [Uploads -> SUBSET Index]
      /\ \A t \in Uploads : acked[t] \subseteq acked'[t]
    BY <1>2 DEF TypeOK
<1>7. /\ TypeOK' /\ UnbegunUntouched' /\ SavingAlone' /\ YoungSessionsKept'
      /\ CarefulMerge' /\ CarefulIsWhole'
    <2>1. req[w].pc \in {"create", "copy"} /\ req[w].upload = u
        BY <1>1
    <2>2. \/ dir'[u] = dir[u]
          \/ /\ dir'[u] \in Dir
             /\ Exists(u) /\ dir'[u].session = dir[u].session
             /\ dir'[u].expired = dir[u].expired
        BY <1>3, <1>4
    <2>3. Goto(w, Idle) /\ UNCHANGED <<begun, job, listed>>
        BY <1>2
    <2>4. dir' \in DirOf /\ \A t \in Uploads \ {u} : dir'[t] = dir[t]
        BY <1>4
    <2> HIDE DEF IInv
    <2> QED
        BY <1>6, <2>1, <2>2, <2>3, <2>4, IdleType, ChunkStep
<1>8. ASSUME NEW v \in Handlers, NEW t \in Uploads, NEW j \in Index
      PROVE  Writing(v, t, j)' <=> v # w /\ Writing(v, t, j)
    BY <1>5 DEF Idle
<1>9. ASSUME NEW t \in Uploads, NEW j \in Index
      PROVE  /\ Exists(t)' <=> Exists(t)
             /\ ~(t = u /\ j = i /\ mine) => dir'[t].chunks[j] = dir[t].chunks[j]
             /\ (t = u /\ j = i /\ mine) => dir'[t].chunks[j] = "whole"
    <2>1. mine => new # NoDir
        BY <1>3 DEF Dir, NoDir
    <2>2. CASE t = u /\ mine
        BY <2>2, <2>1, <1>3, <1>4 DEF Exists
    <2>3. CASE t # u \/ ~mine
        BY <2>3, <1>4 DEF Exists
    <2> QED
        BY <2>2, <2>3
<1>10. ChunksHaveWriters'
    <2> SUFFICES ASSUME NEW t \in Uploads, NEW j \in Index, Exists(t)
                 PROVE  /\ \A v \in Handlers :
                              dir'[t].chunks[j] = v => req'[v].pc = "copy" /\ Writing(v, t, j)'
                        /\ dir'[t].chunks[j] = "torn" =>
                              \A v \in Handlers : Writing(v, t, j)' => req'[v].pc = "create"
        BY <1>9 DEF ChunksHaveWriters
    <2>1. CASE t = u /\ j = i /\ mine
        BY <2>1, <1>9
    <2>2. CASE ~(t = u /\ j = i /\ mine)
        <3>1. dir'[t].chunks[j] = dir[t].chunks[j]
            BY <2>2, <1>9
        <3>2. dir[t].chunks[j] # w
            BY <2>2, <1>1 DEF ChunksHaveWriters
        <3> QED
            BY <3>1, <3>2, <1>5, <1>8 DEF ChunksHaveWriters
    <2> QED
        BY <2>1, <2>2
<1>11. AckedSettled'
    <2> SUFFICES ASSUME NEW t \in Uploads, NEW j \in acked'[t]
                 PROVE  /\ \A v \in Handlers : ~Writing(v, t, j)'
                        /\ Exists(t)' => dir'[t].chunks[j] \in {"absent", "whole"}
        BY DEF AckedSettled
    <2>1. j \in Index
        BY <1>6
    <2>2. CASE j \in acked[t]
        <3>1. /\ \A v \in Handlers : ~Writing(v, t, j)
              /\ Exists(t) => dir[t].chunks[j] \in {"absent", "whole"}
            BY <2>2 DEF AckedSettled
        <3> QED
            BY <2>1, <3>1, <1>8, <1>9
    <2>3. CASE j \notin acked[t]
        <3>1. t = u /\ j = i /\ alone
            BY <2>3, <1>2 DEF TypeOK
        <3>2. \A v \in Handlers : ~Writing(v, t, j)'
            BY <2>1, <3>1, <1>8
        <3>3. ASSUME Exists(u), ~mine
              PROVE  dir[u].chunks[i] \in {"absent", "whole"}
            <4>1. dir[u].chunks[i] \in Chunk
                BY <3>3, DirType DEF Dir
            <4>2. dir[u].chunks[i] # "torn"
                BY <3>3, <1>1 DEF ChunksHaveWriters
            <4>3. dir[u].chunks[i] \notin Handlers
                BY <3>1, <3>3 DEF ChunksHaveWriters
            <4> QED
                BY <4>1, <4>2, <4>3 DEF Chunk
        <3> QED
            BY <2>1, <3>1, <3>2, <3>3, <1>9
    <2> QED
        BY <2>2, <2>3
<1> QED
    BY <1>7, <1>10, <1>11

LEMMA FailChunkInv ==
    ASSUME IInv, NEW w \in Handlers, FailChunk(w)
    PROVE  IInv'
<1> USE ChunkAssumption DEF IInv
<1>1. PICK u \in Uploads, i \in Index : req[w] = [pc |-> "copy", upload |-> u, index |-> i]
    BY ReqType, RequestFields DEF FailChunk, Chunking
<1> DEFINE new == WithChunk(dir[u], i, "absent")
<1>2. /\ dir' = IF Exists(u) THEN [dir EXCEPT ![u] = new] ELSE dir
      /\ Goto(w, Idle)
      /\ UNCHANGED <<begun, job, acked, listed>>
    BY <1>1 DEF FailChunk, Finish
<1>3. ASSUME Exists(u)
      PROVE  /\ new \in Dir /\ new.session = dir[u].session /\ new.expired = dir[u].expired
             /\ new.chunks[i] = "absent"
             /\ \A j \in Index \ {i} : new.chunks[j] = dir[u].chunks[j]
    <2>1. "absent" \in Chunk /\ dir[u] \in Dir
        BY <1>3, DirType DEF Chunk
    <2> QED
        BY <2>1, WithChunkFacts
<1>4. /\ ~Exists(u) => dir' = dir
      /\ Exists(u) => dir'[u] = new
      /\ \A t \in Uploads \ {u} : dir'[t] = dir[t]
      /\ dir' \in DirOf
    BY <1>2, <1>3 DEF TypeOK, DirOf
<1> HIDE DEF new
<1>5. /\ req'[w] = Idle /\ \A v \in Handlers \ {w} : req'[v] = req[v]
    BY <1>2, IdleType, GotoFacts
<1>6. /\ TypeOK' /\ UnbegunUntouched' /\ SavingAlone' /\ YoungSessionsKept'
      /\ CarefulMerge' /\ CarefulIsWhole'
    <2>1. req[w].pc \in {"create", "copy"} /\ req[w].upload = u
        BY <1>1
    <2>2. \/ dir'[u] = dir[u]
          \/ /\ dir'[u] \in Dir
             /\ Exists(u) /\ dir'[u].session = dir[u].session
             /\ dir'[u].expired = dir[u].expired
        BY <1>3, <1>4
    <2>3. /\ acked' \in [Uploads -> SUBSET Index]
          /\ \A t \in Uploads : acked[t] \subseteq acked'[t]
        BY <1>2 DEF TypeOK
    <2>4. Goto(w, Idle) /\ UNCHANGED <<begun, job, listed>>
        BY <1>2
    <2>5. dir' \in DirOf /\ \A t \in Uploads \ {u} : dir'[t] = dir[t]
        BY <1>4
    <2> HIDE DEF IInv
    <2> QED
        BY <2>1, <2>2, <2>3, <2>4, <2>5, IdleType, ChunkStep
<1>7. ASSUME NEW v \in Handlers, NEW t \in Uploads, NEW j \in Index
      PROVE  Writing(v, t, j)' <=> v # w /\ Writing(v, t, j)
    BY <1>5 DEF Idle
<1>8. ASSUME NEW t \in Uploads, NEW j \in Index, Exists(t)'
      PROVE  /\ Exists(t)
             /\ ~(t = u /\ j = i) => dir'[t].chunks[j] = dir[t].chunks[j]
             /\ (t = u /\ j = i) => dir'[t].chunks[j] = "absent"
    <2>1. CASE t = u
        BY <2>1, <1>8, <1>3, <1>4 DEF Exists
    <2>2. CASE t # u
        BY <2>2, <1>8, <1>4 DEF Exists
    <2> QED
        BY <2>1, <2>2
<1>9. ChunksHaveWriters'
    <2> SUFFICES ASSUME NEW t \in Uploads, NEW j \in Index, Exists(t)'
                 PROVE  /\ \A v \in Handlers :
                              dir'[t].chunks[j] = v => req'[v].pc = "copy" /\ Writing(v, t, j)'
                        /\ dir'[t].chunks[j] = "torn" =>
                              \A v \in Handlers : Writing(v, t, j)' => req'[v].pc = "create"
        BY DEF ChunksHaveWriters
    <2>1. CASE t = u /\ j = i
        BY <2>1, <1>8
    <2>2. CASE ~(t = u /\ j = i)
        <3>1. Exists(t) /\ dir'[t].chunks[j] = dir[t].chunks[j]
            BY <2>2, <1>8
        <3>2. dir[t].chunks[j] # w
            BY <2>2, <3>1, <1>1 DEF ChunksHaveWriters
        <3> QED
            BY <3>1, <3>2, <1>5, <1>7 DEF ChunksHaveWriters
    <2> QED
        BY <2>1, <2>2
<1>10. AckedSettled'
    <2> SUFFICES ASSUME NEW t \in Uploads, NEW j \in acked[t]
                 PROVE  /\ \A v \in Handlers : ~Writing(v, t, j)'
                        /\ Exists(t)' => dir'[t].chunks[j] \in {"absent", "whole"}
        BY <1>2 DEF AckedSettled
    <2>1. j \in Index /\ \A v \in Handlers : ~Writing(v, t, j)
        BY DEF AckedSettled, TypeOK
    <2>2. Exists(t) => dir[t].chunks[j] \in {"absent", "whole"}
        BY DEF AckedSettled
    <2> QED
        BY <2>1, <2>2, <1>7, <1>8
<1> QED
    BY <1>6, <1>9, <1>10

LEMMA CrashInv ==
    ASSUME IInv, Crash
    PROVE  IInv'
<1> USE ChunkAssumption DEF IInv
<1> DEFINE Left(d) == [d EXCEPT !.chunks =
                          [i \in Index |-> IF @[i] \in Handlers THEN "torn" ELSE @[i]]]
<1>1. /\ \A u \in Uploads : dir'[u] = IF ~Exists(u) THEN NoDir ELSE Left(dir[u])
      /\ req' = [w \in Handlers |-> Idle] /\ job' = NoUpload
      /\ UNCHANGED <<begun, acked, listed>>
    BY DEF Crash
<1>2. ASSUME NEW u \in Uploads, Exists(u)
      PROVE  /\ dir'[u] \in Dir
             /\ \A i \in Index : dir'[u].chunks[i] =
                    IF dir[u].chunks[i] \in Handlers THEN "torn" ELSE dir[u].chunks[i]
    <2>1. dir[u] \in Dir
        BY <1>2, DirType
    <2>2. dir'[u] = [dir[u] EXCEPT !.chunks =
                        [i \in Index |-> IF dir[u].chunks[i] \in Handlers THEN "torn"
                                         ELSE dir[u].chunks[i]]]
        BY <1>1, <1>2
    <2>3. [i \in Index |-> IF dir[u].chunks[i] \in Handlers THEN "torn"
                           ELSE dir[u].chunks[i]] \in [Index -> Chunk]
        BY <2>1 DEF Dir, Chunk
    <2> QED
        BY <2>1, <2>2, <2>3 DEF Dir
<1>3. /\ \A u \in Uploads : ~Exists(u) => dir'[u] = NoDir
      /\ \A u \in Uploads : Exists(u)' => Exists(u)
    BY <1>1 DEF Exists
<1>4. \A w \in Handlers : req'[w] = Idle
    BY <1>1
<1>5. TypeOK'
    <2>1. dir' = [u \in Uploads |-> dir'[u]]
        BY DEF Crash
    <2> QED
        BY <1>1, <1>2, <1>3, <2>1 DEF TypeOK
<1>6. UnbegunUntouched' /\ SavingAlone' /\ YoungSessionsKept'
    BY <1>1, <1>3, <1>4 DEF UnbegunUntouched, SavingAlone, YoungSessionsKept, Idle
<1>7. ChunksHaveWriters'
    <2> SUFFICES ASSUME NEW u \in Uploads, NEW i \in Index, Exists(u)'
                 PROVE  /\ dir'[u].chunks[i] \notin Handlers
                        /\ \A w \in Handlers : ~Writing(w, u, i)'
        BY DEF ChunksHaveWriters
    <2> QED
        BY <1>2, <1>3, <1>4 DEF Idle
<1>8. AckedSettled'
    <2> SUFFICES ASSUME NEW u \in Uploads, NEW i \in acked[u]
                 PROVE  /\ \A w \in Handlers : ~Writing(w, u, i)'
                        /\ Exists(u)' => dir'[u].chunks[i] \in {"absent", "whole"}
        BY <1>1 DEF AckedSettled
    <2>1. i \in Index /\ (Exists(u) => dir[u].chunks[i] \in {"absent", "whole"})
        BY DEF AckedSettled, TypeOK
    <2> QED
        BY <2>1, <1>2, <1>3, <1>4 DEF Idle
<1>9. CarefulMerge' /\ CarefulIsWhole'
    BY <1>4 DEF CarefulMerge, CarefulIsWhole, Idle
<1> QED
    BY <1>5, <1>6, <1>7, <1>8, <1>9

-----------------------------------------------------------------------------
(* Completion, cancellation, cleaning and time *)

LEMMA CompleteUploadInv ==
    ASSUME IInv, NEW w \in Handlers, NEW u \in Uploads, CompleteUpload(w, u)
    PROVE  IInv'
<1> DEFINE answered == \A v \in Handlers : ~ChunkInFlight(v, u)
           r == [pc |-> "merge", upload |-> u, index |-> 0, whole |-> TRUE,
                 careful |-> answered /\ acked[u] = Index,
                 resumed |-> acked[u] \cup listed[u] = Index]
<1>1. /\ req[w] = Idle /\ Loads(u) /\ Goto(w, r)
      /\ UNCHANGED <<dir, begun, job, acked, listed>>
    BY DEF CompleteUpload
<1>2. u \in begun /\ NotSaving(u)
    BY <1>1, LoadedNotSaving DEF Loads
<1>3. r \in Request
    <2>1. 0 \in Index
        BY ChunkAssumption DEF Index
    <2> QED
        BY <2>1 DEF Request, Completing
<1>4. /\ r.pc = "merge" /\ r.upload = u /\ r.whole
      /\ r.careful => acked[u] = Index
    OBVIOUS
<1>5. dir' \in DirOf /\ \A t \in Uploads : Kept(t)
    BY <1>1 DEF IInv, TypeOK, DirOf, Kept
<1> HIDE DEF r
<1>6. req[w].pc \notin {"save", "create", "copy"}
    BY <1>1 DEF Idle
<1> QED
    BY <1>1, <1>2, <1>3, <1>4, <1>5, <1>6, CompletionStep

LEMMA MergeChunkInv ==
    ASSUME IInv, NEW w \in Handlers, MergeChunk(w)
    PROVE  IInv'
<1> DEFINE r == req[w]
           u == r.upload
           whole == r.whole /\ dir[u].chunks[r.index] = "whole"
<1>1. /\ r.pc = "merge" /\ UNCHANGED <<dir, begun, job, acked, listed>>
      /\ \/ /\ Exists(u) /\ dir[u].chunks[r.index] # "absent"
            /\ Goto(w, Merged(r, whole))
         \/ Goto(w, Idle)
    BY DEF MergeChunk, Finish
<1>2. /\ r \in Request /\ u \in Uploads /\ r.index \in Index /\ r.whole \in BOOLEAN
      /\ r.careful \in BOOLEAN /\ r.resumed \in BOOLEAN
    BY <1>1, ReqType, RequestFields DEF IInv, Idle
<1>3. u \in begun /\ NotSaving(u)
    BY <1>1, <1>2, LoadedNotSaving DEF IInv, UnbegunUntouched, Idle
<1>4. dir' \in DirOf /\ \A t \in Uploads : Kept(t)
    BY <1>1 DEF IInv, TypeOK, DirOf, Kept
<1>5. ASSUME r.careful, Exists(u), dir[u].chunks[r.index] # "absent"
      PROVE  acked[u] = Index /\ whole
    BY <1>1, <1>2, <1>5 DEF IInv, CarefulMerge, AckedSettled
<1>6. /\ Merged(r, whole) \in Request
      /\ Merged(r, whole).pc \in {"merge", "lookup"} /\ Merged(r, whole).upload = u
      /\ Merged(r, whole).whole = whole /\ Merged(r, whole).careful = r.careful
    <2>1. whole \in BOOLEAN /\ r.index + 1 \in Int
        BY <1>2 DEF Index
    <2> HIDE DEF whole
    <2>2. CASE r.index < ChunkCount - 1
        <3> DEFINE n == [r EXCEPT !.index = @ + 1, !.whole = whole]
        <3>1. Merged(r, whole) = n
            BY <2>2 DEF Merged
        <3>2. r.index + 1 \in Index
            BY <1>2, <2>2, ChunkAssumption DEF Index
        <3>3. r \in [pc : {"merge"}, upload : Uploads, index : Index, whole : BOOLEAN,
                     careful : BOOLEAN, resumed : BOOLEAN]
            BY <1>1, <1>2 DEF Request, Idle, Initiating, Chunking, Completing
        <3>4. n \in [pc : {"merge"}, upload : Uploads, index : Index, whole : BOOLEAN,
                     careful : BOOLEAN, resumed : BOOLEAN]
            BY <2>1, <3>2, <3>3
        <3>5. n.pc = "merge" /\ n.upload = u /\ n.whole = whole /\ n.careful = r.careful
            BY <3>3
        <3> QED
            BY <3>1, <3>4, <3>5 DEF Request, Completing
    <2>3. CASE ~(r.index < ChunkCount - 1)
        <3> DEFINE n == [pc |-> "lookup", upload |-> u, whole |-> whole,
                         careful |-> r.careful, resumed |-> r.resumed]
        <3>1. Merged(r, whole) = n
            BY <2>3 DEF Merged
        <3>2. n \in Request
            BY <1>2, <2>1 DEF Request, Completing
        <3> QED
            BY <3>1, <3>2
    <2> QED
        BY <2>2, <2>3
<1>7. CASE /\ Exists(u) /\ dir[u].chunks[r.index] # "absent"
           /\ Goto(w, Merged(r, whole))
    <2> DEFINE n == Merged(r, whole)
    <2>1. n.careful => acked[n.upload] = Index /\ n.whole
        BY <1>5, <1>6, <1>7
    <2>2. /\ n \in Request /\ n.pc \in {"merge", "lookup"}
          /\ n.upload \in begun /\ NotSaving(n.upload)
        BY <1>3, <1>6
    <2>3. Goto(w, n) /\ req[w].pc \notin {"save", "create", "copy"}
        BY <1>1, <1>7
    <2> HIDE DEF n
    <2> QED
        BY <1>1, <1>4, <2>1, <2>2, <2>3, CompletionStep
<1>8. CASE Goto(w, Idle)
    <2>1. req[w].pc \notin {"save", "create", "copy"} /\ Idle.pc = "idle"
        BY <1>1 DEF Idle
    <2> QED
        BY <1>1, <1>4, <1>8, <2>1, IdleType, CompletionStep
<1> QED
    BY <1>1, <1>7, <1>8

\* After the merge only the place of a request changes, until it ends.
LEMMA AssembledStep ==
    ASSUME IInv, NEW w \in Handlers, Assembled(w),
           UNCHANGED <<begun, job, acked, listed>>,
           dir' = dir \/ dir' = Removed(req[w].upload),
           \/ Goto(w, Idle)
           \/ \E p \in {"link", "store", "cleanup"} : Goto(w, [req[w] EXCEPT !.pc = p])
    PROVE  IInv'
<1> DEFINE r == req[w]
           u == r.upload
           Places == {"lookup", "link", "store", "cleanup"}
<1>1. /\ r \in [pc : Places, upload : Uploads, whole : BOOLEAN,
                careful : BOOLEAN, resumed : BOOLEAN]
      /\ r \in Request
    BY ReqType DEF IInv, Request, Idle, Initiating, Chunking, Completing
<1>2. /\ u \in begun /\ NotSaving(u)
      /\ r.careful => r.whole
    BY <1>1, LoadedNotSaving DEF IInv, UnbegunUntouched, CarefulIsWhole, Idle
<1>3. dir' \in DirOf /\ \A t \in Uploads : Kept(t) \/ Gone(t)
    BY <1>1, <1>2 DEF IInv, TypeOK, DirOf, Kept, Gone, Removed
<1>4. req[w].pc \notin {"save", "create", "copy"}
    OBVIOUS
<1>5. CASE Goto(w, Idle)
    <2>1. Idle.pc = "idle"
        BY DEF Idle
    <2> QED
        BY <1>3, <1>4, <1>5, <2>1, IdleType, CompletionStep
<1>6. ASSUME NEW p \in {"link", "store", "cleanup"}, Goto(w, [req[w] EXCEPT !.pc = p])
      PROVE  IInv'
    <2> DEFINE n == [r EXCEPT !.pc = p]
    <2>1. n \in [pc : Places, upload : Uploads, whole : BOOLEAN,
                 careful : BOOLEAN, resumed : BOOLEAN]
        BY <1>1
    <2>2. /\ n.pc = p /\ n.upload = u /\ n.whole = r.whole /\ n.careful = r.careful
        BY <1>1
    <2>3. n \in Request
        BY <2>1 DEF Request, Completing
    <2>4. Goto(w, n)
        BY <1>6
    <2> HIDE DEF n
    <2> QED
        BY <1>2, <1>3, <1>4, <2>2, <2>3, <2>4, CompletionStep
<1> QED
    BY <1>5, <1>6

LEMMA LookupHashInv ==
    ASSUME IInv, NEW w \in Handlers, LookupHash(w)
    PROVE  IInv'
BY AssembledStep DEF LookupHash, Finish

LEMMA CommitFileInv ==
    ASSUME IInv, NEW w \in Handlers, CommitFile(w)
    PROVE  IInv'
BY AssembledStep DEF CommitFile, Finish

LEMMA CleanupSessionInv ==
    ASSUME IInv, NEW w \in Handlers, CleanupSession(w)
    PROVE  IInv'
BY AssembledStep DEF CleanupSession, Finish

LEMMA UploadStatusInv ==
    ASSUME IInv, NEW u \in Uploads, UploadStatus(u)
    PROVE  IInv'
<1>1. /\ UNCHANGED <<begun, req, acked>> /\ dir' = dir /\ job' = job
      /\ listed' = [listed EXCEPT ![u] = {i \in Index : dir[u].chunks[i] # "absent"}]
    BY DEF UploadStatus
<1>2. dir' \in DirOf /\ listed' \in [Uploads -> SUBSET Index] /\ job' \in Uploads \cup {NoUpload}
    BY <1>1 DEF IInv, TypeOK, DirOf
<1> QED
    BY <1>1, <1>2, DirStep DEF Kept

LEMMA CancelUploadInv ==
    ASSUME IInv, NEW u \in Uploads, CancelUpload(u)
    PROVE  IInv'
<1>1. /\ UNCHANGED <<begun, req, acked>> /\ dir' = Removed(u) /\ job' = job /\ listed' = listed
      /\ NotSaving(u)
    BY LoadedNotSaving DEF CancelUpload
<1>2. /\ dir' \in DirOf /\ listed' \in [Uploads -> SUBSET Index]
      /\ job' \in Uploads \cup {NoUpload}
    BY <1>1 DEF IInv, TypeOK, DirOf, Removed
<1>3. \A t \in Uploads : Kept(t) \/ Gone(t)
    BY <1>1 DEF IInv, TypeOK, Removed, Kept, Gone
<1> QED
    BY <1>1, <1>2, <1>3, DirStep

LEMMA InspectInv ==
    ASSUME IInv, NEW u \in Uploads, Inspect(u)
    PROVE  IInv'
<1>1. /\ UNCHANGED <<begun, req, acked>> /\ dir' = dir /\ job' = u /\ listed' = listed
      /\ Exists(u) /\ ~dir[u].fresh
      /\ dir[u].session = "absent" \/ dir[u].expired
    BY DEF Inspect
<1>2. dir' \in DirOf /\ listed' \in [Uploads -> SUBSET Index] /\ job' \in Uploads \cup {NoUpload}
    BY <1>1 DEF IInv, TypeOK, DirOf
<1> QED
    BY <1>1, <1>2, DirStep DEF Kept

LEMMA RemoveStaleInv ==
    ASSUME IInv, RemoveStale
    PROVE  IInv'
<1>1. /\ UNCHANGED <<begun, req, acked>> /\ dir' = Removed(job) /\ job' = NoUpload
      /\ listed' = listed /\ job \in Uploads
    BY DEF RemoveStale, IInv, TypeOK
<1>2. NotSaving(job)
    BY DEF IInv, SavingAlone, NotSaving
<1>3. dir' \in DirOf /\ listed' \in [Uploads -> SUBSET Index] /\ job' \in Uploads \cup {NoUpload}
    BY <1>1 DEF IInv, TypeOK, DirOf, Removed
<1>4. \A t \in Uploads : Kept(t) \/ Gone(t)
    BY <1>1, <1>2 DEF IInv, TypeOK, Removed, Kept, Gone
<1> QED
    BY <1>1, <1>3, <1>4, DirStep

LEMMA AgeDirInv ==
    ASSUME IInv, NEW u \in Uploads, AgeDir(u)
    PROVE  IInv'
<1> DEFINE d == [dir[u] EXCEPT !.fresh = FALSE]
<1>1. /\ UNCHANGED <<begun, req, acked>> /\ job' = job /\ listed' = listed
      /\ Exists(u) /\ NotSaving(u)
      /\ dir' = [dir EXCEPT ![u] = d]
    BY DEF AgeDir, Saving, NotSaving
<1>2. d \in Dir /\ d.chunks = dir[u].chunks /\ d.session = dir[u].session
      /\ d.expired = dir[u].expired
    BY <1>1, DirType DEF IInv, Dir
<1> HIDE DEF d
<1>3. /\ dir' \in DirOf /\ listed' \in [Uploads -> SUBSET Index]
      /\ job' \in Uploads \cup {NoUpload}
    BY <1>1, <1>2 DEF IInv, TypeOK, DirOf
<1>4. dir'[u] = d /\ d # NoDir /\ \A t \in Uploads \ {u} : dir'[t] = dir[t]
    BY <1>1, <1>2 DEF IInv, TypeOK, Dir, NoDir
<1>5. \A t \in Uploads : Kept(t) \/ Aged(t)
    BY <1>1, <1>2, <1>4 DEF Kept, Aged, Exists
<1> QED
    BY <1>1, <1>3, <1>5, DirStep

LEMMA ExpireSessionInv ==
    ASSUME IInv, NEW u \in Uploads, ExpireSession(u)
    PROVE  IInv'
<1> DEFINE d == [dir[u] EXCEPT !.expired = TRUE]
<1>1. /\ UNCHANGED <<begun, req, acked>> /\ job' = job /\ listed' = listed
      /\ Exists(u) /\ dir' = [dir EXCEPT ![u] = d]
    BY DEF ExpireSession
<1>2. d \in Dir /\ d.chunks = dir[u].chunks /\ d.session = dir[u].session
      /\ d.expired /\ d.fresh = dir[u].fresh
    BY <1>1, DirType DEF IInv, Dir
<1> HIDE DEF d
<1>3. /\ dir' \in DirOf /\ listed' \in [Uploads -> SUBSET Index]
      /\ job' \in Uploads \cup {NoUpload}
    BY <1>1, <1>2 DEF IInv, TypeOK, DirOf
<1>4. dir'[u] = d /\ d # NoDir /\ \A t \in Uploads \ {u} : dir'[t] = dir[t]
    BY <1>1, <1>2 DEF IInv, TypeOK, Dir, NoDir
<1>5. \A t \in Uploads : Kept(t) \/ Aged(t)
    BY <1>1, <1>2, <1>4 DEF Kept, Aged, Exists
<1> QED
    BY <1>1, <1>3, <1>5, DirStep

-----------------------------------------------------------------------------
(* Theorems *)

LEMMA InitInv == Init => IInv
BY ChunkAssumption
DEF Init, IInv, TypeOK, UnbegunUntouched, SavingAlone, YoungSessionsKept,
    ChunksHaveWriters, AckedSettled, CarefulMerge, CarefulIsWhole, Exists, NoDir, Idle

LEMMA NextInv ==
    ASSUME IInv, Next
    PROVE  IInv'
<1>1. ASSUME NEW w \in Handlers, NEW u \in Uploads, InitUpload(w, u)
      PROVE  IInv'
    BY <1>1, InitUploadInv
<1>2. ASSUME NEW w \in Handlers, NEW u \in Uploads, CompleteUpload(w, u)
      PROVE  IInv'
    BY <1>2, CompleteUploadInv
<1>3. ASSUME NEW w \in Handlers, NEW u \in Uploads, NEW i \in Index, UploadChunk(w, u, i)
      PROVE  IInv'
    BY <1>3, UploadChunkInv
<1>4. ASSUME NEW w \in Handlers,
             \/ SaveSession(w) \/ CreateChunk(w) \/ FailCreate(w)
             \/ CopyChunk(w) \/ FailChunk(w)
      PROVE  IInv'
    BY <1>4, SaveSessionInv, CreateChunkInv, FailCreateInv, CopyChunkInv, FailChunkInv
<1>5. ASSUME NEW w \in Handlers,
             MergeChunk(w) \/ LookupHash(w) \/ CommitFile(w) \/ CleanupSession(w)
      PROVE  IInv'
    BY <1>5, MergeChunkInv, LookupHashInv, CommitFileInv, CleanupSessionInv
<1>6. ASSUME NEW u \in Uploads, UploadStatus(u) \/ CancelUpload(u)
      PROVE  IInv'
    BY <1>6, UploadStatusInv, CancelUploadInv
<1>7. ASSUME NEW u \in Uploads, Inspect(u) \/ AgeDir(u) \/ ExpireSession(u)
      PROVE  IInv'
    BY <1>7, InspectInv, AgeDirInv, ExpireSessionInv
<1>8. RemoveStale => IInv'
    BY RemoveStaleInv
<1>9. Crash => IInv'
    BY CrashInv
<1> QED
    BY <1>1, <1>2, <1>3, <1>4, <1>5, <1>6, <1>7, <1>8, <1>9 DEF Next

\* Whatever requests, cleaning, time and crashes do to the directories of
\* uploads, IInv holds.
THEOREM Inductive == Spec => []IInv
<1>1. IInv /\ UNCHANGED vars => IInv'
    BY DEF vars, IInv, TypeOK, UnbegunUntouched, SavingAlone, YoungSessionsKept,
           ChunksHaveWriters, AckedSettled, CarefulMerge, CarefulIsWhole, Exists
<1> QED
    BY InitInv, NextInv, <1>1, PTL DEF Spec

\* CompleteUpload stores the client's bytes whenever the client had 200 for each
\* chunk, an answer to every request, and sends no chunk while it waits.
THEOREM CarefulUploadsAreWhole == Spec => []CarefulIsWhole
<1>1. IInv => CarefulIsWhole
    BY DEF IInv
<1> QED
    BY <1>1, Inductive, PTL

\* CleanStaleChunks never decides to remove an upload whose session is younger
\* than chunk_clean_timeout, nor removes it between its decision and its act.
THEOREM CleaningSparesTheYoung == Spec => []YoungSessionsKept
<1>1. IInv => YoungSessionsKept
    BY DEF IInv
<1> QED
    BY <1>1, Inductive, PTL

-----------------------------------------------------------------------------
(* The refinement of UploadPromise *)

\* What request r has promised.
PledgeOf(r) ==
    IF r.pc = "merge"
    THEN [upload |-> r.upload, sound |-> r.careful, file |-> "partial"]
    ELSE IF r.pc \in {"lookup", "link", "store", "cleanup"}
    THEN [upload |-> r.upload, sound |-> r.careful,
          file |-> IF r.whole THEN "whole" ELSE "torn"]
    ELSE Idle

LEMMA PledgeFields ==
    ASSUME NEW r \in Request
    PROVE  /\ r.pc \notin {"merge", "lookup", "link", "store", "cleanup"} => PledgeOf(r) = Idle
           /\ r.pc \in {"merge", "lookup", "link", "store", "cleanup"} =>
                /\ PledgeOf(r) # Idle
                /\ PledgeOf(r).upload = r.upload /\ PledgeOf(r).sound = r.careful
                /\ PledgeOf(r).file = "partial" <=> r.pc = "merge"
BY DEF PledgeOf, Idle

PledgeRecord == [upload : Uploads, sound : BOOLEAN, file : {"partial", "whole", "torn"}]

LEMMA SamePledgeRecord ==
    ASSUME NEW p \in PledgeRecord, NEW q \in PledgeRecord,
           p.upload = q.upload, p.sound = q.sound, p.file = q.file
    PROVE  p = q
BY DEF PledgeRecord

LEMMA PledgeUpdates ==
    ASSUME NEW p \in PledgeRecord, NEW b \in BOOLEAN, NEW f \in {"partial", "whole", "torn"}
    PROVE  /\ [p EXCEPT !.sound = b] = [upload |-> p.upload, sound |-> b, file |-> p.file]
           /\ [p EXCEPT !.file = f] = [upload |-> p.upload, sound |-> p.sound, file |-> f]
<1> DEFINE s == [p EXCEPT !.sound = b]
           t == [p EXCEPT !.file = f]
<1>1. /\ s \in PledgeRecord /\ s.upload = p.upload /\ s.sound = b /\ s.file = p.file
      /\ t \in PledgeRecord /\ t.upload = p.upload /\ t.sound = p.sound /\ t.file = f
    BY DEF PledgeRecord
<1>2. /\ [upload |-> p.upload, sound |-> b, file |-> p.file] \in PledgeRecord
      /\ [upload |-> p.upload, sound |-> p.sound, file |-> f] \in PledgeRecord
    BY DEF PledgeRecord
<1> HIDE DEF s, t
<1>3. s = [upload |-> p.upload, sound |-> b, file |-> p.file]
    BY <1>1, <1>2, SamePledgeRecord
<1>4. t = [upload |-> p.upload, sound |-> p.sound, file |-> f]
    BY <1>1, <1>2, SamePledgeRecord
<1> QED
    BY <1>3, <1>4 DEF s, t

LEMMA PledgeTurn ==
    ASSUME TypeOK, NEW w \in Handlers, NEW r \in Request, Goto(w, r)
    PROVE  /\ pledge[w] = PledgeOf(req[w])
           /\ pledge' = [pledge EXCEPT ![w] = PledgeOf(r)]
<1>1. \A v \in Handlers : pledge[v] = PledgeOf(req[v]) /\ pledge'[v] = PledgeOf(req'[v])
    BY DEF pledge, PledgeOf
<1>2. pledge = [v \in Handlers |-> pledge[v]] /\ pledge' = [v \in Handlers |-> pledge'[v]]
    BY DEF pledge
<1>3. req'[w] = r /\ \A v \in Handlers \ {w} : req'[v] = req[v]
    BY GotoFacts
<1> HIDE DEF PledgeOf
<1>4. \A v \in Handlers : pledge'[v] = IF v = w THEN PledgeOf(r) ELSE pledge[v]
    BY <1>1, <1>3
<1> QED
    BY <1>1, <1>2, <1>4

\* A request that promises neither before nor after.
LEMMA SamePledge ==
    ASSUME TypeOK, NEW w \in Handlers, NEW r \in Request, Goto(w, r),
           PledgeOf(r) = PledgeOf(req[w])
    PROVE  pledge' = pledge
<1>1. pledge[w] = PledgeOf(req[w]) /\ pledge' = [pledge EXCEPT ![w] = PledgeOf(r)]
    BY PledgeTurn
<1>2. pledge = [v \in Handlers |-> pledge[v]]
    BY DEF pledge
<1> QED
    BY <1>1, <1>2

LEMMA SavingTurn ==
    ASSUME TypeOK, NEW w \in Handlers, NEW r \in Request, Goto(w, r),
           req[w].pc # "save", r.pc # "save"
    PROVE  \A u \in Uploads : Saving(u)' <=> Saving(u)
BY GotoFacts DEF Saving

LEMMA SameLife ==
    ASSUME begun' = begun,
           \A u \in Uploads : (Saving(u)' <=> Saving(u)) /\ (Loads(u)' <=> Loads(u))
    PROVE  life' = life
BY DEF life

\* Removing a directory closes its upload for good.
LEMMA CloseLife ==
    ASSUME IInv, begun' = begun, NEW u \in Uploads, u \in begun, NotSaving(u),
           dir' = Removed(u), \A t \in Uploads : Saving(t)' <=> Saving(t)
    PROVE  life[u] # "unknown" /\ life' = [life EXCEPT ![u] = "closed"]
<1>1. dir'[u] = NoDir /\ \A t \in Uploads \ {u} : dir'[t] = dir[t]
    BY DEF IInv, TypeOK, Removed
<1>2. ~Loads(u)' /\ \A t \in Uploads \ {u} : Loads(t)' <=> Loads(t)
    BY <1>1 DEF Loads, Exists
<1>3. ~Saving(u)
    BY DEF Saving, NotSaving
<1>4. life'[u] = "closed" /\ life[u] # "unknown" /\ \A t \in Uploads \ {u} : life'[t] = life[t]
    BY <1>2, <1>3 DEF life
<1>5. life = [t \in Uploads |-> life[t]] /\ life' = [t \in Uploads |-> life'[t]]
    BY DEF life
<1> QED
    BY <1>4, <1>5

LEMMA BeginStep ==
    ASSUME IInv, NEW w \in Handlers, NEW u \in Uploads, InitUpload(w, u)
    PROVE  Promise!Begin(u)
<1> DEFINE r == [pc |-> "save", upload |-> u]
<1> TypeOK
    BY DEF IInv
<1>1. /\ req[w] = Idle /\ u \notin begun /\ begun' = begun \cup {u} /\ Goto(w, r)
      /\ dir' = [dir EXCEPT ![u] = NewDir] /\ acked' = acked
    BY DEF InitUpload
<1>2. r \in Request /\ r.pc = "save" /\ r.upload = u
    BY DEF Request, Initiating
<1> HIDE DEF r
<1>3. req'[w] = r /\ \A v \in Handlers \ {w} : req'[v] = req[v]
    BY <1>1, <1>2, GotoFacts
<1>4. Saving(u)' /\ \A t \in Uploads \ {u} : Saving(t)' <=> Saving(t)
    BY <1>1, <1>2, <1>3 DEF Saving, Idle
<1>5. \A t \in Uploads \ {u} : Loads(t)' <=> Loads(t)
    BY <1>1 DEF Loads, Exists, TypeOK
<1>6. /\ life[u] = "unknown" /\ life'[u] = "opening"
      /\ \A t \in Uploads \ {u} : life'[t] = life[t]
    BY <1>1, <1>4, <1>5 DEF life
<1>7. life = [t \in Uploads |-> life[t]] /\ life' = [t \in Uploads |-> life'[t]]
    BY DEF life
<1>8. life' = [life EXCEPT ![u] = "opening"]
    BY <1>6, <1>7
<1>9. PledgeOf(r) = Idle /\ PledgeOf(req[w]) = Idle
    BY <1>1, <1>2 DEF PledgeOf, Idle
<1>10. pledge' = pledge
    BY <1>1, <1>2, <1>9, SamePledge
<1> QED
    BY <1>1, <1>6, <1>8, <1>10 DEF Promise!Begin

LEMMA OpenStep ==
    ASSUME IInv, NEW w \in Handlers, SaveSession(w)
    PROVE  \E u \in Uploads : Promise!Open(u) \/ Promise!Close(u)
<1> TypeOK
    BY DEF IInv
<1>0. PICK u \in Uploads : u = req[w].upload
    BY ReqType, RequestFields DEF SaveSession, Idle
<1>1. /\ req[w].pc = "save" /\ Exists(u) /\ u \in begun
      /\ \A v \in Handlers \ {w} : req[v] # Idle => req[v].upload # u
    BY <1>0 DEF SaveSession, IInv, SavingAlone
<1>2. PICK s \in {"saved", "torn"} : dir' = [dir EXCEPT ![u] = [@ EXCEPT !.session = s, !.fresh = TRUE]]
    BY <1>0, <1>1 DEF SaveSession
<1>3. begun' = begun /\ acked' = acked /\ Goto(w, Idle)
    BY DEF SaveSession, Finish
<1>4. req'[w] = Idle /\ \A v \in Handlers \ {w} : req'[v] = req[v]
    BY <1>3, IdleType, GotoFacts
<1>5. /\ Saving(u) /\ ~Saving(u)'
  <2>1. Saving(u)
      BY <1>0, <1>1 DEF Saving
  <2>2. ~Saving(u)'
      BY <1>1, <1>4 DEF Saving, Idle
  <2> QED
      BY <2>1, <2>2
<1>6. \A t \in Uploads \ {u} : Saving(t)' <=> Saving(t)
    BY <1>0, <1>1, <1>4 DEF Saving, Idle
<1>7. /\ Loads(u)' <=> s = "saved"
      /\ \A t \in Uploads \ {u} : Loads(t)' <=> Loads(t)
  <2>1. dir[u] \in Dir /\ dir \in DirOf
      BY <1>1, DirType DEF TypeOK, DirOf
  <2>2. dir'[u] = [dir[u] EXCEPT !.session = s, !.fresh = TRUE]
        /\ \A t \in Uploads \ {u} : dir'[t] = dir[t]
      BY <1>1, <1>2, <2>1 DEF DirOf
  <2>3. dir'[u].session = s /\ dir'[u].st = "dir"
      BY <2>1, <2>2 DEF Dir
  <2>4. dir'[u] # NoDir
      BY <2>3 DEF NoDir
  <2>5. \A t \in Uploads \ {u} : Loads(t)' <=> Loads(t)
      BY <2>2 DEF Loads, Exists
  <2> QED
      BY <2>3, <2>4, <2>5 DEF Loads, Exists
<1>8. /\ life[u] = "opening" /\ life'[u] = IF s = "saved" THEN "open" ELSE "closed"
      /\ \A t \in Uploads \ {u} : life'[t] = life[t]
    BY <1>1, <1>3, <1>5, <1>6, <1>7 DEF life
<1>9. life = [t \in Uploads |-> life[t]] /\ life' = [t \in Uploads |-> life'[t]]
    BY DEF life
<1>10. life' = [life EXCEPT ![u] = IF s = "saved" THEN "open" ELSE "closed"]
    BY <1>1, <1>8, <1>9
<1>11. PledgeOf(Idle) = PledgeOf(req[w])
    BY <1>1 DEF PledgeOf, Idle
<1>12. pledge' = pledge
    BY <1>3, <1>11, IdleType, SamePledge
<1> QED
    BY <1>1, <1>3, <1>8, <1>10, <1>12 DEF Promise!Open, Promise!Close

LEMMA SendStep ==
    ASSUME IInv, NEW w \in Handlers, NEW u \in Uploads, NEW i \in Index, UploadChunk(w, u, i)
    PROVE  Promise!Send(u, i)
<1> DEFINE Merges(v) == req[v].pc = "merge" /\ req[v].upload = u
           r == [pc |-> "create", upload |-> u, index |-> i]
<1> TypeOK
    BY DEF IInv
<1>1. /\ req[w] = Idle /\ Loads(u) /\ UNCHANGED <<dir, begun>>
      /\ acked' = [acked EXCEPT ![u] = @ \ {i}]
      /\ \A v \in Handlers : req'[v] = IF v = w THEN r ELSE IF Merges(v)
                               THEN [req[v] EXCEPT !.careful = FALSE, !.resumed = FALSE] ELSE req[v]
    BY DEF UploadChunk
<1>2. ~Saving(u) /\ u \in begun
    BY <1>1, LoadedNotSaving DEF Loads, NotSaving, Saving
<1>3. ASSUME NEW v \in Handlers, v # w, Merges(v)
      PROVE  /\ req'[v].pc = "merge" /\ req'[v].upload = u /\ req'[v].careful = FALSE
             /\ PledgeOf(req'[v]) = [PledgeOf(req[v]) EXCEPT !.sound = FALSE]
             /\ PledgeOf(req[v]) # Idle /\ PledgeOf(req[v]).upload = u
             /\ PledgeOf(req[v]).file = "partial"
  <2>1. req[v] \in [pc : {"merge"}, upload : Uploads, index : Index, whole : BOOLEAN,
                    careful : BOOLEAN, resumed : BOOLEAN]
      BY <1>3, ReqType DEF Request, Idle, Initiating, Chunking, Completing
  <2>2. req'[v] = [req[v] EXCEPT !.careful = FALSE, !.resumed = FALSE]
      BY <1>1, <1>3
  <2>3. req'[v].pc = "merge" /\ req'[v].upload = u /\ req'[v].careful = FALSE
      BY <1>3, <2>1, <2>2
  <2>4. PledgeOf(req[v]) = [upload |-> u, sound |-> req[v].careful, file |-> "partial"]
      BY <1>3 DEF PledgeOf
  <2>5. PledgeOf(req'[v]) = [upload |-> u, sound |-> FALSE, file |-> "partial"]
      BY <2>3 DEF PledgeOf
  <2>6. PledgeOf(req[v]) # Idle
      BY <1>3, ReqType, PledgeFields
  <2>7. PledgeOf(req[v]) \in PledgeRecord
      BY <2>1, <2>4 DEF PledgeRecord
  <2>8. PledgeOf(req[v]).upload = u /\ PledgeOf(req[v]).file = "partial"
      BY <2>4
  <2>9. [PledgeOf(req[v]) EXCEPT !.sound = FALSE] = PledgeOf(req'[v])
    <3> DEFINE p == PledgeOf(req[v])
    <3> HIDE DEF p
    <3>1. p \in PledgeRecord /\ p.upload = u /\ p.file = "partial"
        BY <2>7, <2>8 DEF p
    <3>2. [p EXCEPT !.sound = FALSE] = [upload |-> p.upload, sound |-> FALSE, file |-> p.file]
        BY <3>1, PledgeUpdates
    <3>3. [p EXCEPT !.sound = FALSE] = PledgeOf(req'[v])
        BY <3>1, <3>2, <2>5
    <3> QED
        BY <3>3 DEF p
  <2> QED
      BY <2>3, <2>6, <2>8, <2>9
<1>4. ASSUME NEW v \in Handlers, v = w \/ ~Merges(v)
      PROVE  /\ PledgeOf(req'[v]) = PledgeOf(req[v])
             /\ ~(/\ PledgeOf(req[v]) # Idle /\ PledgeOf(req[v]).upload = u
                  /\ PledgeOf(req[v]).file = "partial")
  <2>1. CASE v = w
    <3>1. PledgeOf(r) = Idle /\ PledgeOf(Idle) = Idle
        BY DEF PledgeOf, Idle
    <3> QED
        BY <1>1, <2>1, <3>1
  <2>2. CASE v # w /\ ~Merges(v)
    <3>1. req'[v] = req[v] /\ (req[v].pc # "merge" \/ req[v].upload # u)
        BY <1>1, <2>2
    <3>2. req[v] \in Request
        BY ReqType
    <3> HIDE DEF Merges, r
    <3> QED
        BY <3>1, <3>2, PledgeFields
  <2> QED
      BY <1>4, <2>1, <2>2
<1>5. pledge' = [v \in Handlers |->
                    IF pledge[v] # Idle /\ pledge[v].upload = u /\ pledge[v].file = "partial"
                    THEN [pledge[v] EXCEPT !.sound = FALSE] ELSE pledge[v]]
  <2>1. \A v \in Handlers : pledge[v] = PledgeOf(req[v]) /\ pledge'[v] = PledgeOf(req'[v])
      BY DEF pledge, PledgeOf
  <2>2. pledge' = [v \in Handlers |-> pledge'[v]]
      BY DEF pledge
  <2> HIDE DEF Merges
  <2>3. \A v \in Handlers : pledge'[v] =
            IF pledge[v] # Idle /\ pledge[v].upload = u /\ pledge[v].file = "partial"
            THEN [pledge[v] EXCEPT !.sound = FALSE] ELSE pledge[v]
    <3>1. SUFFICES ASSUME NEW v \in Handlers
                   PROVE  pledge'[v] =
                            IF pledge[v] # Idle /\ pledge[v].upload = u /\ pledge[v].file = "partial"
                            THEN [pledge[v] EXCEPT !.sound = FALSE] ELSE pledge[v]
        OBVIOUS
    <3>2. pledge[v] = PledgeOf(req[v]) /\ pledge'[v] = PledgeOf(req'[v])
        BY <2>1
    <3> HIDE DEF PledgeOf
    <3>3. CASE v # w /\ Merges(v)
        BY <1>3, <3>2, <3>3
    <3>4. CASE v = w \/ ~Merges(v)
        BY <1>4, <3>2, <3>4
    <3> QED
        BY <3>3, <3>4
  <2> QED
      BY <2>2, <2>3
<1>6. \A t \in Uploads : Saving(t)' <=> Saving(t)
  <2>1. req[w].pc # "save" /\ req'[w].pc # "save"
    <3>1. Idle.pc = "idle" /\ r.pc = "create"
        BY DEF Idle
    <3> HIDE DEF r
    <3> QED
        BY <1>1, <3>1
  <2>2. \A v \in Handlers : v # w /\ Merges(v) => req[v].pc # "save" /\ req'[v].pc # "save"
      BY <1>3
  <2>3. \A v \in Handlers : v # w /\ ~Merges(v) => req'[v] = req[v]
      BY <1>1
  <2> HIDE DEF Merges, r
  <2> QED
      BY <2>1, <2>2, <2>3 DEF Saving
<1>7. life' = life
    BY <1>1, <1>6, SameLife DEF Loads, Exists
<1>8. life[u] = "open"
    BY <1>1, <1>2 DEF life
<1> QED
    BY <1>1, <1>5, <1>7, <1>8 DEF Promise!Send

LEMMA SameSession ==
    ASSUME NEW u \in Uploads, \A t \in Uploads \ {u} : dir'[t] = dir[t],
           \/ dir'[u] = dir[u]
           \/ /\ dir'[u] \in Dir
              /\ \/ Exists(u) /\ dir'[u].session = dir[u].session
                 \/ ~Exists(u) /\ dir'[u].session = "absent"
    PROVE  \A t \in Uploads : Loads(t)' <=> Loads(t)
<1>1. Loads(u)' <=> Loads(u)
    BY DEF Loads, Exists, Dir, NoDir
<1>2. \A t \in Uploads \ {u} : Loads(t)' <=> Loads(t)
    BY DEF Loads, Exists
<1> QED
    BY <1>1, <1>2

\* What writing a chunk leaves as it was promised.
LEMMA WritingPromise ==
    ASSUME IInv, NEW w \in Handlers, NEW u \in Uploads, NEW r \in Request,
           req[w].pc \in {"create", "copy"}, req[w].upload = u,
           Goto(w, r), r.pc \in {"idle", "copy"}, begun' = begun,
           \A t \in Uploads \ {u} : dir'[t] = dir[t],
           \/ dir'[u] = dir[u]
           \/ /\ dir'[u] \in Dir
              /\ \/ Exists(u) /\ dir'[u].session = dir[u].session
                 \/ ~Exists(u) /\ dir'[u].session = "absent"
    PROVE  life' = life /\ pledge' = pledge /\ life[u] # "unknown"
<1>1. TypeOK
    BY DEF IInv
<1>2. PledgeOf(r) = Idle /\ PledgeOf(req[w]) = Idle
    BY DEF PledgeOf
<1>3. pledge' = pledge
    BY <1>1, <1>2, SamePledge
<1>4. \A t \in Uploads : Saving(t)' <=> Saving(t)
    BY <1>1, SavingTurn
<1>5. \A t \in Uploads : Loads(t)' <=> Loads(t)
    BY SameSession
<1>6. life' = life
    BY <1>4, <1>5, SameLife
<1>7. u \in begun
    BY DEF IInv, UnbegunUntouched, Idle
<1>8. life[u] # "unknown"
    BY <1>7 DEF life
<1> QED
    BY <1>3, <1>6, <1>8

LEMMA CreatePromise ==
    ASSUME IInv, NEW w \in Handlers, CreateChunk(w)
    PROVE  UNCHANGED <<life, acked, pledge>>
<1> USE ChunkAssumption
<1> TypeOK
    BY DEF IInv
<1>1. PICK u \in Uploads, i \in Index : req[w] = [pc |-> "create", upload |-> u, index |-> i]
    BY ReqType, RequestFields DEF CreateChunk, Chunking
<1> DEFINE old == IF Exists(u) THEN dir[u] ELSE NewDir
           new == WithChunk(old, i, w)
           r == [pc |-> "copy", upload |-> u, index |-> i]
<1>2. /\ dir' = [dir EXCEPT ![u] = new] /\ Goto(w, r) /\ begun' = begun /\ acked' = acked
    BY <1>1 DEF CreateChunk
<1>3. r \in Request /\ r.pc = "copy"
    BY DEF Request, Chunking
<1>4. old \in Dir /\ w \in Chunk /\ (~Exists(u) => old.session = "absent")
    BY DirType, NewDirType DEF Chunk
<1>5. new \in Dir /\ new.session = old.session
    BY <1>4, WithChunkFacts
<1>6. req[w].pc = "create" /\ req[w].upload = u
    BY <1>1
<1> HIDE DEF new, r
<1>7. dir'[u] = new /\ \A t \in Uploads \ {u} : dir'[t] = dir[t]
    BY <1>2 DEF TypeOK
<1>8. \/ Exists(u) /\ dir'[u].session = dir[u].session
      \/ ~Exists(u) /\ dir'[u].session = "absent"
    BY <1>4, <1>5, <1>7
<1> QED
    BY <1>2, <1>3, <1>5, <1>6, <1>7, <1>8, WritingPromise

LEMMA FailCreatePromise ==
    ASSUME IInv, NEW w \in Handlers, FailCreate(w)
    PROVE  UNCHANGED <<life, acked, pledge>>
<1> TypeOK
    BY DEF IInv
<1>1. PICK u \in Uploads, i \in Index : req[w] = [pc |-> "create", upload |-> u, index |-> i]
    BY ReqType, RequestFields DEF FailCreate, Chunking
<1>2. /\ dir' = dir \/ (~Exists(u) /\ dir' = [dir EXCEPT ![u] = NewDir])
      /\ Goto(w, Idle) /\ begun' = begun /\ acked' = acked
    BY <1>1 DEF FailCreate, Finish
<1>3. /\ \/ dir'[u] = dir[u]
         \/ dir'[u] \in Dir /\ ~Exists(u) /\ dir'[u].session = "absent"
      /\ \A t \in Uploads \ {u} : dir'[t] = dir[t]
    BY <1>2, NewDirType DEF TypeOK
<1>4. req[w].pc = "create" /\ req[w].upload = u /\ Idle.pc = "idle"
    BY <1>1 DEF Idle
<1> QED
    BY <1>2, <1>3, <1>4, IdleType, WritingPromise

LEMMA FailPromise ==
    ASSUME IInv, NEW w \in Handlers, FailChunk(w)
    PROVE  UNCHANGED <<life, acked, pledge>>
<1> TypeOK
    BY DEF IInv
<1>1. PICK u \in Uploads, i \in Index : req[w] = [pc |-> "copy", upload |-> u, index |-> i]
    BY ReqType, RequestFields DEF FailChunk, Chunking
<1> DEFINE new == WithChunk(dir[u], i, "absent")
<1>2. /\ dir' = IF Exists(u) THEN [dir EXCEPT ![u] = new] ELSE dir
      /\ Goto(w, Idle) /\ begun' = begun /\ acked' = acked
    BY <1>1 DEF FailChunk, Finish
<1>3. Exists(u) => new \in Dir /\ new.session = dir[u].session
    BY DirType, WithChunkFacts DEF Chunk
<1> HIDE DEF new
<1>4. /\ dir'[u] = IF Exists(u) THEN new ELSE dir[u]
      /\ \A t \in Uploads \ {u} : dir'[t] = dir[t]
    BY <1>2 DEF TypeOK
<1>5. req[w].pc = "copy" /\ req[w].upload = u /\ Idle.pc = "idle"
    BY <1>1 DEF Idle
<1> QED
    BY <1>2, <1>3, <1>4, <1>5, IdleType, WritingPromise

LEMMA ConfirmStep ==
    ASSUME IInv, NEW w \in Handlers, CopyChunk(w)
    PROVE  \/ UNCHANGED <<life, acked, pledge>>
           \/ \E u \in Uploads, i \in Index : Promise!Confirm(u, i)
<1> TypeOK
    BY DEF IInv
<1>1. PICK u \in Uploads, i \in Index : req[w] = [pc |-> "copy", upload |-> u, index |-> i]
    BY ReqType, RequestFields DEF CopyChunk, Chunking
<1> DEFINE new == WithChunk(dir[u], i, "whole")
           mine == Exists(u) /\ dir[u].chunks[i] = w
<1>2. /\ dir' = IF mine THEN [dir EXCEPT ![u] = new] ELSE dir
      /\ acked' = acked \/ acked' = [acked EXCEPT ![u] = @ \cup {i}]
      /\ Goto(w, Idle) /\ begun' = begun
    BY <1>1 DEF CopyChunk, Finish
<1>3. mine => new \in Dir /\ new.session = dir[u].session
    BY DirType, WithChunkFacts DEF Chunk
<1> HIDE DEF new
<1>4. /\ dir'[u] = IF mine THEN new ELSE dir[u]
      /\ \A t \in Uploads \ {u} : dir'[t] = dir[t]
    BY <1>2 DEF TypeOK
<1>5. req[w].pc = "copy" /\ req[w].upload = u /\ Idle.pc = "idle"
    BY <1>1 DEF Idle
<1>6. life' = life /\ pledge' = pledge /\ life[u] # "unknown"
    BY <1>2, <1>3, <1>4, <1>5, IdleType, WritingPromise
<1> QED
    BY <1>2, <1>6 DEF Promise!Confirm

LEMMA AskStep ==
    ASSUME IInv, NEW w \in Handlers, NEW u \in Uploads, CompleteUpload(w, u)
    PROVE  Promise!Ask(w, u)
<1> DEFINE answered == \A v \in Handlers : ~ChunkInFlight(v, u)
           careful == answered /\ acked[u] = Index
           r == [pc |-> "merge", upload |-> u, index |-> 0, whole |-> TRUE,
                 careful |-> careful,
                 resumed |-> acked[u] \cup listed[u] = Index]
<1> TypeOK
    BY DEF IInv
<1>1. /\ req[w] = Idle /\ Loads(u) /\ Goto(w, r)
      /\ UNCHANGED <<dir, begun, acked>>
    BY DEF CompleteUpload
<1>2. u \in begun /\ ~Saving(u)
    BY <1>1, LoadedNotSaving DEF Loads, NotSaving, Saving
<1>3. r \in Request /\ r.pc = "merge"
    <2>1. 0 \in Index
        BY ChunkAssumption DEF Index
    <2> QED
        BY <2>1 DEF Request, Completing
<1>4. PledgeOf(r) = [upload |-> u, sound |-> careful, file |-> "partial"]
    BY DEF PledgeOf
<1>5. careful \in BOOLEAN /\ (careful => acked[u] = Index)
    OBVIOUS
<1>6. PledgeOf(req[w]) = Idle /\ req[w].pc # "save"
    BY <1>1 DEF PledgeOf, Idle
<1> HIDE DEF r, careful
<1>7. pledge[w] = Idle /\ pledge' = [pledge EXCEPT ![w] = PledgeOf(r)]
    BY <1>1, <1>3, <1>6, PledgeTurn
<1>8. \A t \in Uploads : Saving(t)' <=> Saving(t)
    BY <1>1, <1>3, <1>6, SavingTurn
<1>9. life' = life
    BY <1>1, <1>8, SameLife DEF Loads, Exists
<1>10. life[u] = "open"
    BY <1>1, <1>2 DEF life
<1> QED
    BY <1>1, <1>4, <1>5, <1>7, <1>9, <1>10 DEF Promise!Ask

Completes(r) == r.pc \in {"merge", "lookup", "link", "store", "cleanup"}

LEMMA CompletingLife ==
    ASSUME IInv, NEW w \in Handlers, NEW u \in Uploads, NEW r \in Request,
           Completes(req[w]), req[w].upload = u, Goto(w, r), r.pc # "save", begun' = begun
    PROVE  /\ dir' = dir => life' = life
           /\ dir' = Removed(u) => life[u] # "unknown" /\ life' = [life EXCEPT ![u] = "closed"]
<1> TypeOK
    BY DEF IInv
<1>1. u \in begun /\ NotSaving(u)
    BY LoadedNotSaving DEF IInv, UnbegunUntouched, Completes, Idle
<1>2. \A t \in Uploads : Saving(t)' <=> Saving(t)
    BY SavingTurn DEF Completes
<1>3. dir' = dir => life' = life
    BY <1>2, SameLife DEF Loads, Exists
<1> QED
    BY <1>1, <1>2, <1>3, CloseLife

LEMMA AnswerStep ==
    ASSUME IInv, NEW w \in Handlers, Completes(req[w]), Goto(w, Idle),
           begun' = begun, acked' = acked, dir' = dir \/ dir' = Removed(req[w].upload)
    PROVE  Promise!Answer(w)
<1> TypeOK
    BY DEF IInv
<1>1. PICK u \in Uploads : u = req[w].upload
    BY ReqType, RequestFields DEF Completes, Idle
<1>2. PledgeOf(req[w]) # Idle /\ PledgeOf(req[w]).upload = u /\ PledgeOf(Idle) = Idle
    BY <1>1, ReqType, IdleType, PledgeFields DEF Completes, Idle
<1>3. pledge[w] = PledgeOf(req[w]) /\ pledge' = [pledge EXCEPT ![w] = Idle]
    BY <1>2, IdleType, PledgeTurn
<1>4. life' = life \/ life' = [life EXCEPT ![u] = "closed"]
  <2>1. Idle.pc # "save"
      BY DEF Idle
  <2> QED
      BY <1>1, <2>1, IdleType, CompletingLife
<1>5. pledge[w] # Idle /\ pledge[w].upload = u
    BY <1>2, <1>3
<1> HIDE DEF life, pledge
<1> QED
    BY <1>3, <1>4, <1>5 DEF Promise!Answer

LEMMA MergeStep ==
    ASSUME IInv, NEW w \in Handlers, MergeChunk(w), IInv'
    PROVE  UNCHANGED <<life, acked, pledge>> \/ Promise!Assemble(w) \/ Promise!Answer(w)
<1> DEFINE whole == req[w].whole /\ dir[req[w].upload].chunks[req[w].index] = "whole"
<1> TypeOK
    BY DEF IInv
<1>1. /\ req[w].pc = "merge" /\ UNCHANGED <<dir, begun, acked>>
      /\ Goto(w, Merged(req[w], whole)) \/ Goto(w, Idle)
    BY DEF MergeChunk, Finish
<1>2. PICK u \in Uploads : u = req[w].upload
    BY <1>1, ReqType, RequestFields DEF Idle
<1>3. /\ req[w] \in [pc : {"merge"}, upload : Uploads, index : Index, whole : BOOLEAN,
                     careful : BOOLEAN, resumed : BOOLEAN]
      /\ whole \in BOOLEAN
    BY <1>1, ReqType, RequestFields DEF Request, Idle, Initiating, Chunking, Completing
<1>4. PledgeOf(req[w]) = [upload |-> u, sound |-> req[w].careful, file |-> "partial"]
    BY <1>1, <1>2 DEF PledgeOf
<1> HIDE DEF whole
<1>5. CASE Goto(w, Idle)
    BY <1>1, <1>5, AnswerStep DEF Completes
<1>6. CASE Goto(w, Merged(req[w], whole)) /\ req[w].index < ChunkCount - 1
  <2> DEFINE n == [req[w] EXCEPT !.index = @ + 1, !.whole = whole]
  <2>1. Goto(w, n)
      BY <1>6 DEF Merged
  <2>2. req[w].index + 1 \in Index
      BY <1>3, <1>6, ChunkAssumption DEF Index
  <2>3. n \in [pc : {"merge"}, upload : Uploads, index : Index, whole : BOOLEAN,
               careful : BOOLEAN, resumed : BOOLEAN]
      BY <1>3, <2>2
  <2>4. n.pc = "merge" /\ n.upload = u /\ n.careful = req[w].careful
      BY <1>2, <1>3
  <2>5. n \in Request
      BY <2>3 DEF Request, Completing
  <2> HIDE DEF n
  <2>6. PledgeOf(n) = PledgeOf(req[w])
      BY <1>4, <2>4 DEF PledgeOf
  <2>7. pledge' = pledge
      BY <2>1, <2>5, <2>6, SamePledge
  <2>8. life' = life
      BY <1>1, <1>2, <2>1, <2>4, <2>5, CompletingLife DEF Completes
  <2> QED
      BY <1>1, <2>7, <2>8
<1>7. CASE Goto(w, Merged(req[w], whole)) /\ ~(req[w].index < ChunkCount - 1)
  <2> DEFINE n == [pc |-> "lookup", upload |-> req[w].upload, whole |-> whole,
                   careful |-> req[w].careful, resumed |-> req[w].resumed]
             file == IF whole THEN "whole" ELSE "torn"
  <2>1. Goto(w, n)
      BY <1>7 DEF Merged
  <2>2. n \in Request
      BY <1>3 DEF Request, Completing
  <2>3. n.pc = "lookup" /\ n.upload = u /\ n.careful = req[w].careful /\ n.whole = whole
      BY <1>2
  <2> HIDE DEF n
  <2>4. PledgeOf(n) = [upload |-> u, sound |-> req[w].careful, file |-> file]
      BY <2>3 DEF PledgeOf
  <2>5. pledge[w] = PledgeOf(req[w]) /\ pledge' = [pledge EXCEPT ![w] = PledgeOf(n)]
      BY <2>1, <2>2, PledgeTurn
  <2>6. life' = life
      BY <1>1, <1>2, <2>1, <2>2, <2>3, CompletingLife DEF Completes
  <2>7. req[w].careful => file = "whole"
    <3>1. req'[w] = n
        BY <2>1, <2>2, GotoFacts
    <3>2. n.careful => n.whole
        BY <2>3, <3>1 DEF IInv, CarefulIsWhole
    <3> QED
        BY <2>3, <3>2
  <2>8. [PledgeOf(req[w]) EXCEPT !.file = file] = PledgeOf(n)
    <3> DEFINE p == PledgeOf(req[w])
    <3>1. p \in PledgeRecord
        BY <1>3, <1>4 DEF PledgeRecord
    <3>2. p.upload = u /\ p.sound = req[w].careful
        BY <1>4
    <3>3. file \in {"partial", "whole", "torn"}
        OBVIOUS
    <3> HIDE DEF p, file
    <3>4. [p EXCEPT !.file = file] = [upload |-> p.upload, sound |-> p.sound, file |-> file]
        BY <3>1, <3>3, PledgeUpdates
    <3>5. [p EXCEPT !.file = file] = PledgeOf(n)
        BY <2>4, <3>2, <3>4
    <3> QED
        BY <3>5 DEF p
  <2>9. /\ pledge[w] # Idle /\ pledge[w].file = "partial"
        /\ pledge[w].sound => file = "whole"
        /\ pledge' = [pledge EXCEPT ![w].file = file]
    <3>1. PledgeOf(req[w]) # Idle
        BY <1>1, ReqType, PledgeFields
    <3>2. PledgeOf(req[w]).file = "partial" /\ PledgeOf(req[w]).sound = req[w].careful
        BY <1>4
    <3> HIDE DEF file, PledgeOf, pledge
    <3> QED
        BY <2>5, <2>7, <2>8, <3>1, <3>2
  <2>10. file \in {"whole", "torn"}
      OBVIOUS
  <2> HIDE DEF file, life, pledge
  <2> QED
      BY <1>1, <2>6, <2>9, <2>10 DEF Promise!Assemble
<1> QED
    BY <1>1, <1>5, <1>6, <1>7

\* The file is put together: the place changes, the promise does not.
LEMMA PlaceStep ==
    ASSUME IInv, NEW w \in Handlers, Assembled(w), NEW p \in {"link", "store", "cleanup"},
           Goto(w, [req[w] EXCEPT !.pc = p]), begun' = begun, acked' = acked,
           dir' = dir \/ dir' = Removed(req[w].upload)
    PROVE  UNCHANGED <<life, acked, pledge>> \/ \E u \in Uploads : Promise!Close(u)
<1> DEFINE Places == {"lookup", "link", "store", "cleanup"}
           n == [req[w] EXCEPT !.pc = p]
<1> TypeOK
    BY DEF IInv
<1>1. req[w] \in [pc : Places, upload : Uploads, whole : BOOLEAN,
                  careful : BOOLEAN, resumed : BOOLEAN]
    BY ReqType DEF Request, Idle, Initiating, Chunking, Completing
<1>2. n \in [pc : Places, upload : Uploads, whole : BOOLEAN,
             careful : BOOLEAN, resumed : BOOLEAN]
    BY <1>1
<1>3. /\ n.pc = p /\ n.upload = req[w].upload /\ n.whole = req[w].whole
      /\ n.careful = req[w].careful
    BY <1>1
<1>4. n \in Request
    BY <1>2 DEF Request, Completing
<1>5. PICK u \in Uploads : u = req[w].upload
    BY <1>1
<1> HIDE DEF n
<1>6. PledgeOf(n) = PledgeOf(req[w])
    BY <1>3 DEF PledgeOf
<1>7. pledge' = pledge
    BY <1>4, <1>6, SamePledge DEF n
<1>8. /\ dir' = dir => life' = life
      /\ dir' = Removed(u) => life[u] # "unknown" /\ life' = [life EXCEPT ![u] = "closed"]
    BY <1>3, <1>4, <1>5, CompletingLife DEF Completes, n
<1> HIDE DEF life, pledge
<1> QED
    BY <1>5, <1>7, <1>8 DEF Promise!Close

LEMMA AssembledPromise ==
    ASSUME IInv, NEW w \in Handlers, LookupHash(w) \/ CommitFile(w) \/ CleanupSession(w)
    PROVE  \/ UNCHANGED <<life, acked, pledge>>
           \/ \E u \in Uploads : Promise!Close(u)
           \/ Promise!Answer(w)
<1>1. /\ Assembled(w) /\ begun' = begun /\ acked' = acked
      /\ dir' = dir \/ dir' = Removed(req[w].upload)
      /\ \/ Goto(w, Idle)
         \/ \E p \in {"link", "store", "cleanup"} : Goto(w, [req[w] EXCEPT !.pc = p])
    BY DEF LookupHash, CommitFile, CleanupSession, Finish
<1>2. CASE Goto(w, Idle)
    BY <1>1, <1>2, AnswerStep DEF Completes
<1>3. ASSUME NEW p \in {"link", "store", "cleanup"}, Goto(w, [req[w] EXCEPT !.pc = p])
      PROVE  UNCHANGED <<life, acked, pledge>> \/ \E u \in Uploads : Promise!Close(u)
    BY <1>1, <1>3, PlaceStep
<1> QED
    BY <1>1, <1>2, <1>3

LEMMA SamePlaces ==
    ASSUME req' = req
    PROVE  pledge' = pledge /\ \A u \in Uploads : Saving(u)' <=> Saving(u)
BY DEF pledge, Saving

\* The clock and the queries change no promise.
LEMMA WaitingPromise ==
    ASSUME IInv, NEW u \in Uploads,
           UploadStatus(u) \/ Inspect(u) \/ AgeDir(u) \/ ExpireSession(u)
    PROVE  UNCHANGED <<life, acked, pledge>>
<1>1. UNCHANGED <<begun, req, acked>>
    BY DEF UploadStatus, Inspect, AgeDir, ExpireSession
<1>2. \A t \in Uploads : Loads(t)' <=> Loads(t)
  <2>1. CASE dir' = dir
      BY <2>1 DEF Loads, Exists
  <2>2. CASE AgeDir(u) \/ ExpireSession(u)
    <3>1. Exists(u) /\ dir[u] \in Dir
        BY <2>2, DirType DEF AgeDir, ExpireSession, IInv
    <3>2. \/ dir' = [dir EXCEPT ![u] = [dir[u] EXCEPT !.fresh = FALSE]]
          \/ dir' = [dir EXCEPT ![u] = [dir[u] EXCEPT !.expired = TRUE]]
        BY <2>2 DEF AgeDir, ExpireSession
    <3>3. PICK d \in Dir : d.session = dir[u].session /\ dir' = [dir EXCEPT ![u] = d]
        BY <3>1, <3>2 DEF Dir
    <3>4. dir'[u] = d /\ \A t \in Uploads \ {u} : dir'[t] = dir[t]
        BY <3>3 DEF IInv, TypeOK
    <3> QED
        BY <3>1, <3>3, <3>4, SameSession
  <2> QED
      BY <2>1, <2>2 DEF UploadStatus, Inspect
<1> QED
    BY <1>1, <1>2, SamePlaces, SameLife

LEMMA ClosePromise ==
    ASSUME IInv, RemoveStale \/ \E u \in Uploads : CancelUpload(u)
    PROVE  \E u \in Uploads : Promise!Close(u)
<1>1. PICK u \in Uploads : u \in begun /\ NotSaving(u) /\ dir' = Removed(u)
  <2>1. ASSUME RemoveStale
        PROVE  job \in Uploads /\ job \in begun /\ NotSaving(job) /\ dir' = Removed(job)
      BY <2>1 DEF RemoveStale, IInv, TypeOK, UnbegunUntouched, SavingAlone, NotSaving
  <2>2. ASSUME NEW u \in Uploads, CancelUpload(u)
        PROVE  u \in begun /\ NotSaving(u) /\ dir' = Removed(u)
      BY <2>2, LoadedNotSaving DEF CancelUpload, Loads
  <2> QED
      BY <2>1, <2>2
<1>2. UNCHANGED <<begun, req, acked>>
    BY DEF RemoveStale, CancelUpload
<1>3. pledge' = pledge /\ \A t \in Uploads : Saving(t)' <=> Saving(t)
    BY <1>2, SamePlaces
<1>4. life[u] # "unknown" /\ life' = [life EXCEPT ![u] = "closed"]
    BY <1>1, <1>2, <1>3, CloseLife
<1> HIDE DEF life, pledge
<1> QED
    BY <1>2, <1>3, <1>4 DEF Promise!Close

LEMMA RestartStep ==
    ASSUME IInv, Crash
    PROVE  Promise!Restart
<1>1. /\ begun' = begun /\ acked' = acked /\ req' = [w \in Handlers |-> Idle]
    BY DEF Crash
<1>2. pledge' = [w \in Handlers |-> Idle]
    BY <1>1 DEF pledge, Idle
<1>3. \A u \in Uploads : ~Saving(u)'
    BY <1>1 DEF Saving, Idle
<1>4. ASSUME NEW u \in Uploads
      PROVE  Loads(u)' <=> Loads(u)
  <2>1. CASE ~Exists(u)
      BY <2>1 DEF Crash, Loads, Exists
  <2>2. CASE Exists(u)
    <3>1. dir[u] \in Dir
        BY <2>2, DirType DEF IInv
    <3>2. dir'[u] = [dir[u] EXCEPT !.chunks =
                       [i \in Index |-> IF dir[u].chunks[i] \in Handlers THEN "torn"
                                        ELSE dir[u].chunks[i]]]
        BY <2>2, <3>1 DEF Crash
    <3>3. dir'[u].st = "dir" /\ dir'[u].session = dir[u].session
        BY <3>1, <3>2 DEF Dir
    <3> QED
        BY <2>2, <3>3 DEF Loads, Exists, NoDir
  <2> QED
      BY <2>1, <2>2
<1>5. \A u \in Uploads : Saving(u) => ~Loads(u)
    BY LoadedNotSaving DEF Saving, NotSaving
<1>6. \A u \in Uploads : life'[u] = IF life[u] = "opening" THEN "closed" ELSE life[u]
    BY <1>1, <1>3, <1>4, <1>5 DEF life
<1>7. life' = [u \in Uploads |-> life'[u]]
    BY DEF life
<1> QED
    BY <1>1, <1>2, <1>6, <1>7 DEF Promise!Restart

LEMMA PromiseInit == Init => Promise!Init
<1> SUFFICES ASSUME Init PROVE Promise!Init
    OBVIOUS
<1>1. life = [u \in Uploads |-> "unknown"]
    BY DEF Init, life
<1>2. pledge = [w \in Handlers |-> Idle]
    BY DEF Init, pledge, Idle
<1> QED
    BY <1>1, <1>2 DEF Init, Promise!Init

LEMMA PromiseStep ==
    ASSUME IInv, [Next]_vars, IInv'
    PROVE  [Promise!Next]_<<life, acked, pledge>>
<1>1. CASE UNCHANGED vars
  <2>1. UNCHANGED <<dir, begun, req, acked>>
      BY <1>1 DEF vars
  <2>2. \A u \in Uploads : Loads(u)' <=> Loads(u)
      BY <2>1 DEF Loads, Exists
  <2>3. life' = life /\ pledge' = pledge
      BY <2>1, <2>2, SamePlaces, SameLife
  <2> QED
      BY <2>1, <2>3
<1>2. ASSUME NEW w \in Handlers, NEW u \in Uploads, InitUpload(w, u)
      PROVE  Promise!Next
    BY <1>2, BeginStep DEF Promise!Next
<1>3. ASSUME NEW w \in Handlers, NEW u \in Uploads, CompleteUpload(w, u)
      PROVE  Promise!Next
    BY <1>3, AskStep DEF Promise!Next
<1>4. ASSUME NEW w \in Handlers, NEW u \in Uploads, NEW i \in Index, UploadChunk(w, u, i)
      PROVE  Promise!Next
    BY <1>4, SendStep DEF Promise!Next
<1>5. ASSUME NEW w \in Handlers, SaveSession(w)
      PROVE  Promise!Next
    BY <1>5, OpenStep DEF Promise!Next
<1>6. ASSUME NEW w \in Handlers, CreateChunk(w) \/ FailCreate(w) \/ FailChunk(w)
      PROVE  UNCHANGED <<life, acked, pledge>>
    BY <1>6, CreatePromise, FailCreatePromise, FailPromise
<1>7. ASSUME NEW w \in Handlers, CopyChunk(w)
      PROVE  [Promise!Next]_<<life, acked, pledge>>
    BY <1>7, ConfirmStep DEF Promise!Next
<1>8. ASSUME NEW w \in Handlers, MergeChunk(w)
      PROVE  [Promise!Next]_<<life, acked, pledge>>
    BY <1>8, MergeStep DEF Promise!Next
<1>9. ASSUME NEW w \in Handlers, LookupHash(w) \/ CommitFile(w) \/ CleanupSession(w)
      PROVE  [Promise!Next]_<<life, acked, pledge>>
    BY <1>9, AssembledPromise DEF Promise!Next
<1>10. ASSUME NEW u \in Uploads, UploadStatus(u) \/ Inspect(u) \/ AgeDir(u) \/ ExpireSession(u)
       PROVE  UNCHANGED <<life, acked, pledge>>
    BY <1>10, WaitingPromise
<1>11. ASSUME RemoveStale \/ \E u \in Uploads : CancelUpload(u)
       PROVE  Promise!Next
    BY <1>11, ClosePromise DEF Promise!Next
<1>12. ASSUME Crash
       PROVE  Promise!Next
    BY <1>12, RestartStep DEF Promise!Next
<1> QED
    BY <1>1, <1>2, <1>3, <1>4, <1>5, <1>6, <1>7, <1>8, <1>9, <1>10, <1>11, <1>12 DEF Next

\* ImplementsUpload: every step that InitUpload, UploadChunk, CompleteUpload,
\* CancelUpload, the cleaning or a crash takes is a step an upload promises, or
\* none that a client sees: a closed upload opens no more, although a late chunk
\* makes its directory again, and a guarantee given is kept.
THEOREM Refinement == Spec => ImplementsUpload
<1>1. IInv /\ IInv' /\ [Next]_vars => [Promise!Next]_(Promise!promiseVars)
    BY PromiseStep DEF Promise!promiseVars
<1> QED
    BY PromiseInit, Inductive, <1>1, PTL DEF Spec, ImplementsUpload, Promise!Spec
=============================================================================
