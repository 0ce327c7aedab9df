# A verification project for networkdisk

networkdisk is a network disk written in Go: users log in, upload files into trees of directories,
share them, delete them into a recycle bin and purge them. State lives in MySQL (InnoDB), in files
below `storage.root`, and, for locks and limits, in the memory of one process. This directory holds
TLA+ modules for the parts of it where interleavings, failures and crashes matter, the TLC runs that
check them on small instances, and TLAPS proofs for every size. Paths below are relative to the
repository.

## 1. The system

| Component | State | Operations | Hard behaviour |
|---|---|---|---|
| File service (`internal/service/file.go`) | table `files`, `users.storage_used`, blobs | upload with deduplication, create, rename, move, copy, delete, restore, purge, daily cleaning, daily calibration | checks before transactions, blobs and rows changed in different steps, double accounting, jobs beside requests |
| File tables (`internal/store/file.go`) | rows, one foreign key, no unique name | one statement per function, a recursive query for trees | conditions that a statement has or lacks, `FOREIGN_KEY_CHECKS` on pooled connections |
| Blob storage (`internal/storage`) | files named by storage key | rename into place, delete | shared by rows of several users, counted by queries |
| Chunked uploads (`file.go:1255-1551`) | a directory and `session.json` per upload | init, chunk, complete, status, cancel, hourly cleaning | no lock per session, resume after failure, cleaning by age |
| Hash locks (`file.go:67-88`) | map of mutexes | `lockHash`, `unlockHash` | the map forgets a mutex others wait on |
| Sessions (`internal/service/user.go`, `internal/store/user.go`) | table `refresh_tokens`, password hashes | login, refresh with rotation, logout, per device logout, password change | concurrent refreshes, replayed tokens, two connections per refresh |
| Accounts, two-factor codes (`user.go`) | table `users`, map of attempts | register, enable, count attempts | counting and clearing in separate critical sections |
| Shares, temporary links (`internal/service/share.go`) | tables `shares`, `temp_downloads`, map of attempts | create, verify, download, expire | limit of downloads under concurrency |
| Database pool, migrations (`internal/store/db.go`) | `max_open_conns`, `schema_versions` | borrow a connection, migrate at start | exhaustion, DDL that commits by itself |
| Start, timers, shutdown (`internal/app/app.go`) | goroutines | three daily and three hourly jobs, reload, graceful stop | jobs are not awaited, a panic among the deferred calls |
| Configuration (`internal/config`) | one global, one copy per service | load, reload on SIGHUP | parts see different configurations |
| Thumbnails (`internal/service/thumbnail.go`) | files, `thumbnail_key` | asynchronous generation | result after the row is gone |
| Rate limiter (`internal/middleware/ratelimit.go`) | counters per address | allow, clean, stop | stop at shutdown |
| Tags, search, audit, handlers, router, other middleware, web client | tables or none | single statements, decoding | little |

The handlers decode a request and call one service operation (a PATCH with a parent and a name
calls two). Services call the store, whose functions are single statements or transactions on a pool
of connections, and the blob storage. Timers of `app.go` call the file, share and user services from
goroutines of their own. Nothing is locked across an operation in memory except the lookup of a
content hash; what keeps operations apart is InnoDB.

What makes each component correct, in short:

- file service: a row's blob is there and holds its content; a row hangs below a directory of its
  owner; nothing live is purged; the live tree is closed upwards; usage is what the live files add up to;
- sessions: one valid token per session; ended sessions stay ended; requests end;
- chunked uploads: what is stored is the bytes that were sent; a young upload is not cleaned away, an
  abandoned one is;
- hash locks: contents do not wait for one another, and every waiter proceeds;
- shares: never more downloads than allowed, each counted once; expired links go;
- two-factor codes: bounded guesses; a secret that was disabled never comes back;
- migrations: what serves has the whole schema, whatever starts were cut short before;
- process: services agree outside of a reload, a reload reaches all of them, the pool outlives the
  requests, a stop ends the process.

`PROJECT.json` lists every component with its status, and every hazard with its line.

## 2. Modules

| Module | Models | Depends on |
|---|---|---|
| `FileTable` | rows of `files`, blobs, `storage_used`; the store's queries and statements as operators | |
| `FileService` | every operation of the file service as actions of concurrent goroutines; the daily jobs | extends `FileTable` |
| `MCFileService` | constants for TLC | extends `FileService` |
| `FileServiceProofs` | theorems about any interleaving | extends `FileService` |
| `FileSerialProofs` | theorems about one request at a time | extends `FileServiceProofs` |
| `DeviceSessions` | abstract: sessions open, rotate their token, close | |
| `Sessions` | logins, refreshes, logouts, password changes over row locks and the pool | instance of `DeviceSessions` |
| `SessionsProofs` | theorems, the refinement among them | extends `Sessions` |
| `HashLock` | `lockHash`, `unlockHash` and the Go mutexes behind them | |
| `HashLockProofs` | theorems | extends `HashLock` |
| `UploadPromise` | abstract: an upload opens once and closes, a guaranteed file is whole | |
| `ChunkUpload` | sessions and chunks on disk, the requests on them, the hourly cleaning, crashes | instance of `UploadPromise` |
| `ChunkUploadProofs` | theorems, the refinement among them | extends `ChunkUpload` |
| `DownloadBudget` | abstract: limited shares sell tickets, downloads use them up | |
| `ShareLinks` | shares, verify tokens, temporary links, downloads, against what becomes of the file | instance of `DownloadBudget` |
| `ShareLinksProofs` | theorems, the refinement among them | extends `ShareLinks` |
| `Attempts` | counters of codes and share passwords; pending, confirmed and disabled two-factor secrets | |
| `AttemptsProofs` | theorems | extends `Attempts` |
| `Migrations` | `RunMigrations`, statement by statement, over any number of starts | |
| `Server` | the process: start, signals, reload, timers, requests, shutdown | extends `Migrations` |
| `ServerProofs` | theorems | extends `Server` |
| `MCServer` | constants for TLC, for `Server` and `Attempts` side by side | extends `Server`, `Attempts` |

### FileTable and FileService

A row is unused, live, deleted (in the recycle bin) or purged; an id is used once, as AUTO_INCREMENT
has it. A directory is a row without a storage key. `disk` says what each storage key holds: nothing
yet, a content, or `Removed`. A hash stands for the content. Each operator of `FileTable` is one
query or statement of `internal/store/file.go` with exactly the conditions its SQL has; several
hazards are conditions that are *not* there (`FileByHash` asks for no owner, `HardDeleteFiles` for no
`is_deleted`, `BatchSoftDelete` neither). `Below(r)`, what the recursive query walks, is the least set
with the children of `r` and of its own members; a cycle, on which MySQL gives up, is a row below itself.

`req[w]` is what goroutine `w` has read so far; its next step acts on that record whatever has
happened to the tables since. An operation is cut into these steps:

1. the reads before its transaction, one step (`UploadFile`, `MoveFile`, `DeleteFile`, ...);
2. the reads inside the transaction, one step, since REPEATABLE READ gives them one snapshot
   (`MoveInTx`, `BatchMoveInTx`, `CopyInTx`);
3. its statements with COMMIT, one step (`CommitUpload`, `CommitMove`, `CommitPurge`, ...);
4. what follows outside of it, a step per blob and per user (`DeleteBlob`, `ChargeBack`).

An upload has the lookup of its hash and the placing of its blob as steps of their own, because a
purge can come between any two of them. `AutoCleanRecycle` counts keys in a step before its
transaction (`CountKeys`, no lock), `PermanentDeleteFile` inside of it (`FOR UPDATE`).
`CalibrateStorage` is three statements with no transaction and so three steps. `Fail` ends a request
before COMMIT, `FailUpload` with or without the removal of the fresh blob, `Crash` ends all requests.

A chunked upload is here what it does to the tables: `req[s]`, for an upload id `s`, is its
`session.json`, which holds the parent and the name that `InitUpload` validated and which outlives
crashes. `CompleteUpload` hands them to a goroutine that goes through the steps of `UploadFile` without
asking for the parent again; a duplicate drops its session first and then resolves its name
(`LinkDuplicate`, where `overwrite` replaces nothing), a new content takes the name of the session as it
is (`StoreMerged`) and drops the session last. `DropSession` is a cancellation or the cleaning; both may
come between any two steps of a completion. An id stands for another upload once nothing refers to
it, so `Uploads` bounds the sessions at one time, not in all.

Abstractions: sizes belong to contents; a "renamed copy" is any free name instead of the first free
`name (i).ext`; rows expired from the bin are any non-empty set of deleted rows; the reads before a
transaction are one step although they are several queries; thumbnails, stars and MIME types are
left out. When failures are on, any later statement may run on a connection whose foreign key checks
a failed `HardDeleteFiles` left off (`Referable`): more than can happen, so the safety properties
hold all the more.

### DeviceSessions and Sessions

A token is identified with its hash and its row, a family with the token it started with. A request
is at the place its last statement left it; `conn` says that it holds a connection. Connections are
taken one at a time (`Connect`) from a pool of `MaxConns`; a refresh holds one for its transaction
and needs a second for `UserByID` (`ReadUser`). Row locks are not state but read off the open
transactions: a refresh past its conditional UPDATE holds the row it revoked (`RowLocked`), a
password change past its UPDATE holds the user's row (`UserLocked`), which an INSERT of a token needs
for its foreign key. An UPDATE over many rows waits until none of them is locked; the rows a
committed refresh inserts lie behind the row it waited for in the index, so the scan meets them.
`Fail` models errors and InnoDB's end of lock waits (deadlock victim, `innodb_lock_wait_timeout`);
no wait for a connection of the pool ends by itself.

Abstractions: bcrypt and the one-time code are a nondeterministic choice; access tokens are signed,
not stored, and left out; reading the inserted row back on another connection
(`CreateRefreshToken`) is part of the insert; `DeleteExpiredRefreshTokens` is called by nothing.
`DeviceSessions` is what a client sees: `current[f]` is the one token session `f` lives on.

### HashLock

`hashLocks` is the map, `locked` the set of locked mutexes (a Go mutex has no owner), `at[u]` where
goroutine `u` is: it may hold a pointer to a mutex that the map has forgotten. `lockHash` has two
steps, the critical section of `hashMu` (`FindMutex`, `MakeMutex`) and `Lock`; so has `unlockHash`,
between whose steps others run. `Unlock` of an unlocked mutex is a fatal error of the Go runtime that
no handler recovers: `Fatal` starts the process anew. `ReturnLocked` is `CompleteUpload` leaving
without `unlockHash` after a failed lookup. `&sync.Mutex{}` is any object nothing refers to (`Unused`),
so a finite set of mutexes is no bound on the length of runs; five are as many as three uploads and
two entries can refer to. No exclusion is claimed: two goroutines with the same hash can both be inside,
which `FileService` allows for by assuming nothing of the lock.

### UploadPromise and ChunkUpload

`dir[u]` is the directory `tmp/chunks/<id>`: its `session.json` (absent, torn or saved), one file per
chunk (absent, torn, whole, or being written by the request that truncated it last) and two facts of
time, `fresh` (changed in the last minute) and `expired` (`session.json` older than
`chunk_clean_timeout`; it is written once). A request is one goroutine: `InitUpload` makes the
directory and then writes the session, `UploadChunk` loads the session, creates (`CreateChunk`,
`FailCreate`, with its `MkdirAll`) and fills (`CopyChunk`, `FailChunk`) its file, `CompleteUpload`
checks, merges chunk by chunk, looks the hash up, commits and cleans up, one step each. `Inspect` and `RemoveStale` are the
decision and the act of `CleanStaleChunks`; `UploadStatus` and `CancelUpload` are one step. The
operations of one upload may all be repeated and overlap.

What a client knows is `acked` (all its requests for the chunk were answered, the last with 200) and
`listed` (what `UploadStatus` said); `careful` and `resumed` record at the start of a completion
whether that covered every chunk, and fall when the client sends a chunk meanwhile.

Abstractions: the owner check of every request; `RemoveAll` is one step (cut short, it leaves fewer
chunks, which `FailChunk` does too); the reads of the presence check and of `UploadStatus` are one
step, and the merge opens every chunk again; `FileByHash` answers either way; the row itself belongs to
`FileService`, the lock to `HashLock`; a client's bytes for a chunk are the same in every request.
`InitUpload` never sets `FileHash`, so the comparison of hashes is left out: it never runs. A step of
`InitUpload` takes less than a minute (`AgeDir` waits for it). An upload id is random and used once.

`UploadPromise` is what the client of an upload sees. `life[u]` goes from "unknown" by "opening" to
"open" and "closed", and never back; chunks are sent and files asked for only while it is open. `sure`
are the chunks it knows to be stored, `pledge[w]` is what request `w` for a file has promised: `sound` is
given to who is sure of every chunk, falls when a chunk is sent before the file is put together, and
then the file must be "whole". The mapping: an upload is open when its session loads, opening while
`InitUpload` is about to save it, closed otherwise once begun; `sure` is `acked`; `pledge` reads `careful`
and `whole` of a completion. A late chunk that makes the directory again (`CreateChunk`, `FailCreate`) maps to no
step, which is the point: without `session.json` it opens nothing.

### DownloadBudget and ShareLinks

`share` and `link` are the tables `shares` and `temp_downloads`, `file` what the row of each file has
come to (live, in the bin, purged), `verified` the shares whose signed verify token is out and still
valid. A request is at the statement it makes next. The two downloads differ in their order:
`DownloadSharedFile` checks, finds the file, then counts; `DownloadWithVerifyToken` counts first and
checks no limit before, so that only the condition of the UPDATE (`Countable`) keeps the limit. A purge
(`HardDeleteFiles`) runs with `FOREIGN_KEY_CHECKS` off and leaves shares and links behind it, the single
DELETE of the daily cleaning (`HardDeleteFile`) cascades. `LoseAnswer` is an UPDATE that took effect and
whose answer was lost. `given` counts the downloads sent, and `spoiled` holds the shares where a
request failed, or the file was taken away, between count and answer: both are for the properties.
`DownloadBudget` is what a share promises; `offer`, `limit` and `sold` are read off the rows.

Abstractions: tokens are ids; the bytes of a file and the public page are left out, and so are
`ListShares` and the download by a temporary link, which read only; what a password is compared with,
and how often, is in `Attempts`.

### Attempts

`secret` is `users.totp_secret`, `pending` the map of secrets that were generated and not confirmed,
`tries` both maps of counters (users' codes, addresses' share passwords); `past` and `old` are facts of
time. Each section under a mutex and each statement is a step. A code of a login and a share password
are counted before they are compared (`CountAnswer`), the codes of `EnableTOTP` and `DisableTOTP` after
(`CodeWrong`), and a right answer deletes the counter with what others have counted meanwhile. `Restart`
empties the maps. `known`, `retired` and `wrong` are for the properties: secrets generated, secrets that
were in force and no longer are, wrong answers since the counter last began anew. That the code or
the password is right is a nondeterministic choice, made where the code compares.

### Migrations and Server

`Schema` gives each migration's statements: `"once"` fails when it was executed before (a CREATE or
ALTER without condition), `"again"` does not. `tables` is what took effect, `versions` is
`schema_versions`. MySQL commits around each DDL statement whatever transaction is open, and so the
INSERT of the version is a commit of its own as well; the process can end between any two of them.

`Server` follows `Run` in `phase`: `config.Load` (`Start`), `store.New` (`Connect`), the migrations, the
services and timers (`MakeServices`), `StartReloadWatcher` (`Watch`), `ListenAndServe` and `signal.Notify`
(`Listen`), then the stop, deferred call by deferred call. `started` is the configuration that `Run`
loaded and that router, middleware, share handler and pool keep; `global` is `config.global`; `conf[s]`
the copy of each service. The watcher is a goroutine of its own: it takes a SIGHUP from a channel of
one, reads the file, merges (`mergeReloadable`: database and `jwt_secret` stay) and updates four
services one by one. A signal that comes before its handler is installed, or after, kills
(`Killed`, which stands for every other end as well). `EditConfig` changes the file at any time, into
one that is broken or one that `Load` would refuse, too.

Abstractions: a configuration is a pair, what a reload leaves alone and the rest; requests are a
number; what requests and jobs do is in the other modules, whose `Crash` is any end of this process; one
process at a time uses the database; that requests and jobs ask `pool` for connections is in `Sessions`.

`MCServer` puts `Server` and `Attempts` side by side in one run. They share no state, so each is
explored while the other stays at its beginning: what is checked of each is what a run of its own
would check.

## 3. Runs

| Run | Bounds | Shows |
|---|---|---|
| `files_serial` | 2 users, 3 rows, 2 names, 2 keys, 1 content, 1 chunked upload at a time, during which one user is alone, one request or job in flight, crashes; 477,948 states | rows have blobs, only the completion of a chunked upload leaves rows behind a deleted directory, nobody is overcharged, only rows of the bin are purged, names clash in three ways only; the invariant behind it (`SerialIInv`) |
| `files_concurrent` | 2 users, 2 rows, 2 contents, 2 keys, 2 requests or jobs in flight, failures, crashes, `overwrite`; 487,796 states | tenant isolation, sound deduplication, the inductive invariant |
| `files_calibrate` | 1 user, 2 rows; a request, the cleaning job and the calibration job in flight together, overwrite; fairness of the daily job; 122,844 states | usage heals once requests stop |
| `files_move_cycle` | one request at a time | **violated**: a directory moves below itself |
| `files_usage_drift` | one request at a time | **violated**: usage is not the sum of the live files |
| `files_restore_purge` | two requests | **violated**: a live row is purged |
| `sessions` | 1 user, 3 tokens, 2 passwords, 2 requests, 2 connections, failures, expiry of one token, crashes, fairness; 107,918 states | one token per session, the dead stay dead, password changes end sessions, refinement of `DeviceSessions`, requests end unless refreshes hold the whole pool |
| `hash_lock` | 3 uploads, 2 contents, 5 mutexes, failing lookups, fairness | contents do not share mutexes, where the process can die, who waits goes on |
| `chunks` | 1 upload of 2 chunks, 2 requests and the cleaning, failures, crashes, fairness of time and cleaning | careful clients' bytes are stored whole, young uploads are kept, a directory goes once its client sends no more chunks, refinement of `UploadPromise`; 88,015 states |
| `chunks_resume` | the same without failures | **violated**: a client resumes and a torn file is stored |
| `shares` | 1 share, 1 link, 1 file, 2 requests, limits 0 and 1, 2 downloads without a limit, failures, crashes, fairness of the hourly job; 610,162 states | the limit holds, the count is the number of downloads where nothing failed, expired links go, refinement of `DownloadBudget` |
| `server` | 3 migrations of 1, 2 and 2 statements, one that is edited; 4 contents of which one is unfit and one broken; 1 timer, 1 request at a time. Beside it 1 account, 1 address, 2 secrets, 2 requests, 2 attempts; fairness of `Run`, the watcher and the hourly job; 313,272 states | whole schema, torn migrations, agreement and reach of reloads, the pool under requests, the stop; bounded guesses, retired secrets, cleaning |

Why these bounds are enough to be of interest: three rows give a directory in a directory with a file, a
shared key and a name clash; two users give cross-tenant parents and deduplication across users; two
keys give a duplicate stored twice. Two goroutines in flight give every race between a check and its
transaction. The chunked upload of `files_serial` reaches both of its exceptions, the orphan and the
clash. While it is under way all rows and requests are of its user (the constraint `Alone`), which keeps the run short:
without this bound (1,226,727 states), and with a chunked upload in `files_concurrent` (2,695,784
states), there was no error either. Three tokens give a session, its successor and a second session or
second successor; two requests give two refreshes of one token, or a refresh beside a replay, a logout
or a password change (three requests and three connections were checked once, with no error). Two
refreshes fill the pool: the state `PoolHeld`, where both wait for a second connection, is reached.
`MaxUsed` bounds `storage_used` (no request adds bytes beyond it), `MaxActive` the requests in flight,
`TokensLeft` lets a request that will insert start only while a token is left for it. `Expiring` names
the tokens that expire. Ids are never used again, so runs of `FileService` end when ids do; bounds, not
deadlocks: there `Crash` and the jobs stay enabled. `hash_lock` switches deadlock checking off, since
uploads of a content whose lock was leaked really wait for ever, and `shares`, where everything ends
when its one file is purged and its share and link are used up.

In `hash_lock` three uploads are the least with which one is left waiting on a forgotten mutex; two
contents show that they do not disturb each other. In `chunks` two requests give two writers of one
chunk, a late chunk beside a completion, two completions; uploads share nothing but the cleaning job, so
one is enough (two uploads of one chunk, and one upload with three requests, were checked once, with no
error). Two chunks give a merge that others can come between.

In `shares` two requests are two downloads that pass the check of one limit, or a download beside a
deletion; a share and its file never meet another one, so one of each is enough. In `server` a file of
one statement can be applied or not, one of two unconditional statements can be torn, one of two
conditional ones repeated; two requests give two confirmations of one secret, two secrets its successor.

Symmetry is used where only safety is checked, in the runs of `FileService`: users, ids, names, contents,
keys and goroutines, which the specification treats alike, are permuted.

Fairness. `FileService!FairSpec` has strong fairness for each step of the calibration of each user: the
job runs every day over all users in turn (`app.go:107`, `file.go:1105`), is skipped for no user, and is
not killed in the middle of the same user's calibration every day. Nothing is assumed of requests: the
property is about what happens after they stop. `Sessions!FairSpec` has strong fairness of every
request's steps, the end of a wait for a row lock (`WaitEnds`) among them: goroutines run on,
`database/sql` hands a freed connection to one of its waiters picked at random and InnoDB a row lock to
a waiter of its queue, so that a step enabled again and again is taken. Strong rather than weak
fairness, because a free connection may be taken by another request first. `HashLock!FairSpec`: a mutex
that is released again and again reaches each of its waiters (the starvation mode of `sync.Mutex`), and
goroutines run on. `ChunkUpload!FairSpec`: `InitUpload` goes on, a session grows old, the hourly cleaning
(`app.go:97`) is not killed before the same `RemoveAll` each time; and of an upload whose client sends no
chunk any more (`SendsEnd`), that a minute passes without a change of its directory and that the
cleaning then visits it. Of a client that goes on sending nothing of the kind can be assumed: every
chunk that is created (`file.go:1317`) or removed (1323) renews the directory, and `CleanStaleChunks`
skips one that was changed in the last minute (1485). So `DirectoriesGo` has the premise `SendsEnd(u)`,
and TLC finds the client that keeps its expired directory for ever when it is dropped.
`ShareLinks!FairSpec` and `Attempts!AuthFairSpec`: the hourly job runs. `Server!ServerFairSpec`: `Run`
and the watcher go on and `Shutdown` has its timeout; nothing starts the process again, nor is it
assumed that signals come, requests end or jobs return.

### Findings

- `files_move_cycle`: `MoveFile` and `BatchMove` call `isDescendantOf(target, file)` where the test
  they announce needs `isDescendantOf(file, target)`. A directory can be moved below itself (the
  subtree then hangs off no root and recursive queries on it fail), and moves of a directory into one
  of its own ancestors, which are harmless, are refused.
- `files_usage_drift`: bytes are subtracted when a row goes to the bin, again if it is deleted again
  there, again when it is purged. With one request at a time and no crash usage drifts below the sum of the
  live files; `NeverOvercharged` shows that it never drifts above, `CalibrationHeals` that the daily
  job repairs it.
- `files_restore_purge`: a restore between the check and the DELETE of a purge has its live row, and
  its blob, purged.
- `chunks_resume`: `UploadStatus` lists a chunk as completed from the moment its file is created. A
  client that resumes by the list (`app.js:550`) skips a chunk that another request is still writing or
  that a stop of the server cut short, and the torn file is stored; no hash and no size is compared.

What the modules show beyond the findings, where no document says otherwise or none can be quoted:

- `OrphansOnlyBy`, `NamesClashOnlyBy`: a chunked upload completed after its directory was deleted puts
  a live row below a deleted one, which no directory listing leads to (purged: the INSERT fails and the upload
  with it); one whose name was taken meanwhile stores a second row of that name. `README.md:160` names
  `rename` and `error` for `on_name_conflict`; the code knows `overwrite` and takes anything else for
  `rename`. With `overwrite`, an upload over a directory deletes the directory's row alone.
- `Stop` of the rate limiter closes a channel that was never made: every graceful stop panics among the
  deferred calls of `Run`, after the timers are closed; the pool is closed all the same
  (`StopsOnTerm`, `ServerIInv`), the exit status is not 0.
- A reload reaches four services. Router, `http.Server` and the share handler keep what they were
  started with, while `README.md:388` names only the database and the JWT secret as needing a restart.
  `Reload` takes over what `Load` refuses (`bcrypt_cost` below 4).
- `TornStays`: a migration that fails or is killed between two statements of which one cannot be
  repeated is never completed; every later start fails until the database is repaired by hand.
- A purge leaves shares and temporary links of its files behind, whose tokens then answer with an
  error; links go with the hourly job, shares stay until their owner deletes them.
- A download with a verify token that finds its file deleted has used up one of the limit
  (`spoiled` in `ViewsAreServed`); a right answer forgives the wrong ones that others of the same user
  or address have under way (`GuessesBounded`, whose bound is more than the limit for that reason).

`RequestsEnd` has an exception in its statement: `PoolHeld`. With
`max_open_conns` refreshes between their UPDATE and `UserByID`, no request that needs the database
proceeds again, since neither side has a timeout. `WaitersGoOn` has two: `Leaked`, the lock that
`CompleteUpload` leaves held after a failed lookup, and `Crowded`, three uploads of one content, of which
one can be left waiting on a mutex the map has forgotten. And `DedupSound` allows `Removed`: a duplicate
found before a concurrent purge deletes the blob leaves a row without one (`RowsHaveBlobs` holds with
one request at a time only).

## 4. Proofs

TLAPS proves, for any numbers of users, rows, tokens, contents and goroutines (finite where
the assumptions below say so) and any crashes, and, unless a hypothesis is named, any interleavings and
failures:

| Theorem | States |
|---|---|
| `FileServiceProofs!TypeCorrect`, `Inductive` | `TypeOK` and `IInv` always hold |
| `FileServiceProofs!TenantsIsolated` | a row hangs below a directory of its owner, or of a purged one |
| `FileServiceProofs!DedupIsSound` | a row's key holds the row's content or nothing |
| `FileServiceProofs!RowsKeepIdentity` | no step changes a row's owner, content, key or kind; purged ids do not return |
| `FileSerialProofs!PurgesFromBin` | `PurgedFromBin`, if `MaxActive = 1` |
| `FileSerialProofs!ChargesStayBelow` | `NeverOvercharged`, if `MaxActive = 1` |
| `FileSerialProofs!BlobsStay` | `RowsHaveBlobs`, if `MaxActive = 1` and `~Failures` |
| `FileSerialProofs!NamesClashNoOtherWay` | `NamesClashOnlyBy`, if `MaxActive = 1` and `ConflictMode # "overwrite"` |
| `FileSerialProofs!OrphansNoOtherWay`, `SerialInductive` | `OrphansOnlyBy`, `SerialIInv`, if `MaxActive = 1`, `~Failures` and `ConflictMode # "overwrite"` |
| `SessionsProofs!Inductive`, `OneToken` | `IInv`; one valid token per family |
| `SessionsProofs!EndedStaysEnded` | `DeadStaysDead` |
| `SessionsProofs!PasswordChangeEndsSessions` | `PasswordEndsSessions` |
| `SessionsProofs!Refinement` | `Sessions` implements `DeviceSessions` |
| `HashLockProofs!Inductive`, `FatalNeedsWindow` | `IInv`; the one window in which the process dies |
| `ChunkUploadProofs!Inductive` | `IInv` |
| `ChunkUploadProofs!CarefulUploadsAreWhole` | `CarefulIsWhole` |
| `ChunkUploadProofs!CleaningSparesTheYoung` | `YoungSessionsKept` |
| `ChunkUploadProofs!Refinement` | `ChunkUpload` implements `UploadPromise` |
| `ShareLinksProofs!Inductive`, `LimitIsKept` | `IInv`; no share is downloaded more often than its limit |
| `ShareLinksProofs!ViewsCountServed` | `ViewsAreServed`: views are the downloads sent and under way |
| `ShareLinksProofs!Refinement` | `ShareLinks` implements `DownloadBudget` |
| `AttemptsProofs!AuthInductive`, `RetiredSecretsStay` | `AuthIInv`; a retired secret is nowhere any more |
| `AttemptsProofs!GuessesStayBounded` | `GuessesBounded`: wrong answers per window of a counter |
| `ServerProofs!ServerInductive` | `ServerIInv` |
| `ServerProofs!SchemaStaysWhole`, `TornForGood` | what serves has every table; torn migrations stay torn |
| `ServerProofs!FixedSettings`, `ServicesAgree`, `PoolIsThere` | `FixedUntilRestart`, `AgreeWhenIdle`, `PoolOutlivesRequests` |

Assumptions: `TableAssumption`, `ServiceAssumption`, `SessionsAssumption`, `HashLockAssumption`,
`ChunkAssumption`, `SharesAssumption`, `AttemptsAssumption`, `MigrationsAssumption`, `ServerAssumption`,
in the modules that declare the constants: special values lie outside the sets they stand beside, bounds
are numbers, sets that are counted are finite. TLC evaluates them in every run.

File service. `TenantIsolation` is not inductive: a request holds a parent it validated long ago. The
invariant adds what each pending request relies on (`Captured`) in the only form that survives:
`OwnDir(p, u)`, p was inserted once and *if it still exists* it is a directory of u. It survives
because ids are never reused and no statement changes an owner or turns a file into a directory
(`RowsKeepIdentity`, which is proved from the steps first and then used for every request that did
not move). Likewise `KeyHolds(k, h)`: the key holds h or was removed. Each action has a lemma for the
rows, the blobs and the requests it changes; the steps of other requests keep `Captured`. The session
of a chunked upload is one more record that `Captured` speaks of, the oldest of all: `OwnDir` survives
crashes with it.

File service, one request at a time. Here the argument is the other way round: whatever a request has
read *is* still so, because nobody else ran. `SerialStep` proves that with `MaxActive = 1` a step either
leaves the tables alone and starts nothing (`Quiet`) or is the turn of one worker while all others are idle.
`Origin` and `Writer` then name the few actions that lead to each kind of request and that write each
table, so that each property has one lemma for the request a turn leaves (`BlobReads`, `NameReads`,
`TreeReads`, `SumReads`) and one for the rows (`BlobWrites`, `NameWrites`, `TreeWrites`, `UsageWrites`).
What a request has read is a conjunct of `SerialIInv` for each property:

- `BinOnly`: the rows to be purged are deleted ones;
- `BlobsInHand`: the blob to be linked is there and holds the content, a fresh one has no row yet, and a
  blob to be removed has no row but those that go with it. `CountedOnce` turns the count of a key into
  that;
- `NameFree`: a name that was resolved or checked has no live sibling;
- `TreeWhole`, with `LiveDirsHang` and `DeletedAcyclic`: rows go below live directories, and the set
  that a delete, restore or purge gathered has with each row those below it. Since `MoveFile` lets live
  directories form cycles, this is not about trees: `BelowClosed`, `BelowParent` and `BelowOthers`
  prove what the least closed set gives on any graph where a row has one parent, and the invariant that
  live directories hang below live ones and deleted rows lie on no cycle is what keeps the recursive
  query from giving up half way through a tree;
- `SumsRight`: the bytes a request summed are those of its rows, or more than those it really frees
  (`BatchDelete` counts a row once for each tree that it is found in: `CountedCovers`). `Total` counts the
  bytes of a set of rows as a set of pairs, so that sums are cardinalities (`TotalUnion`, `SumChanges`).

The hypotheses are those without which the statement is false, and TLC finds each counterexample on the
instance of `files_serial`. With failures, `CleanRows` leaves rows in the bin whose blobs are removed
all the same, and rows below purged directories. With `overwrite`, an upload over a directory deletes
that row alone and leaves what lies below, and an upload over one of two rows of the same name replaces
the one and clashes with the other. With two requests, `files_restore_purge` shows what happens.
`ChargesStayBelow` and `PurgesFromBin` need nothing but `MaxActive = 1`.

Sessions. `OneTokenPerFamily` needs `RefreshOwnsRow`: a refresh past its conditional UPDATE owns a
row that is still valid for everyone else, and no other refresh owns it. `FamiliesStart` (a family's
first token is in it, and its tokens have one user) rules out that a login's new family meets an old
one and carries the user to the password change. The proofs about steps and the refinement go
through `TableStep`: every step closes sessions, opens one, or rotates one.

Hash locks. That an unlocked mutex is unlocked only in one window needs three facts about pointers:
mutexes never serve two contents (`HashesApart`), a mutex taken out of the map has one goroutine that
will unlock it (`OneUnlocker`), and a free mutex in the map has a waiter (`EntryWanted`).

Chunked uploads. `CarefulIsWhole` needs that a chunk which is acknowledged and not sent again is whole
or gone (`AckedSettled`), hence that a chunk being written has its writer under way
(`ChunksHaveWriters`), and that a careful merge starts from acknowledged chunks (`CarefulMerge`).
`YoungSessionsKept` needs that `InitUpload` has its directory to itself (`SavingAlone`), which holds
because an id is not known to anyone before (`UnbegunUntouched`), and because a fresh directory is
spared. Steps that touch no chunk share two lemmas (`DirStep`, `CompletionStep`). The refinement
(`PromiseStep`) has a lemma for each action: writing a chunk keeps sessions, and so lives, as they are
(`SameSession`, `WritingPromise`); removing a directory closes (`CloseLife`), because nobody is about to
save a session there (`SavingAlone`), which also makes the crash close what was opening; the last chunk
merged maps to `Assemble` by `CarefulIsWhole` after the step.

Shares. `LimitKept` counts the requests that have counted and not yet sent (`UnderWay`); it is
inductive together with the order of a download's steps (`InOrder`): past its count, a download of a
limited share has been counted. One lemma (`LedgerKeepsLimit`) does the arithmetic for every step: the
rows keep their limits, the downloads sent and those under way do not grow beyond the views. For the
refinement each step is shown to sell or use one ticket, offer or withdraw shares, or change none.
`ViewsAreServed` is the same sum as an equation, for shares without a limit too: `InOrder` says as well
that a download past its count which has *not* been counted is one whose share is gone, and a request
that fails after its count puts the share into `spoiled`.

Two-factor secrets. `RetiredStays` needs that a secret is in one place (`OnePlace`): pending, in the
hands of one `EnableTOTP`, or in force. It holds because `EnableTOTP` takes the secret out of the map in
the section that reads it, and because secrets are generated once; all steps that only move a secret
on or drop it share one lemma (`KeepingStep`).

Guesses. The bound is a ledger per key (`GuessLedger`) over `Guessing`, the requests that were counted
and are not compared yet, and `Checked`, those that passed the check of `EnableTOTP` or `DisableTOTP`
and are counted after they were compared. While a window is open, wrong answers and `Guessing` are covered
by the counter but for one of each other request (the ones a right answer forgave); the counter and
`Checked` never exceed the limit by more than the other requests; and the sum of all three is bounded
also when the window ends. A step concerns one key: `GuessStep` is what it may do to that key's ledger,
`OtherKeysRest` that the others stay.

Process. `ServerIInv` has a part for the database (what is recorded was executed, and so was what lies
before the statement in hand), one for where `Run` is (`PhaseSound`) and one for the configuration
(`ConfSound`: during an update the services before `next` have the global one). Each part depends on
few variables, so each action is proved once per part that it disturbs (`SchemaStep`, `DataStep`,
`FlagStep`, `PhaseStep`, `ConfStep`).

Only model-checked: liveness (`CalibrationHeals`, `RequestsEnd`, `WaitersGoOn`, `DirectoriesGo`,
`LinksGo`, `PendingGoes`, `ReloadReaches`, `StopsOnTerm`), which needs ENABLED and fairness. Every
safety invariant and action property of a passing run is a theorem.

## 5. Plan

Order: what loses data first, then what stops the server, then limits and housekeeping.

1. Done: `FileTable`, `FileService` with the rows of chunked uploads, `Sessions`, `HashLock`,
   `ChunkUpload`, `ShareLinks`, `Attempts`, `Migrations`, `Server`, and the abstract `DeviceSessions`,
   `UploadPromise` and `DownloadBudget`.
2. `Thumbnails`: asynchronous completion against delete, purge and copy.
3. `Allow` and `cleanup` of the rate limiter; `Tags`: attach and detach against deletes with cascades.

Proofs to come: `NamesClashOnlyBy` and `OrphansOnlyBy` with `overwrite`, with the
replaced row as one more exception; the tables after a restart, once a crash and what it leaves on disk
(blobs without rows) are stated.

## 6. Not modelled, and why

Search, audit, handlers, router, the stateless middleware, configuration parsing and the web client hold
no state that two steps can disagree about. Registration is one INSERT under a unique key;
`VerifyLoginTOTP` is called by nothing; `Allow` of the rate limiter is one critical section per request.
Thumbnails and tags are in the plan. Of shares, the public page, the lists and the download by a
temporary link read only. Stars change a column that nothing else reads. Image and video decoding is
pure I/O. The contents of files, names and hashes are values compared for equality only.

## 7. Running the checks

    tlc -workers 2 -config files_serial.cfg MCFileService.tla
    tlc -workers 2 -config sessions.cfg Sessions.tla
    tlc -workers 2 -config hash_lock.cfg HashLock.tla
    tlc -workers 2 -config chunks.cfg ChunkUpload.tla
    tlc -workers 2 -config shares.cfg ShareLinks.tla
    tlc -workers 2 -config server.cfg MCServer.tla
    tlapm FileServiceProofs.tla
    tlapm FileSerialProofs.tla
    tlapm SessionsProofs.tla
    tlapm HashLockProofs.tla
    tlapm ChunkUploadProofs.tla
    tlapm ShareLinksProofs.tla
    tlapm AttemptsProofs.tla
    tlapm ServerProofs.tla

Each run ends within three minutes on two workers, each proof within two, `FileSerialProofs` within
five.
