----------------------------- MODULE ShareLinks -----------------------------
(***************************************************************************)
(* Shares and temporary links (internal/service/share.go, store/share.go,  *)
(* handler/share.go, migrations/006, 007): who may download, how often,    *)
(* and what becomes of them when their file is deleted, restored, purged.  *)
(*                                                                         *)
(* A share is identified with its row and its token.  Each statement of a  *)
(* request is a step; a request keeps what its last statement read.  A     *)
(* purge deletes rows of files with FOREIGN_KEY_CHECKS off, so that the    *)
(* cascades of migrations/006 and 007 do not happen.                       *)
(***************************************************************************)
EXTENDS Integers, FiniteSets

CONSTANTS
    Shares,     \* rows of shares and their tokens: random, never used twice
    Links,      \* rows of temp_downloads
    Files,      \* files that can be shared
    Clients,    \* goroutines of HTTP requests
    Limits,     \* values of max_downloads; 0 is no limit
    MaxViews,   \* bound: downloads that a share without a limit is asked for
    Failures    \* may statements fail?

ASSUME SharesAssumption ==
    /\ IsFiniteSet(Clients)
    /\ Limits \subseteq Nat
    /\ MaxViews \in Nat
    /\ Failures \in BOOLEAN

VARIABLES
    file,       \* the row of each file: live, deleted (in the bin), purged
    share,      \* the table shares; what a deleted row held is kept for the properties
    link,       \* the table temp_downloads
    verified,   \* shares for which a verify token is out that is still valid
    req,        \* what each request is doing
    given,      \* how often the file of a share was sent
    spoiled     \* shares whose counts something has gone wrong with

vars == <<file, share, link, verified, req, given, spoiled>>

-----------------------------------------------------------------------------
NoShare == [st |-> "unused"]
ShareRow ==
    [st : {"row", "gone"}, file : Files, secret : BOOLEAN, max : Limits,
     views : Nat, expiry : {"never", "ahead", "past"}]

NoLink == [st |-> "unused"]
LinkRow == [st : {"row", "gone"}, file : Files, past : BOOLEAN]

Idle == [pc |-> "idle"]
Creating ==     \* CreateShare, CreateTempLink: the file was found
    [pc : {"share"}, file : Files, secret : BOOLEAN, max : Limits, expiry : {"never", "ahead"}]
    \cup [pc : {"link"}, file : Files]
Verifying ==    \* the password was right
    [pc : {"sign"}, share : Shares]
Fetching ==     \* a download looks the file up, counts itself, opens the blob
    [pc : {"find", "count", "open"}, share : Shares, proved : BOOLEAN, counted : BOOLEAN]

Requests == {Idle} \cup Creating \cup Verifying \cup Fetching

TypeOK ==
    /\ file \in [Files -> {"live", "deleted", "purged"}]
    /\ share \in [Shares -> {NoShare} \cup ShareRow]
    /\ link \in [Links -> {NoLink} \cup LinkRow]
    /\ verified \subseteq Shares
    /\ req \in [Clients -> Requests]
    /\ given \in [Shares -> Nat]
    /\ spoiled \subseteq Shares

Init ==
    /\ file = [f \in Files |-> "live"]
    /\ share = [s \in Shares |-> NoShare]
    /\ link = [l \in Links |-> NoLink]
    /\ verified = {}
    /\ req = [c \in Clients |-> Idle]
    /\ given = [s \in Shares |-> 0]
    /\ spoiled = {}

Goto(c, r) == req' = [req EXCEPT ![c] = r]
Finish(c) == Goto(c, Idle)

\* ShareByToken finds a row.
Exists(s) == share[s].st = "row"
Issued(s) == share[s].st # "unused"

\* A row of a table with a foreign key to files can be inserted; a connection on
\* which a failed purge left the checks off takes anything.
Referable(f) == file[f] # "purged" \/ Failures

Fetches(c) == req[c].pc \in {"find", "count", "open"}

\* Requests that are counted in view_count and have not sent the file yet.
UnderWay(s) == {c \in Clients : Fetches(c) /\ req[c].share = s /\ req[c].counted}

-----------------------------------------------------------------------------
(* CreateShare, CreateTempLink, DeleteShare *)

CreateShare(c, f) ==
    /\ req[c] = Idle
    /\ file[f] = "live"
    /\ \E secret \in BOOLEAN, max \in Limits, expiry \in {"never", "ahead"} :
        Goto(c, [pc |-> "share", file |-> f, secret |-> secret, max |-> max, expiry |-> expiry])
    /\ UNCHANGED <<file, share, link, verified, given, spoiled>>

\* Mutant: the token depends on the file, so that a deleted share's comes back.
InsertShareAgain(c) ==
    /\ req[c].pc = "share"
    /\ Referable(req[c].file)
    /\ \E s \in Shares :
        /\ ~Exists(s)
        /\ share' = [share EXCEPT ![s] =
            [st |-> "row", file |-> req[c].file, secret |-> req[c].secret,
             max |-> req[c].max, views |-> 0, expiry |-> req[c].expiry]]
        /\ spoiled' = IF file[req[c].file] = "live" THEN spoiled ELSE spoiled \cup {s}
    /\ Finish(c)
    /\ UNCHANGED <<file, link, verified, given>>

InsertShare(c) ==
    /\ req[c].pc = "share"
    /\ Referable(req[c].file)
    /\ \E s \in Shares :
        /\ ~Issued(s)
        /\ share' = [share EXCEPT ![s] =
            [st |-> "row", file |-> req[c].file, secret |-> req[c].secret,
             max |-> req[c].max, views |-> 0, expiry |-> req[c].expiry]]
        /\ spoiled' = IF file[req[c].file] = "live" THEN spoiled ELSE spoiled \cup {s}
    /\ Finish(c)
    /\ UNCHANGED <<file, link, verified, given>>

CreateTempLink(c, f) ==
    /\ req[c] = Idle
    /\ file[f] = "live"
    /\ Goto(c, [pc |-> "link", file |-> f])
    /\ UNCHANGED <<file, share, link, verified, given, spoiled>>

InsertTempDownload(c) ==
    /\ req[c].pc = "link"
    /\ Referable(req[c].file)
    /\ \E l \in Links :
        /\ link[l] = NoLink
        /\ link' = [link EXCEPT ![l] = [st |-> "row", file |-> req[c].file, past |-> FALSE]]
    /\ Finish(c)
    /\ UNCHANGED <<file, share, verified, given, spoiled>>

\* The row is looked up and then deleted; owners and ids never change.
DeleteShare(s) ==
    /\ Exists(s)
    /\ share' = [share EXCEPT ![s].st = "gone"]
    /\ UNCHANGED <<file, link, verified, req, given, spoiled>>

-----------------------------------------------------------------------------
(* VerifySharePassword: neither expiry nor limit matters *)

VerifySharePassword(c, s) ==
    /\ req[c] = Idle
    /\ Exists(s) /\ share[s].secret
    /\ Goto(c, [pc |-> "sign", share |-> s])
    /\ UNCHANGED <<file, share, link, verified, given, spoiled>>

\* The token is handed out if the row of the file is still there, deleted or not.
SignVerifyToken(c) ==
    /\ req[c].pc = "sign"
    /\ LET s == req[c].share
       IN  verified' = IF file[share[s].file] = "purged" THEN verified ELSE verified \cup {s}
    /\ Finish(c)
    /\ UNCHANGED <<file, share, link, given, spoiled>>

VerifyTokenExpires(s) ==
    /\ s \in verified
    /\ verified' = verified \ {s}
    /\ UNCHANGED <<file, share, link, req, given, spoiled>>

-----------------------------------------------------------------------------
(* Downloads: DownloadSharedFile checks, finds the file and then counts;      *)
(* DownloadWithVerifyToken counts and then finds the file                     *)

Fetch(pc, s, proved, counted) ==
    [pc |-> pc, share |-> s, proved |-> proved, counted |-> counted]

\* Bound: a share without a limit is asked for MaxViews downloads.
Wanted(s) == share[s].max = 0 => share[s].views + Cardinality({c \in Clients : Fetches(c)}) < MaxViews

\* The checks of GetShareByToken.
DownloadSharedFile(c, s) ==
    /\ req[c] = Idle
    /\ Exists(s) /\ ~share[s].secret
    /\ share[s].expiry # "past"
    /\ share[s].max > 0 => share[s].views < share[s].max
    /\ Wanted(s)
    /\ Goto(c, Fetch("find", s, FALSE, FALSE))
    /\ UNCHANGED <<file, share, link, verified, given, spoiled>>

DownloadWithVerifyToken(c, s) ==
    /\ req[c] = Idle
    /\ s \in verified
    /\ Exists(s) /\ share[s].expiry # "past"
    /\ Wanted(s)
    /\ Goto(c, Fetch("count", s, TRUE, FALSE))
    /\ UNCHANGED <<file, share, link, verified, given, spoiled>>

\* Mutant: every download is counted after the lookup, those counted before too.
FindFileCountAgain(c) ==
    /\ req[c].pc = "find"
    /\ LET s == req[c].share
       IN  IF file[share[s].file] = "live"
           THEN /\ Goto(c, [req[c] EXCEPT !.pc = "count", !.proved = FALSE])
                /\ UNCHANGED spoiled
           ELSE /\ Finish(c)
                /\ spoiled' = IF req[c].counted THEN spoiled \cup {s} ELSE spoiled
    /\ UNCHANGED <<file, share, link, verified, given>>

\* FileByID and is_deleted.  A request that was counted before is lost here.
FindFile(c) ==
    /\ req[c].pc = "find"
    /\ LET s == req[c].share
       IN  IF file[share[s].file] = "live"
           THEN /\ Goto(c, [req[c] EXCEPT !.pc = IF req[c].proved THEN "open" ELSE "count"])
                /\ UNCHANGED spoiled
           ELSE /\ Finish(c)
                /\ spoiled' = IF req[c].counted THEN spoiled \cup {s} ELSE spoiled
    /\ UNCHANGED <<file, share, link, verified, given>>

\* Mutant: the UPDATE without its condition on view_count.
CountableOver(s) == Exists(s)

\* UPDATE .. WHERE id = ? AND view_count < ?; without a limit the UPDATE has no
\* condition and nobody looks whether it found the row.
Countable(s) == Exists(s) /\ (share[s].max > 0 => share[s].views < share[s].max)

IncrementShareViewCountIfUnderMax(c) ==
    /\ req[c].pc = "count"
    /\ LET s == req[c].share
           next == IF req[c].proved THEN "find" ELSE "open"
       IN  IF Countable(s)
           THEN /\ share' = [share EXCEPT ![s].views = @ + 1]
                /\ Goto(c, Fetch(next, s, req[c].proved, TRUE))
           ELSE /\ IF share[s].max > 0 THEN Finish(c)
                   ELSE Goto(c, Fetch(next, s, req[c].proved, FALSE))
                /\ UNCHANGED share
    /\ UNCHANGED <<file, link, verified, given, spoiled>>

\* OpenFileReader and the answer.
SendFile(c) ==
    /\ req[c].pc = "open"
    /\ given' = [given EXCEPT ![req[c].share] = @ + 1]
    /\ Finish(c)
    /\ UNCHANGED <<file, share, link, verified, spoiled>>

\* The row was purged meanwhile, and the blob is gone.
MissBlob(c) ==
    /\ req[c].pc = "open"
    /\ file[share[req[c].share].file] = "purged"
    /\ spoiled' = spoiled \cup {req[c].share}
    /\ Finish(c)
    /\ UNCHANGED <<file, share, link, verified, given>>

-----------------------------------------------------------------------------
(* The file service *)

SetFile(f, st) ==
    /\ file' = [file EXCEPT ![f] = st]
    /\ UNCHANGED <<verified, req, given, spoiled>>

DeleteFile(f) == file[f] = "live" /\ SetFile(f, "deleted") /\ UNCHANGED <<share, link>>

RestoreFile(f) == file[f] = "deleted" /\ SetFile(f, "live") /\ UNCHANGED <<share, link>>

\* FOREIGN_KEY_CHECKS = 0: the rows that refer to the file stay.
HardDeleteFiles(f) == file[f] # "purged" /\ SetFile(f, "purged") /\ UNCHANGED <<share, link>>

\* The single DELETE that AutoCleanRecycle falls back to, with the cascades.
HardDeleteFile(f) ==
    /\ Failures
    /\ file[f] = "deleted"
    /\ SetFile(f, "purged")
    /\ share' = [s \in Shares |->
        IF Exists(s) /\ share[s].file = f THEN [share[s] EXCEPT !.st = "gone"] ELSE share[s]]
    /\ link' = [l \in Links |->
        IF link[l].st = "row" /\ link[l].file = f THEN [link[l] EXCEPT !.st = "gone"] ELSE link[l]]

-----------------------------------------------------------------------------
(* Time, the hourly job, failures *)

ExpireShare(s) ==
    /\ Exists(s) /\ share[s].expiry = "ahead"
    /\ share' = [share EXCEPT ![s].expiry = "past"]
    /\ UNCHANGED <<file, link, verified, req, given, spoiled>>

LinkPast(l) == link[l].st = "row" /\ link[l].past

ExpireLink(l) ==
    /\ link[l].st = "row" /\ ~link[l].past
    /\ link' = [link EXCEPT ![l].past = TRUE]
    /\ UNCHANGED <<file, share, verified, req, given, spoiled>>

\* Mutant: the job walks from the files, and misses the links of purged ones.
CleanTempDownloadsOfFiles ==
    /\ \E l \in Links : LinkPast(l)
    /\ link' = [l \in Links |->
        IF LinkPast(l) /\ file[link[l].file] # "purged" THEN [link[l] EXCEPT !.st = "gone"] ELSE link[l]]
    /\ UNCHANGED <<file, share, verified, req, given, spoiled>>

CleanExpiredTempDownloads ==
    /\ \E l \in Links : LinkPast(l)
    /\ link' = [l \in Links |-> IF LinkPast(l) THEN [link[l] EXCEPT !.st = "gone"] ELSE link[l]]
    /\ UNCHANGED <<file, share, verified, req, given, spoiled>>

\* The shares that lose a count when the requests of C end.
LosingCount(C) == {s \in Shares : UnderWay(s) \cap C # {}}

Fail(c) ==
    /\ Failures
    /\ req[c] # Idle
    /\ spoiled' = spoiled \cup LosingCount({c})
    /\ Finish(c)
    /\ UNCHANGED <<file, share, link, verified, given>>

\* The UPDATE took effect and its answer is lost: the request fails, the count stays.
LoseAnswer(c) ==
    /\ Failures
    /\ req[c].pc = "count" /\ Countable(req[c].share)
    /\ share' = [share EXCEPT ![req[c].share].views = @ + 1]
    /\ spoiled' = spoiled \cup {req[c].share}
    /\ Finish(c)
    /\ UNCHANGED <<file, link, verified, given>>

\* The process ends; signed tokens stay valid.
Crash ==
    /\ \E c \in Clients : req[c] # Idle
    /\ spoiled' = spoiled \cup LosingCount(Clients)
    /\ req' = [c \in Clients |-> Idle]
    /\ UNCHANGED <<file, share, link, verified, given>>

Request(c) ==
    \/ \E f \in Files : CreateShare(c, f) \/ CreateTempLink(c, f)
    \/ InsertShare(c) \/ InsertTempDownload(c)
    \/ \E s \in Shares :
        \/ VerifySharePassword(c, s)
        \/ DownloadSharedFile(c, s) \/ DownloadWithVerifyToken(c, s)
    \/ SignVerifyToken(c)
    \/ FindFile(c) \/ IncrementShareViewCountIfUnderMax(c)
    \/ SendFile(c) \/ MissBlob(c) \/ Fail(c) \/ LoseAnswer(c)

Next ==
    \/ \E c \in Clients : Request(c)
    \/ \E s \in Shares : DeleteShare(s) \/ ExpireShare(s) \/ VerifyTokenExpires(s)
    \/ \E l \in Links : ExpireLink(l)
    \/ \E f \in Files :
        DeleteFile(f) \/ RestoreFile(f) \/ HardDeleteFiles(f) \/ HardDeleteFile(f)
    \/ CleanExpiredTempDownloads
    \/ Crash

Spec == Init /\ [][Next]_vars

\* The hourly job runs again and again.
FairSpec == Spec /\ WF_vars(CleanExpiredTempDownloads)

-----------------------------------------------------------------------------
(* Properties *)

\* max_downloads (README.md:24): however many downloads pass the check of
\* GetShareByToken at once, the downloads that were sent and those that are
\* going to be are counted, and the count stays within the limit.
LimitKept ==
    \A s \in Shares : (Issued(s) /\ share[s].max > 0) =>
        /\ given[s] + Cardinality(UnderWay(s)) <= share[s].views
        /\ share[s].views <= share[s].max

\* The other direction, and shares without a limit: unless a request failed, or
\* the file was taken away while one was under way, view_count counts each
\* download once, whichever of the two orders of counting it went through.
ViewsAreServed ==
    \A s \in Shares : (Exists(s) /\ s \notin spoiled) =>
        share[s].views = given[s] + Cardinality(UnderWay(s))

\* A download of a limited share is counted before it sends the file, and not
\* before it came to the count; one that came to it and was not counted found the
\* share gone.
InOrder(c) ==
    LET r == req[c]
        first == IF r.proved THEN "count" ELSE "find"
    IN  /\ Issued(r.share)
        /\ r.counted => r.pc = "open" \/ (r.pc = "find" /\ r.proved)
        /\ (r.pc \notin {first, "count"} /\ ~r.counted) =>
              ~Exists(r.share) /\ ~(share[r.share].max > 0)

\* What a request refers to was issued; what was not issued was not used.
Consistent ==
    /\ \A s \in Shares : ~Issued(s) => given[s] = 0 /\ s \notin verified /\ s \notin spoiled
    /\ \A c \in Clients :
        /\ req[c].pc = "sign" => Issued(req[c].share)
        /\ Fetches(c) => InOrder(c)

\* The inductive invariant.
IInv == TypeOK /\ Consistent /\ LimitKept

\* The hourly job (app.go:214) removes every temporary link some time after it
\* expired: those of purged files as well, which no cascade has removed.
LinksGo == \A l \in Links : LinkPast(l) ~> link[l].st = "gone"

offer == [s \in Shares |-> IF Exists(s) THEN "open" ELSE IF Issued(s) THEN "withdrawn" ELSE "none"]
limit == [s \in Shares |-> IF Issued(s) THEN share[s].max ELSE 0]
sold == [s \in Shares |-> IF Issued(s) THEN share[s].views ELSE 0]

Budget == INSTANCE DownloadBudget WITH used <- given

\* What the shares promise: a ticket for every download of a share with a limit,
\* no more tickets than the limit, none after the share is gone, although the
\* check, the count, the lookup and the answer are separate steps.
ImplementsBudget == Budget!Spec
=============================================================================
