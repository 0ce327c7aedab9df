------------------------------ MODULE Attempts ------------------------------
(***************************************************************************)
(* Two-factor secrets and the counters of wrong answers                    *)
(* (internal/service/user.go: Login, GenerateTOTP, EnableTOTP,             *)
(* DisableTOTP, CleanupTOTPState; internal/service/share.go:               *)
(* VerifySharePassword).                                                   *)
(*                                                                         *)
(* The secret in force is in the row of the user.  The secret a user has   *)
(* generated and not confirmed, and the counters, are maps in memory, each *)
(* under a mutex that a request takes several times: each section under a  *)
(* mutex and each statement is a step.  Whether a code or a password is    *)
(* right concerns the request alone, and is decided in the step after.     *)
(***************************************************************************)
EXTENDS Integers, FiniteSets

CONSTANTS
    Accounts,       \* users with two-factor codes
    Addresses,      \* client addresses that try passwords of shares
    Secrets,        \* TOTP secrets: random, never generated twice
    NoSecret,
    Callers,        \* goroutines of HTTP requests
    MaxAttempts     \* 5, and Share.MaxPasswordAttempts

ASSUME AttemptsAssumption ==
    /\ Accounts \cap Addresses = {}
    /\ NoSecret \notin Secrets
    /\ IsFiniteSet(Callers) /\ Callers # {}
    /\ MaxAttempts \in Nat \ {0}

VARIABLES
    secret,     \* users.totp_secret
    pending,    \* svc.pendingTOTP
    tries,      \* svc.totpAttempts and svc.passwordLimiter
    call,       \* what each request is doing
    known,      \* secrets that were generated
    retired,    \* secrets that were in force and no longer are
    wrong       \* wrong answers since the counter last began anew

authVars == <<secret, pending, tries, call, known, retired, wrong>>

Keys == Accounts \cup Addresses

NoTries == [count |-> 0, past |-> TRUE]
Counter == [count : Nat, past : BOOLEAN]   \* past: after resetAt

NoPending == [secret |-> NoSecret, old |-> FALSE]
Entry == [secret : Secrets, old : BOOLEAN]

NoCall == [pc |-> "none"]
Answering ==    \* a code or a password will be compared
    [pc : {"login", "password"}, key : Keys]
Confirming ==   \* EnableTOTP, with the secret it took
    [pc : {"take"}, key : Accounts] \cup [pc : {"confirm", "enable"}, key : Accounts, secret : Secrets]
Disabling == [pc : {"read", "prove", "disable"}, key : Accounts]
Generating == [pc : {"generate"}, key : Accounts]

AuthTypeOK ==
    /\ secret \in [Accounts -> Secrets \cup {NoSecret}]
    /\ pending \in [Accounts -> Entry \cup {NoPending}]
    /\ tries \in [Keys -> Counter]
    /\ call \in [Callers -> {NoCall} \cup Answering \cup Confirming \cup Disabling \cup Generating]
    /\ known \subseteq Secrets
    /\ retired \subseteq Secrets
    /\ wrong \in [Keys -> Nat]

AuthInit ==
    /\ secret = [u \in Accounts |-> NoSecret]
    /\ pending = [u \in Accounts |-> NoPending]
    /\ tries = [k \in Keys |-> NoTries]
    /\ call = [c \in Callers |-> NoCall]
    /\ known = {}
    /\ retired = {}
    /\ wrong = [k \in Keys |-> 0]

Proceed(c, r) == call' = [call EXCEPT ![c] = r]
Return(c) == Proceed(c, NoCall)

SetTries(k, t) == tries' = [tries EXCEPT ![k] = t]
Counted(t) == [t EXCEPT !.count = @ + 1]
AnswerWrong(k) == wrong' = [wrong EXCEPT ![k] = @ + 1]

\* The counter begins anew: a new window, or its entry is deleted.
Renew(k, t) == SetTries(k, t) /\ wrong' = [wrong EXCEPT ![k] = 0]

\* An entry that is not there counts as one whose time is past.
Window == [count |-> 0, past |-> FALSE]
Full(k) == tries[k].count >= MaxAttempts /\ ~tries[k].past

-----------------------------------------------------------------------------
(* Answers that are counted before they are checked: the code of a login and *)
(* the password of a share                                                   *)

\* Mutant: the counter is a copy that is not written back to the map.
CountCopy(c, pc, k) ==
    /\ call[c] = NoCall
    /\ ~Full(k)
    /\ IF tries[k].past THEN Renew(k, Counted(Window)) ELSE UNCHANGED <<tries, wrong>>
    /\ Proceed(c, [pc |-> pc, key |-> k])
    /\ UNCHANGED <<secret, pending, known, retired>>

\* The section that counts; a full counter refuses.
CountAnswer(c, pc, k) ==
    /\ call[c] = NoCall
    /\ ~Full(k)
    /\ IF tries[k].past THEN Renew(k, Counted(Window))
       ELSE SetTries(k, Counted(tries[k])) /\ UNCHANGED wrong
    /\ Proceed(c, [pc |-> pc, key |-> k])
    /\ UNCHANGED <<secret, pending, known, retired>>

\* Login, the password being right.
Login(c, u) == secret[u] # NoSecret /\ CountAnswer(c, "login", u)

VerifySharePassword(c, a) == CountAnswer(c, "password", a)

Answers(c) == call[c].pc \in {"login", "password"}

\* A right answer deletes the counter, with what others have counted since.
AnswerRight(c) ==
    /\ Answers(c)
    /\ Renew(call[c].key, NoTries)
    /\ Return(c)
    /\ UNCHANGED <<secret, pending, known, retired>>

AnsweredWrong(c) ==
    /\ Answers(c)
    /\ AnswerWrong(call[c].key)
    /\ Return(c)
    /\ UNCHANGED <<secret, pending, tries, known, retired>>

-----------------------------------------------------------------------------
(* GenerateTOTP *)

GenerateTOTP(c, u) ==
    /\ call[c] = NoCall
    /\ secret[u] = NoSecret
    /\ Proceed(c, [pc |-> "generate", key |-> u])
    /\ UNCHANGED <<secret, pending, tries, known, retired, wrong>>

\* Whatever became of the user's secret meanwhile.
StorePending(c) ==
    /\ call[c].pc = "generate"
    /\ \E k \in Secrets \ known :
        /\ pending' = [pending EXCEPT ![call[c].key] = [secret |-> k, old |-> FALSE]]
        /\ known' = known \cup {k}
    /\ Return(c)
    /\ UNCHANGED <<secret, tries, retired, wrong>>

-----------------------------------------------------------------------------
(* EnableTOTP, DisableTOTP: the counter is checked first and counted last *)

checkTOTPRateLimit(u) ==
    /\ ~Full(u)
    /\ IF tries[u].past THEN Renew(u, Window) ELSE UNCHANGED <<tries, wrong>>

\* An entry that was deleted meanwhile is made again, with resetAt zero.
recordTOTPAttempt(u) == SetTries(u, Counted(tries[u])) /\ AnswerWrong(u)

EnableTOTP(c, u) ==
    /\ call[c] = NoCall
    /\ checkTOTPRateLimit(u)
    /\ Proceed(c, [pc |-> "take", key |-> u])
    /\ UNCHANGED <<secret, pending, known, retired>>

\* Mutant: the secret is deleted only once it is in force.
TakeKeeping(c) ==
    /\ call[c].pc = "take"
    /\ LET u == call[c].key
       IN  IF pending[u] = NoPending THEN Return(c)
           ELSE Proceed(c, [pc |-> "confirm", key |-> u, secret |-> pending[u].secret])
    /\ UNCHANGED <<secret, pending, tries, known, retired, wrong>>

TakePending(c) ==
    /\ call[c].pc = "take"
    /\ LET u == call[c].key
       IN  /\ IF pending[u] = NoPending THEN Return(c)
              ELSE Proceed(c, [pc |-> "confirm", key |-> u, secret |-> pending[u].secret])
           /\ pending' = [pending EXCEPT ![u] = NoPending]
    /\ UNCHANGED <<secret, tries, known, retired, wrong>>

DisableTOTP(c, u) ==
    /\ call[c] = NoCall
    /\ checkTOTPRateLimit(u)
    /\ Proceed(c, [pc |-> "read", key |-> u])
    /\ UNCHANGED <<secret, pending, known, retired>>

UserTOTPSecret(c) ==
    /\ call[c].pc = "read"
    /\ IF secret[call[c].key] = NoSecret THEN Return(c) ELSE Proceed(c, [call[c] EXCEPT !.pc = "prove"])
    /\ UNCHANGED <<secret, pending, tries, known, retired, wrong>>

CodeWrong(c) ==
    /\ call[c].pc \in {"confirm", "prove"}
    /\ recordTOTPAttempt(call[c].key)
    /\ Return(c)
    /\ UNCHANGED <<secret, pending, known, retired>>

\* resetTOTPAttempts
CodeRight(c) ==
    /\ call[c].pc \in {"confirm", "prove"}
    /\ Renew(call[c].key, NoTries)
    /\ Proceed(c, [call[c] EXCEPT !.pc = IF @ = "confirm" THEN "enable" ELSE "disable"])
    /\ UNCHANGED <<secret, pending, known, retired>>

SetTOTPSecret(c) ==
    /\ call[c].pc \in {"enable", "disable"}
    /\ LET u == call[c].key
       IN  /\ secret' = [secret EXCEPT ![u] = IF call[c].pc = "enable" THEN call[c].secret ELSE NoSecret]
           /\ retired' = (retired \cup {secret[u]}) \ {NoSecret}
    /\ Return(c)
    /\ UNCHANGED <<pending, tries, known, wrong>>

-----------------------------------------------------------------------------
(* Time, the hourly job, failures *)

\* The 15 minutes of a counter pass; an entry that is not there has no time.
WindowEnds(k) ==
    /\ ~tries[k].past
    /\ SetTries(k, [tries[k] EXCEPT !.past = TRUE])
    /\ UNCHANGED <<secret, pending, call, known, retired, wrong>>

\* 30 minutes after it was generated.
PendingAges(u) ==
    /\ pending[u] # NoPending /\ ~pending[u].old
    /\ pending' = [pending EXCEPT ![u].old = TRUE]
    /\ UNCHANGED <<secret, tries, call, known, retired, wrong>>

\* Counters that are past their time and full go; others stay until they are used.
Worn(k) == k \in Accounts /\ tries[k].past /\ tries[k].count >= MaxAttempts

\* Mutant: the job deletes the secrets of the users whose counters it deletes.
CleanupWorn ==
    /\ pending' = [u \in Accounts |-> IF Worn(u) THEN NoPending ELSE pending[u]]
    /\ tries' = [k \in Keys |-> IF Worn(k) THEN NoTries ELSE tries[k]]
    /\ wrong' = [k \in Keys |-> IF Worn(k) THEN 0 ELSE wrong[k]]
    /\ UNCHANGED <<secret, call, known, retired>>

CleanupTOTPState ==
    /\ pending' = [u \in Accounts |-> IF pending[u].old THEN NoPending ELSE pending[u]]
    /\ tries' = [k \in Keys |-> IF Worn(k) THEN NoTries ELSE tries[k]]
    /\ wrong' = [k \in Keys |-> IF Worn(k) THEN 0 ELSE wrong[k]]
    /\ UNCHANGED <<secret, call, known, retired>>

\* A statement fails, or finds no such share or no password of it: the request
\* ends where it is, counted as it may be.
StatementFails(c) ==
    /\ call[c].pc \in {"read", "enable", "disable", "password"}
    /\ Return(c)
    /\ UNCHANGED <<secret, pending, tries, known, retired, wrong>>

\* The process ends, and the maps with it.
Restart ==
    /\ pending' = [u \in Accounts |-> NoPending]
    /\ tries' = [k \in Keys |-> NoTries]
    /\ wrong' = [k \in Keys |-> 0]
    /\ call' = [c \in Callers |-> NoCall]
    /\ UNCHANGED <<secret, known, retired>>

Call(c) ==
    \/ \E u \in Accounts : Login(c, u) \/ GenerateTOTP(c, u) \/ EnableTOTP(c, u) \/ DisableTOTP(c, u)
    \/ \E a \in Addresses : VerifySharePassword(c, a)
    \/ AnswerRight(c) \/ AnsweredWrong(c)
    \/ StorePending(c)
    \/ TakePending(c) \/ UserTOTPSecret(c) \/ CodeWrong(c) \/ CodeRight(c) \/ SetTOTPSecret(c)
    \/ StatementFails(c)

AuthNext ==
    \/ \E c \in Callers : Call(c)
    \/ \E k \in Keys : WindowEnds(k)
    \/ \E u \in Accounts : PendingAges(u)
    \/ CleanupTOTPState
    \/ Restart

AuthSpec == AuthInit /\ [][AuthNext]_authVars

\* The hourly job runs again and again.
AuthFairSpec == AuthSpec /\ WF_authVars(CleanupTOTPState)

-----------------------------------------------------------------------------
(* Properties *)

\* Between two times its counter begins anew, the wrong answers to a key exceed
\* the limit only by what other requests had under way: one for each that was
\* counted in a counter that is deleted since, one for each that passed the check
\* of EnableTOTP or DisableTOTP before the counter was full.
Others == Cardinality(Callers) - 1
GuessesBounded ==
    /\ \A u \in Accounts : wrong[u] <= MaxAttempts + 2 * Others
    /\ \A a \in Addresses : wrong[a] <= MaxAttempts + Others

Pends(u, k) == pending[u].secret = k
Holds(c, k) == call[c].pc \in {"confirm", "enable"} /\ call[c].secret = k
InForce(u, k) == secret[u] = k
Somewhere(k) == (\E u \in Accounts : Pends(u, k) \/ InForce(u, k)) \/ \E c \in Callers : Holds(c, k)

\* A secret is in one place: pending, in the hands of one EnableTOTP, or in force.
OnePlace ==
    \A k \in Secrets :
        /\ \A u, v \in Accounts :
            /\ Pends(u, k) /\ Pends(v, k) => u = v
            /\ InForce(u, k) /\ InForce(v, k) => u = v
            /\ ~(Pends(u, k) /\ InForce(v, k))
        /\ \A c, d \in Callers : Holds(c, k) /\ Holds(d, k) => c = d
        /\ \A c \in Callers, u \in Accounts : Holds(c, k) => ~Pends(u, k) /\ ~InForce(u, k)

\* A secret that was replaced or disabled never comes back, nor can it be confirmed
\* again, however many requests confirmed it, or disabled it, at once.
RetiredStays == \A k \in retired : ~Somewhere(k)

\* Why both hold: a secret that is anywhere, or was, was generated.
SecretsInv ==
    /\ AuthTypeOK
    /\ OnePlace
    /\ RetiredStays
    /\ \A k \in Secrets : Somewhere(k) \/ k \in retired => k \in known

\* Requests whose answer to k is counted already, and those that passed the
\* check of EnableTOTP or DisableTOTP and are counted if their code is wrong.
Guessing(k) == {c \in Callers : Answers(c) /\ call[c].key = k}
Checked(k) == {c \in Callers : call[c].pc \in {"take", "read", "confirm", "prove"} /\ call[c].key = k}

\* By how much a counter can exceed the limit: only codes are counted last.
Overrun(k) == IF k \in Accounts THEN Others ELSE 0

\* Why the guesses are bounded: while a window is open, wrong answers and those
\* that may become one are in the counter, but for the other requests; the
\* counter has room for what may still be counted; and once the window is over,
\* wrong answers come only from what was under way.
GuessLedger ==
    \A k \in Keys :
        /\ ~tries[k].past => wrong[k] + Cardinality(Guessing(k)) <= tries[k].count + Others
        /\ tries[k].count + Cardinality(Checked(k)) <= MaxAttempts + Overrun(k)
        /\ wrong[k] + Cardinality(Guessing(k)) + Cardinality(Checked(k)) <= MaxAttempts + Others + Overrun(k)

\* The inductive invariant.
AuthIInv == SecretsInv /\ GuessLedger

\* A secret that nobody confirmed is forgotten some time after its 30 minutes.
PendingGoes == \A u \in Accounts : pending[u].old ~> ~pending[u].old
=============================================================================
