------------------------------ MODULE Sessions ------------------------------
(***************************************************************************)
(* Logins, refresh tokens and passwords (internal/service/user.go,         *)
(* internal/store/user.go, migrations/001, 002) as concurrent requests run *)
(* them over the pool of database connections.                             *)
(*                                                                         *)
(* A refresh token is identified with its hash and its row; a family with  *)
(* the token it started with, of which family_id is a prefix; a password   *)
(* with its hash.  A statement that waits for a row lock holds the         *)
(* connection it waits on; locks are derived from the open transactions.   *)
(***************************************************************************)
EXTENDS Integers, FiniteSets

CONSTANTS
    Users,
    Tokens,     \* refresh tokens: random, so a token is never generated twice
    NoToken,    \* no token (used by the promise of DeviceSessions)
    Passwords,
    Clients,    \* goroutines of HTTP requests
    MaxConns,   \* database.max_open_conns
    Expiring,   \* bound: the tokens that may outlive refresh_expire
    Failures    \* may statements of the database fail?

ASSUME SessionsAssumption ==
    /\ NoToken \notin Tokens
    /\ IsFiniteSet(Clients) /\ IsFiniteSet(Tokens)
    /\ MaxConns \in Nat \ {0}
    /\ Expiring \subseteq Tokens
    /\ Failures \in BOOLEAN

VARIABLES
    tokens,     \* the refresh_tokens table
    password,   \* users.password_hash
    req         \* what each request is doing

vars == <<tokens, password, req>>

-----------------------------------------------------------------------------
NoRow == [st : {"unused"}]
Row == [st : {"valid", "revoked"}, user : Users, family : Tokens, expired : BOOLEAN]

Idle == [pc |-> "idle", conn |-> FALSE]

\* `conn`: the request holds a connection, for its transaction or a statement.
Refreshing ==   \* revoke the old token, read the user, insert the successor
    [pc : {"rotate", "user", "insert"}, conn : BOOLEAN, token : Tokens]
Logging ==      \* Login compared the password; Logout found the token
    [pc : {"login"}, conn : BOOLEAN, user : Users]
    \cup [pc : {"logout"}, conn : BOOLEAN, token : Tokens]
Closing ==      \* a revoked token came back, or a device is logged out
    [pc : {"reuse", "device"}, conn : BOOLEAN, family : Tokens]
Changing ==     \* ChangePassword compared the old password, then updated it
    [pc : {"change", "revoke"}, conn : BOOLEAN, user : Users, new : Passwords]

Request == {Idle} \cup Refreshing \cup Logging \cup Closing \cup Changing

TypeOK ==
    /\ tokens \in [Tokens -> NoRow \cup Row]
    /\ password \in [Users -> Passwords]
    /\ req \in [Clients -> Request]

Init ==
    /\ tokens = [t \in Tokens |-> [st |-> "unused"]]
    /\ password \in [Users -> Passwords]
    /\ req = [c \in Clients |-> Idle]

Issued(t) == tokens[t].st # "unused"
Valid(t)  == tokens[t].st = "valid"

Goto(c, r) == req' = [req EXCEPT ![c] = r]
Finish(c) == Goto(c, Idle)

-----------------------------------------------------------------------------
(* Connections and row locks *)

InUse == Cardinality({c \in Clients : req[c].conn})

\* A plain read borrows a connection for as long as it lasts.
ConnFree == InUse < MaxConns

\* BeginTx, or the first half of a statement: a connection is taken, whatever
\* the request will wait for on it.
Connect(c) ==
    /\ req[c].pc # "idle" /\ ~req[c].conn
    /\ ConnFree
    /\ Goto(c, [req[c] EXCEPT !.conn = TRUE])
    /\ UNCHANGED <<tokens, password>>

\* A refresh holds the row of the token it revoked until it commits.
RowLocked(t) ==
    \E d \in Clients : req[d].pc \in {"user", "insert"} /\ req[d].token = t

\* A password change holds the user's row; inserting a token needs it too, for
\* its foreign key.
UserLocked(u) == \E d \in Clients : req[d].pc = "revoke" /\ req[d].user = u

TokensOf(u)  == {t \in Tokens : Issued(t) /\ tokens[t].user = u}
FamilyOf(f)  == {t \in Tokens : Issued(t) /\ tokens[t].family = f}

\* UPDATE refresh_tokens SET revoked = 1 for a set of rows.
Revoked(S) ==
    [t \in Tokens |-> IF t \in S THEN [tokens[t] EXCEPT !.st = "revoked"] ELSE tokens[t]]

NewRow(u, f) == [st |-> "valid", user |-> u, family |-> f, expired |-> FALSE]

\* Bound: a request that will insert a token starts only if one is left for it.
TokensLeft ==
    Cardinality({c \in Clients : req[c].pc \in {"login", "rotate", "user", "insert"}})
        < Cardinality({t \in Tokens : ~Issued(t)})

-----------------------------------------------------------------------------
(* Login *)

\* The password is right (and the one-time code, if any): what fails changes
\* nothing here.
Login(c, u) ==
    /\ req[c] = Idle
    /\ ConnFree
    /\ TokensLeft
    /\ Goto(c, [pc |-> "login", conn |-> FALSE, user |-> u])
    /\ UNCHANGED <<tokens, password>>

\* issueTokens: a new token starts a family of its own.
IssueTokens(c) ==
    /\ req[c].pc = "login" /\ req[c].conn
    /\ ~UserLocked(req[c].user)
    /\ \E t \in Tokens :
        /\ ~Issued(t)
        /\ tokens' = [tokens EXCEPT ![t] = NewRow(req[c].user, t)]
    /\ Finish(c)
    /\ UNCHANGED password

-----------------------------------------------------------------------------
(* RefreshAccessToken *)

\* The lookup: a revoked token closes its family, an expired one is refused.
RefreshAccessToken(c, t) ==
    /\ req[c] = Idle
    /\ ConnFree
    /\ \/ /\ tokens[t].st = "revoked"
          /\ Goto(c, [pc |-> "reuse", conn |-> FALSE, family |-> tokens[t].family])
       \/ /\ Valid(t) /\ ~tokens[t].expired
          /\ TokensLeft
          /\ Goto(c, [pc |-> "rotate", conn |-> FALSE, token |-> t])
    /\ UNCHANGED <<tokens, password>>

RevokeTokenFamily(c) ==
    /\ req[c].pc = "reuse" /\ req[c].conn
    /\ \A t \in FamilyOf(req[c].family) : ~RowLocked(t)
    /\ tokens' = Revoked(FamilyOf(req[c].family))
    /\ Finish(c)
    /\ UNCHANGED password

\* Mutant: no `AND revoked = 0`, so a revoked row is updated as well.
RevokeAny(c) ==
    /\ req[c].pc = "rotate" /\ req[c].conn
    /\ ~RowLocked(req[c].token)
    /\ Goto(c, [req[c] EXCEPT !.pc = "user"])
    /\ UNCHANGED <<tokens, password>>

\* Mutant: the error path forgets to roll back.
RevokeLeaking(c) ==
    /\ req[c].pc = "rotate" /\ req[c].conn
    /\ ~RowLocked(req[c].token)
    /\ \/ Valid(req[c].token) /\ Goto(c, [req[c] EXCEPT !.pc = "user"])
       \/ ~Valid(req[c].token) /\ Goto(c, [Idle EXCEPT !.conn = TRUE])
    /\ UNCHANGED <<tokens, password>>

\* The conditional update, once the row is free.  Its new value stays with the
\* transaction until the commit; if someone else revoked the row first, the
\* request ends.
RevokeRefreshToken(c) ==
    /\ req[c].pc = "rotate" /\ req[c].conn
    /\ ~RowLocked(req[c].token)
    /\ \/ Valid(req[c].token) /\ Goto(c, [req[c] EXCEPT !.pc = "user"])
       \/ ~Valid(req[c].token) /\ Finish(c)
    /\ UNCHANGED <<tokens, password>>

\* UserByID is asked of the pool, not of the transaction: a second connection.
ReadUser(c) ==
    /\ req[c].pc = "user"
    /\ ConnFree
    /\ Goto(c, [req[c] EXCEPT !.pc = "insert"])
    /\ UNCHANGED <<tokens, password>>

\* INSERT and COMMIT: the old token is revoked and its successor valid at once.
CommitRefresh(c) ==
    /\ req[c].pc = "insert"
    /\ LET old == req[c].token
           row == tokens[old]
       IN  /\ ~UserLocked(row.user)
           /\ \E t \in Tokens :
                /\ ~Issued(t)
                /\ tokens' = [Revoked({old}) EXCEPT ![t] = NewRow(row.user, row.family)]
    /\ Finish(c)
    /\ UNCHANGED password

-----------------------------------------------------------------------------
(* Logout and RevokeDeviceFamily *)

Logout(c, t) ==
    /\ req[c] = Idle
    /\ ConnFree
    /\ Issued(t)
    /\ Goto(c, [pc |-> "logout", conn |-> FALSE, token |-> t])
    /\ UNCHANGED <<tokens, password>>

\* A row already revoked is left as it is, with an error.
RevokeOne(c) ==
    /\ req[c].pc = "logout" /\ req[c].conn
    /\ ~RowLocked(req[c].token)
    /\ tokens' = Revoked({req[c].token})
    /\ Finish(c)
    /\ UNCHANGED password

\* A device of the user, as DistinctDeviceFamilies lists them.
RevokeDevice(c, f) ==
    /\ req[c] = Idle
    /\ FamilyOf(f) # {}
    /\ Goto(c, [pc |-> "device", conn |-> FALSE, family |-> f])
    /\ UNCHANGED <<tokens, password>>

RevokeDeviceFamily(c) ==
    /\ req[c].pc = "device" /\ req[c].conn
    /\ \A t \in FamilyOf(req[c].family) : ~RowLocked(t)
    /\ tokens' = Revoked(FamilyOf(req[c].family))
    /\ Finish(c)
    /\ UNCHANGED password

-----------------------------------------------------------------------------
(* ChangePassword *)

\* The old password is compared outside the transaction.
ChangePassword(c, u, new) ==
    /\ req[c] = Idle
    /\ ConnFree
    /\ Goto(c, [pc |-> "change", conn |-> FALSE, user |-> u, new |-> new])
    /\ UNCHANGED <<tokens, password>>

UpdateUserPassword(c) ==
    /\ req[c].pc = "change" /\ req[c].conn
    /\ ~UserLocked(req[c].user)
    /\ Goto(c, [req[c] EXCEPT !.pc = "revoke"])
    /\ UNCHANGED <<tokens, password>>

\* Mutant: rows locked by a refresh are skipped.
RevokeUnlocked(c) ==
    /\ req[c].pc = "revoke"
    /\ tokens' = Revoked({t \in TokensOf(req[c].user) : ~RowLocked(t)})
    /\ password' = [password EXCEPT ![req[c].user] = req[c].new]
    /\ Finish(c)

\* RevokeUserTokens and COMMIT, once no refresh holds a token of the user.
RevokeUserTokens(c) ==
    /\ req[c].pc = "revoke"
    /\ \A t \in TokensOf(req[c].user) : ~RowLocked(t)
    /\ tokens' = Revoked(TokensOf(req[c].user))
    /\ password' = [password EXCEPT ![req[c].user] = req[c].new]
    /\ Finish(c)

-----------------------------------------------------------------------------
(* Time and failures *)

Expire(t) ==
    /\ Issued(t)
    /\ tokens' = [tokens EXCEPT ![t].expired = TRUE]
    /\ UNCHANGED <<password, req>>

\* InnoDB ends every wait for a row lock: a deadlock makes a victim, and
\* innodb_lock_wait_timeout passes.  No wait for a connection ends that way.
Waiting(c) ==
    LET r == req[c]
    IN  \/ r.pc \in {"rotate", "logout"} /\ RowLocked(r.token)
        \/ r.pc \in {"reuse", "device"} /\ \E t \in FamilyOf(r.family) : RowLocked(t)
        \/ r.pc = "insert" /\ UserLocked(tokens[r.token].user)
        \/ r.pc \in {"login", "change"} /\ UserLocked(r.user)
        \/ r.pc = "revoke" /\ \E t \in TokensOf(r.user) : RowLocked(t)

\* A statement fails: what its transaction did is rolled back.
Fail(c) ==
    /\ req[c].pc # "idle"
    /\ Failures \/ (req[c].conn /\ Waiting(c))
    /\ Finish(c)
    /\ UNCHANGED <<tokens, password>>

Crash ==
    /\ \E c \in Clients : req[c] # Idle
    /\ req' = [c \in Clients |-> Idle]
    /\ UNCHANGED <<tokens, password>>

-----------------------------------------------------------------------------
Start(c) ==
    \/ \E u \in Users : Login(c, u) \/ \E p \in Passwords : ChangePassword(c, u, p)
    \/ \E t \in Tokens : RefreshAccessToken(c, t) \/ Logout(c, t) \/ RevokeDevice(c, t)

Step(c) ==
    \/ Connect(c)
    \/ IssueTokens(c)
    \/ RevokeTokenFamily(c) \/ RevokeRefreshToken(c) \/ ReadUser(c) \/ CommitRefresh(c)
    \/ RevokeOne(c) \/ RevokeDeviceFamily(c)
    \/ UpdateUserPassword(c) \/ RevokeUserTokens(c)

Proceed(c) == Step(c) \/ Fail(c)

Next ==
    \/ \E c \in Clients : Start(c) \/ Proceed(c)
    \/ \E t \in Expiring : Expire(t)
    \/ Crash

Spec == Init /\ [][Next]_vars

\* Goroutines run on; a freed connection goes to a random waiter of the pool
\* and a row lock to a waiter of InnoDB's queue, so none is passed over for ever.
\* Of the failures only the end of a wait for a row is bound to come.
WaitEnds(c) == req[c].conn /\ Waiting(c) /\ Fail(c)
FairSpec == Spec /\ \A c \in Clients : SF_vars(Step(c) \/ WaitEnds(c))

-----------------------------------------------------------------------------
Dead(f) == FamilyOf(f) # {} /\ \A t \in FamilyOf(f) : ~Valid(t)

\* A session lives on one token at a time: two refreshes of one token never
\* both succeed.
OneTokenPerFamily ==
    \A s, t \in Tokens : (Valid(s) /\ Valid(t) /\ tokens[s].family = tokens[t].family) => s = t

\* A session that was logged out, revoked, or closed because an old token came
\* back stays closed: no refresh under way brings it back to life.
DeadStaysDead == [][\A f \in Tokens : Dead(f) => Dead(f)']_vars

\* A password change ends every session the user has at that moment, those
\* being refreshed included.  (A login past its comparison opens a new one.)
PasswordEndsSessions ==
    [][\A f \in Tokens :
          (FamilyOf(f) # {} /\ password'[tokens[f].user] # password[tokens[f].user])
              => Dead(f)']_vars

\* The token a family started with is in it, and its tokens have one user.
FamiliesStart ==
    \A t \in Tokens : Issued(t) =>
        LET f == tokens[t].family
        IN  Issued(f) /\ tokens[f].family = f /\ tokens[f].user = tokens[t].user

Rotating(c) == req[c].pc \in {"user", "insert"}

\* A refresh past its conditional update owns a row, which stays valid.
RefreshOwnsRow ==
    \A c \in Clients : Rotating(c) =>
        /\ Valid(req[c].token)
        /\ \A d \in Clients : (Rotating(d) /\ req[d].token = req[c].token) => c = d

\* A token found by a request is in the table from then on.
FoundIsIssued ==
    \A c \in Clients : req[c].pc \in {"rotate", "logout"} => Issued(req[c].token)

\* The inductive invariant behind OneTokenPerFamily and the properties of steps
\* above: what keeps refreshes of one family apart, from the conditional
\* update of the old token to the commit of the new one.
IInv == TypeOK /\ OneTokenPerFamily /\ FamiliesStart /\ RefreshOwnsRow /\ FoundIsIssued

\* Every connection is held by a refresh that waits for a second one.
PoolHeld ==
    /\ \A c \in Clients : req[c].conn => req[c].pc = "user"
    /\ InUse = MaxConns

\* Every request ends, deadlocks of row locks notwithstanding, or the pool is
\* exhausted by refreshes: the one way in which requests wait for ever.
RequestsEnd == \A c \in Clients : (req[c].pc # "idle") ~> (req[c].pc = "idle" \/ PoolHeld)

-----------------------------------------------------------------------------
(* Refinement *)

current ==
    [f \in Tokens |->
        IF \E t \in FamilyOf(f) : Valid(t)
        THEN CHOOSE t \in FamilyOf(f) : Valid(t)
        ELSE NoToken]

Promise == INSTANCE DeviceSessions WITH
    opened <- {t \in Tokens : Issued(t) /\ tokens[t].family = t},
    issued <- {t \in Tokens : Issued(t)}

\* Clients of the API see sessions that open, rotate and close.
ImplementsPromise == Promise!Spec
=============================================================================
