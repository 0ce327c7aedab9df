--------------------------- MODULE SessionsProofs ---------------------------
(***************************************************************************)
(* Theorems about Sessions, for any numbers of users, tokens, requests and *)
(* connections.                                                            *)
(***************************************************************************)
EXTENDS Sessions, TLAPS

USE DEF Issued, Valid, Goto, Finish

-----------------------------------------------------------------------------
(* Types *)

LEMMA IdleType == Idle \in Request
BY DEF Idle, Request

LEMMA ConnectType ==
    ASSUME NEW r \in Request, r.pc # "idle"
    PROVE  [r EXCEPT !.conn = TRUE] \in Request
<1>1. CASE r \in Refreshing
    BY <1>1 DEF Request, Refreshing
<1>2. CASE r \in Logging
    BY <1>2 DEF Request, Logging
<1>3. CASE r \in Closing
    BY <1>3 DEF Request, Closing
<1>4. CASE r \in Changing
    BY <1>4 DEF Request, Changing
<1> QED
    BY <1>1, <1>2, <1>3, <1>4 DEF Request, Idle

\* What the fields of a request are, by the place it has reached.
LEMMA RequestFields ==
    ASSUME NEW r \in Request
    PROVE  /\ r.pc \in {"rotate", "user", "insert"} => r \in Refreshing
           /\ r.pc \in {"login", "logout"} => r \in Logging
           /\ r.pc \in {"rotate", "user", "insert", "logout"} => r.token \in Tokens
           /\ r.pc \in {"reuse", "device"} => r \in Closing /\ r.family \in Tokens
           /\ r.pc \in {"change", "revoke"} => r \in Changing /\ r.new \in Passwords
           /\ r.pc \in {"login", "change", "revoke"} => r.user \in Users
BY DEF Request, Idle, Refreshing, Logging, Closing, Changing

LEMMA GotoType ==
    ASSUME TypeOK, NEW c \in Clients, NEW r \in Request, Goto(c, r)
    PROVE  req' \in [Clients -> Request]
BY DEF TypeOK

LEMMA RevokedType ==
    ASSUME TypeOK, NEW S, \A t \in S \cap Tokens : Issued(t)
    PROVE  Revoked(S) \in [Tokens -> NoRow \cup Row]
<1> SUFFICES ASSUME NEW t \in Tokens
             PROVE  Revoked(S)[t] \in NoRow \cup Row
    BY DEF Revoked
<1>1. CASE t \in S
    <2>1. tokens[t] \in Row
        BY <1>1 DEF TypeOK, NoRow, Row
    <2> QED
        BY <1>1, <2>1 DEF Revoked, Row
<1>2. CASE t \notin S
    BY <1>2 DEF Revoked, TypeOK
<1> QED
    BY <1>1, <1>2

\* A token in the table has a row's fields.
LEMMA IssuedRow ==
    ASSUME TypeOK, NEW t \in Tokens, Issued(t)
    PROVE  tokens[t] \in Row
BY DEF TypeOK, NoRow, Row

\* Each row, before and after some rows are revoked.
LEMMA RevokedRow ==
    ASSUME TypeOK, NEW S, \A t \in S \cap Tokens : Issued(t), tokens' = Revoked(S),
           NEW t \in Tokens
    PROVE  /\ Issued(t)' <=> Issued(t)
           /\ Issued(t) => tokens'[t].user = tokens[t].user
           /\ Issued(t) => tokens'[t].family = tokens[t].family
           /\ t \in S => ~Valid(t)'
           /\ t \notin S => tokens'[t] = tokens[t]
           /\ Valid(t)' => Valid(t)
<1>1. CASE t \in S
    <2>1. tokens[t] \in Row
        BY <1>1, IssuedRow
    <2>2. tokens'[t] = [tokens[t] EXCEPT !.st = "revoked"]
        BY <1>1 DEF Revoked
    <2> QED
        BY <1>1, <2>1, <2>2 DEF Row
<1>2. CASE t \notin S
    BY <1>2 DEF Revoked
<1> QED
    BY <1>1, <1>2

-----------------------------------------------------------------------------
(* The inductive invariant *)

\* A request that goes where no row is held, with a token of the table if it
\* has one, while the table stays as it is.
LEMMA StepAside ==
    ASSUME IInv, NEW c \in Clients, NEW r \in Request, Goto(c, r),
           r.pc \notin {"user", "insert"},
           r.pc \in {"rotate", "logout"} => Issued(r.token),
           UNCHANGED <<tokens, password>>
    PROVE  IInv'
<1>1. TypeOK'
    BY GotoType DEF IInv, TypeOK
<1>2. /\ req'[c] = r
      /\ \A d \in Clients : d # c => req'[d] = req[d]
    BY DEF IInv, TypeOK
<1>3. OneTokenPerFamily' /\ FamiliesStart'
    BY DEF IInv, OneTokenPerFamily, FamiliesStart
<1>4. RefreshOwnsRow'
    BY <1>2 DEF IInv, RefreshOwnsRow, Rotating
<1>5. FoundIsIssued'
    BY <1>2 DEF IInv, FoundIsIssued
<1> QED
    BY <1>1, <1>3, <1>4, <1>5 DEF IInv

\* A request that stays with its token, or takes a row that is free.
LEMMA StepForward ==
    ASSUME IInv, NEW c \in Clients, NEW r \in Request, Goto(c, r),
           r.pc \in {"rotate", "logout", "user", "insert"} =>
               req[c].pc \in {"rotate", "logout", "user", "insert"} /\ r.token = req[c].token,
           r.pc \in {"rotate", "logout"} => req[c].pc \in {"rotate", "logout"},
           r.pc \in {"user", "insert"} =>
               Rotating(c) \/ (Valid(r.token) /\ ~RowLocked(r.token)),
           UNCHANGED <<tokens, password>>
    PROVE  IInv'
<1>1. TypeOK'
    BY GotoType DEF IInv, TypeOK
<1>2. /\ req'[c] = r
      /\ \A d \in Clients : d # c => req'[d] = req[d]
    BY DEF IInv, TypeOK
<1>3. OneTokenPerFamily' /\ FamiliesStart'
    BY DEF IInv, OneTokenPerFamily, FamiliesStart
<1>4. RefreshOwnsRow'
    BY <1>2 DEF IInv, RefreshOwnsRow, Rotating, RowLocked
<1>5. FoundIsIssued'
    BY <1>2 DEF IInv, FoundIsIssued
<1> QED
    BY <1>1, <1>3, <1>4, <1>5 DEF IInv

\* An UPDATE that waited for the refreshes of the rows it revokes.
LEMMA RevokedStep ==
    ASSUME IInv, NEW c \in Clients, NEW S, \A t \in S \cap Tokens : Issued(t) /\ ~RowLocked(t),
           tokens' = Revoked(S), password' \in [Users -> Passwords], Finish(c)
    PROVE  IInv'
<1>1. TypeOK /\ \A t \in S \cap Tokens : Issued(t)
    BY DEF IInv
<1>2. TypeOK'
    BY <1>1, RevokedType, GotoType, IdleType DEF TypeOK
<1>3. /\ req'[c] = Idle
      /\ \A d \in Clients : d # c => req'[d] = req[d]
    BY <1>1 DEF TypeOK
<1>4. \A t \in Tokens :
        /\ Issued(t)' <=> Issued(t)
        /\ Issued(t) => tokens'[t].user = tokens[t].user
        /\ Issued(t) => tokens'[t].family = tokens[t].family
        /\ t \notin S => tokens'[t] = tokens[t]
        /\ Valid(t)' => Valid(t)
    BY <1>1, RevokedRow
<1>5. OneTokenPerFamily'
    BY <1>4 DEF IInv, OneTokenPerFamily
<1>6. FamiliesStart'
    <2>1. \A t \in Tokens : Issued(t) => tokens[t].family \in Tokens
        BY <1>1, IssuedRow DEF Row
    <2> QED
        BY <1>4, <2>1 DEF IInv, FamiliesStart
<1>7. RefreshOwnsRow'
    <2>1. ASSUME NEW d \in Clients, Rotating(d)'
          PROVE  /\ d # c /\ req'[d] = req[d] /\ Rotating(d)
                 /\ req[d].token \in Tokens /\ req[d].token \notin S
        <3>1. d # c /\ req'[d] = req[d] /\ Rotating(d)
            BY <1>3, <2>1 DEF Rotating, Idle
        <3>2. req[d].token \in Tokens
            BY <1>1, <3>1, RequestFields DEF TypeOK, Rotating
        <3> QED
            BY <3>1, <3>2 DEF Rotating, RowLocked
    <2> QED
        BY <1>4, <2>1 DEF IInv, RefreshOwnsRow
<1>8. FoundIsIssued'
    <2>1. ASSUME NEW d \in Clients, req'[d].pc \in {"rotate", "logout"}
          PROVE  req'[d] = req[d] /\ req[d].token \in Tokens
        <3>1. req'[d] = req[d]
            BY <1>3, <2>1 DEF Idle
        <3> QED
            BY <1>1, <2>1, <3>1, RequestFields DEF TypeOK
    <2> QED
        BY <1>4, <2>1 DEF IInv, FoundIsIssued
<1> QED
    BY <1>2, <1>5, <1>6, <1>7, <1>8 DEF IInv

\* A new token of a family that has no valid one left: after a login its own,
\* after a refresh that of the token it replaces.
LEMMA Opened ==
    ASSUME IInv, NEW c \in Clients, IssueTokens(c)
    PROVE  IInv'
<1>1. TypeOK
    BY DEF IInv
<1>2. PICK t \in Tokens : ~Issued(t) /\ tokens' = [tokens EXCEPT ![t] = NewRow(req[c].user, t)]
    BY DEF IssueTokens
<1>3. req[c].user \in Users
    BY <1>1, RequestFields DEF IssueTokens, TypeOK
<1>4. /\ tokens'[t] = NewRow(req[c].user, t)
      /\ \A s \in Tokens : s # t => tokens'[s] = tokens[s]
    BY <1>1, <1>2 DEF TypeOK
<1>5. NewRow(req[c].user, t) \in Row
    BY <1>3 DEF NewRow, Row
<1>6. TypeOK'
    BY <1>1, <1>2, <1>5, GotoType, IdleType DEF IssueTokens, TypeOK
<1>7. /\ req'[c] = Idle
      /\ \A d \in Clients : d # c => req'[d] = req[d]
    BY <1>1 DEF IssueTokens, TypeOK
<1>8. \A s \in Tokens : Issued(s) => tokens[s].family \in Tokens /\ tokens[s].family # t
    BY <1>1, <1>2, IssuedRow DEF Row, IInv, FamiliesStart
<1>9. OneTokenPerFamily'
    BY <1>4, <1>8 DEF IInv, OneTokenPerFamily, NewRow
<1>10. FamiliesStart'
    BY <1>2, <1>4, <1>8 DEF IInv, FamiliesStart, NewRow
<1>11. \A d \in Clients : req'[d].pc \in {"rotate", "logout", "user", "insert"} =>
           req'[d] = req[d] /\ req[d].token \in Tokens
    BY <1>1, <1>7, RequestFields DEF TypeOK, Idle
<1>12. RefreshOwnsRow'
    <2>1. \A d \in Clients : Rotating(d)' =>
            Rotating(d) /\ req'[d] = req[d] /\ req[d].token \in Tokens \ {t} /\ Valid(req[d].token)
        BY <1>2, <1>11 DEF IInv, RefreshOwnsRow, Rotating
    <2> QED
        BY <1>4, <2>1 DEF IInv, RefreshOwnsRow
<1>13. FoundIsIssued'
    BY <1>2, <1>4, <1>11 DEF IInv, FoundIsIssued
<1> QED
    BY <1>6, <1>9, <1>10, <1>12, <1>13 DEF IInv

LEMMA Rotated ==
    ASSUME IInv, NEW c \in Clients, CommitRefresh(c)
    PROVE  IInv'
<1> DEFINE old == req[c].token
<1>1. TypeOK
    BY DEF IInv
<1>2. PICK t \in Tokens :
        /\ ~Issued(t)
        /\ tokens' = [Revoked({old}) EXCEPT ![t] = NewRow(tokens[old].user, tokens[old].family)]
    BY DEF CommitRefresh
<1>3. old \in Tokens /\ Valid(old)
    BY <1>1, RequestFields DEF CommitRefresh, TypeOK, IInv, RefreshOwnsRow, Rotating
<1>4. old # t /\ tokens[old] \in Row
    BY <1>1, <1>2, <1>3, IssuedRow
<1>5. /\ tokens'[t] = NewRow(tokens[old].user, tokens[old].family)
      /\ tokens'[old] = [tokens[old] EXCEPT !.st = "revoked"]
      /\ \A s \in Tokens : s # t /\ s # old => tokens'[s] = tokens[s]
    BY <1>2, <1>3, <1>4 DEF Revoked
<1>6. /\ tokens'[old].st = "revoked"
      /\ tokens'[old].user = tokens[old].user
      /\ tokens'[old].family = tokens[old].family
      /\ tokens'[old] \in Row
    BY <1>4, <1>5 DEF Row
<1>7. NewRow(tokens[old].user, tokens[old].family) \in Row
    BY <1>4 DEF NewRow, Row
<1>8. TypeOK'
    <2>1. tokens' \in [Tokens -> NoRow \cup Row]
        <3>1. Revoked({old}) \in [Tokens -> NoRow \cup Row]
            BY <1>1, <1>3, RevokedType
        <3>2. NewRow(tokens[old].user, tokens[old].family) \in NoRow \cup Row
            BY <1>7
        <3> HIDE DEF old
        <3> QED
            BY <1>2, <3>1, <3>2
    <2> QED
        BY <1>1, <2>1, GotoType, IdleType DEF CommitRefresh, TypeOK
<1>9. /\ req'[c] = Idle
      /\ \A d \in Clients : d # c => req'[d] = req[d]
    BY <1>1 DEF CommitRefresh, TypeOK
<1>10. OneTokenPerFamily'
    <2>1. \A s \in Tokens : s = old => ~Valid(s)'
        BY <1>6
    <2>2. tokens'[t].family = tokens[old].family
        BY <1>5 DEF NewRow
    <2>3. \A s \in Tokens : (s # t /\ Valid(s)') =>
            s # old /\ Valid(s) /\ tokens'[s].family = tokens[s].family
        BY <1>5, <2>1
    <2>4. \A s \in Tokens : (s # t /\ Valid(s)') => tokens'[s].family # tokens'[t].family
        BY <1>3, <2>2, <2>3 DEF IInv, OneTokenPerFamily
    <2> QED
        BY <2>3, <2>4 DEF IInv, OneTokenPerFamily
<1>11. \A s \in Tokens : Issued(s) =>
           /\ tokens[s].family \in Tokens /\ tokens[s].family # t
           /\ Issued(tokens[s].family)
           /\ tokens[tokens[s].family].family = tokens[s].family
           /\ tokens[tokens[s].family].user = tokens[s].user
    BY <1>1, <1>2, IssuedRow DEF Row, IInv, FamiliesStart
<1>12. FamiliesStart'
    <2>1. \A s \in Tokens : Issued(s) =>
            Issued(s)' /\ tokens'[s].user = tokens[s].user /\ tokens'[s].family = tokens[s].family
        BY <1>2, <1>5, <1>6
    <2>2. tokens'[t].user = tokens[old].user /\ tokens'[t].family = tokens[old].family
        BY <1>5 DEF NewRow
    <2>3. \A s \in Tokens : s # t => (Issued(s)' => Issued(s))
        BY <1>3, <1>5
    <2> QED
        BY <1>3, <1>11, <2>1, <2>2, <2>3 DEF FamiliesStart
<1>13. \A d \in Clients : req'[d].pc \in {"rotate", "logout", "user", "insert"} =>
           d # c /\ req'[d] = req[d] /\ req[d].token \in Tokens
    BY <1>1, <1>9, RequestFields DEF TypeOK, Idle
<1>14. RefreshOwnsRow'
    <2>1. ASSUME NEW d \in Clients, Rotating(d)'
          PROVE  /\ d # c /\ req'[d] = req[d] /\ Rotating(d)
                 /\ req[d].token \in Tokens \ {old, t} /\ Valid(req[d].token)
        BY <1>2, <1>13, <2>1 DEF CommitRefresh, IInv, RefreshOwnsRow, Rotating
    <2> QED
        BY <1>5, <2>1 DEF IInv, RefreshOwnsRow
<1>15. FoundIsIssued'
    <2>1. \A s \in Tokens : Issued(s) => Issued(s)'
        BY <1>2, <1>5, <1>6
    <2> QED
        BY <1>13, <2>1 DEF IInv, FoundIsIssued
<1> QED
    BY <1>8, <1>10, <1>12, <1>14, <1>15 DEF IInv

LEMMA Expired ==
    ASSUME IInv, NEW t \in Tokens, Expire(t)
    PROVE  IInv'
<1>1. TypeOK /\ tokens[t] \in Row
    BY IssuedRow DEF IInv, Expire
<1>2. tokens' = [tokens EXCEPT ![t] = [tokens[t] EXCEPT !.expired = TRUE]]
    BY <1>1 DEF Expire, TypeOK
<1>3. [tokens[t] EXCEPT !.expired = TRUE] \in Row
    BY <1>1 DEF Row
<1>4. TypeOK'
    BY <1>1, <1>2, <1>3 DEF Expire, TypeOK
<1>5. \A s \in Tokens :
        /\ tokens'[s].st = tokens[s].st
        /\ Issued(s) => tokens'[s].user = tokens[s].user /\ tokens'[s].family = tokens[s].family
    BY <1>1, <1>2 DEF TypeOK, Row
<1>6. \A s \in Tokens : Issued(s) => tokens[s].family \in Tokens
    BY <1>1, IssuedRow DEF Row
<1>7. OneTokenPerFamily'
    BY <1>5 DEF IInv, OneTokenPerFamily
<1>8. FamiliesStart'
    BY <1>5, <1>6 DEF IInv, FamiliesStart
<1>9. \A d \in Clients : req[d].pc \in {"rotate", "logout", "user", "insert"} =>
          req[d].token \in Tokens
    BY <1>1, RequestFields DEF TypeOK
<1>10. RefreshOwnsRow' /\ FoundIsIssued'
    BY <1>5, <1>9 DEF Expire, IInv, RefreshOwnsRow, FoundIsIssued, Rotating
<1> QED
    BY <1>4, <1>7, <1>8, <1>10 DEF IInv

LEMMA Crashed ==
    ASSUME IInv, Crash
    PROVE  IInv'
<1>1. TypeOK'
    BY IdleType DEF Crash, IInv, TypeOK
<1>2. \A d \in Clients : req'[d] = Idle
    BY DEF Crash
<1>3. OneTokenPerFamily' /\ FamiliesStart'
    BY DEF Crash, IInv, OneTokenPerFamily, FamiliesStart
<1>4. RefreshOwnsRow' /\ FoundIsIssued'
    BY <1>2 DEF RefreshOwnsRow, FoundIsIssued, Rotating, Idle
<1> QED
    BY <1>1, <1>3, <1>4 DEF IInv

\* Every step keeps the invariant.
LEMMA NextStep ==
    ASSUME IInv, [Next]_vars
    PROVE  IInv'
<1>1. CASE \E c \in Clients : Start(c)
    <2> PICK c \in Clients : Start(c)
        BY <1>1
    <2> USE DEF IInv, TypeOK
    <2>1. CASE \E u \in Users : Login(c, u)
        <3> PICK u \in Users : Login(c, u)
            BY <2>1
        <3> DEFINE r == [pc |-> "login", conn |-> FALSE, user |-> u]
        <3> r \in Request /\ r.pc = "login"
            BY DEF Request, Logging
        <3> QED
            BY StepAside DEF Login
    <2>2. CASE \E p \in Passwords, u \in Users : ChangePassword(c, u, p)
        <3> PICK p \in Passwords, u \in Users : ChangePassword(c, u, p)
            BY <2>2
        <3> DEFINE r == [pc |-> "change", conn |-> FALSE, user |-> u, new |-> p]
        <3> r \in Request /\ r.pc = "change"
            BY DEF Request, Changing
        <3> QED
            BY StepAside DEF ChangePassword
    <2>3. CASE \E t \in Tokens : RefreshAccessToken(c, t)
        <3> PICK t \in Tokens : RefreshAccessToken(c, t)
            BY <2>3
        <3>1. CASE tokens[t].st = "revoked" /\
                   Goto(c, [pc |-> "reuse", conn |-> FALSE, family |-> tokens[t].family])
            <4> DEFINE r == [pc |-> "reuse", conn |-> FALSE, family |-> tokens[t].family]
            <4> tokens[t] \in Row
                BY <3>1, IssuedRow
            <4> r \in Request /\ r.pc = "reuse"
                BY DEF Request, Closing, Row
            <4> QED
                BY <3>1, StepAside DEF RefreshAccessToken
        <3>2. CASE Valid(t) /\ Goto(c, [pc |-> "rotate", conn |-> FALSE, token |-> t])
            <4> DEFINE r == [pc |-> "rotate", conn |-> FALSE, token |-> t]
            <4> r \in Request /\ r.pc = "rotate" /\ r.token = t /\ Issued(t)
                BY <3>2 DEF Request, Refreshing
            <4> QED
                BY <3>2, StepAside DEF RefreshAccessToken
        <3> QED
            BY <3>1, <3>2 DEF RefreshAccessToken
    <2>4. CASE \E t \in Tokens : Logout(c, t)
        <3> PICK t \in Tokens : Logout(c, t)
            BY <2>4
        <3> DEFINE r == [pc |-> "logout", conn |-> FALSE, token |-> t]
        <3> r \in Request /\ r.pc = "logout" /\ r.token = t /\ Issued(t)
            BY DEF Request, Logging, Logout
        <3> QED
            BY StepAside DEF Logout
    <2>5. CASE \E f \in Tokens : RevokeDevice(c, f)
        <3> PICK f \in Tokens : RevokeDevice(c, f)
            BY <2>5
        <3> DEFINE r == [pc |-> "device", conn |-> FALSE, family |-> f]
        <3> r \in Request /\ r.pc = "device"
            BY DEF Request, Closing
        <3> QED
            BY StepAside DEF RevokeDevice
    <2> QED
        BY <2>1, <2>2, <2>3, <2>4, <2>5 DEF Start
<1>2. CASE \E c \in Clients : Proceed(c)
    <2> PICK c \in Clients : Proceed(c)
        BY <1>2
    <2>0. TypeOK /\ req[c] \in Request /\ Idle \in Request /\ Idle.pc = "idle"
        BY IdleType DEF IInv, TypeOK, Idle
    <2>1. CASE Connect(c)
        <3> DEFINE r == [req[c] EXCEPT !.conn = TRUE]
        <3>1. r \in Request
            BY <2>0, <2>1, ConnectType DEF Connect
        <3>2. /\ r.pc = req[c].pc
              /\ r.pc \in {"rotate", "logout", "user", "insert"} => r.token = req[c].token
            BY <2>0 DEF Request, Idle, Refreshing, Logging, Closing, Changing
        <3> QED
            BY <2>1, <3>1, <3>2, StepForward DEF Connect, Rotating
    <2>2. CASE IssueTokens(c)
        BY <2>2, Opened
    <2>3. CASE RevokeTokenFamily(c)
        BY <2>0, <2>3, RevokedStep DEF RevokeTokenFamily, FamilyOf, TypeOK
    <2>4. CASE RevokeRefreshToken(c)
        <3>1. CASE Valid(req[c].token) /\ Goto(c, [req[c] EXCEPT !.pc = "user"])
            <4> DEFINE r == [req[c] EXCEPT !.pc = "user"]
            <4> r \in Request /\ r.pc = "user" /\ r.token = req[c].token
                BY <2>0, <2>4, RequestFields DEF Request, Refreshing, RevokeRefreshToken
            <4> QED
                BY <2>4, <3>1, StepForward DEF RevokeRefreshToken
        <3>2. CASE Finish(c)
            BY <2>0, <2>4, <3>2, StepAside DEF RevokeRefreshToken
        <3> QED
            BY <2>4, <3>1, <3>2 DEF RevokeRefreshToken
    <2>5. CASE ReadUser(c)
        <3> DEFINE r == [req[c] EXCEPT !.pc = "insert"]
        <3> r \in Request /\ r.pc = "insert" /\ r.token = req[c].token
            BY <2>0, <2>5, RequestFields DEF Request, Refreshing, ReadUser
        <3> QED
            BY <2>5, StepForward DEF ReadUser, Rotating
    <2>6. CASE CommitRefresh(c)
        BY <2>6, Rotated
    <2>7. CASE RevokeOne(c)
        <3> Issued(req[c].token)
            BY <2>7 DEF RevokeOne, IInv, FoundIsIssued
        <3> QED
            BY <2>0, <2>7, RevokedStep DEF RevokeOne, TypeOK
    <2>8. CASE RevokeDeviceFamily(c)
        BY <2>0, <2>8, RevokedStep DEF RevokeDeviceFamily, FamilyOf, TypeOK
    <2>9. CASE UpdateUserPassword(c)
        <3> DEFINE r == [req[c] EXCEPT !.pc = "revoke"]
        <3> r \in Request /\ r.pc = "revoke"
            BY <2>0, <2>9, RequestFields DEF Request, Changing, UpdateUserPassword
        <3> QED
            BY <2>9, StepAside DEF UpdateUserPassword
    <2>10. CASE RevokeUserTokens(c)
        <3> req[c].user \in Users /\ req[c].new \in Passwords
            BY <2>0, <2>10, RequestFields DEF RevokeUserTokens
        <3> password' \in [Users -> Passwords]
            BY <2>0, <2>10 DEF RevokeUserTokens, TypeOK
        <3> QED
            BY <2>10, RevokedStep DEF RevokeUserTokens, TokensOf
    <2>11. CASE Fail(c)
        BY <2>0, <2>11, StepAside DEF Fail
    <2> QED
        BY <2>1, <2>2, <2>3, <2>4, <2>5, <2>6, <2>7, <2>8, <2>9, <2>10, <2>11 DEF Proceed, Step
<1>3. CASE \E t \in Expiring : Expire(t)
    BY <1>3, Expired, SessionsAssumption DEF SessionsAssumption
<1>4. CASE Crash
    BY <1>4, Crashed
<1>5. CASE UNCHANGED vars
    BY <1>5 DEF vars, IInv, TypeOK, OneTokenPerFamily, FamiliesStart, RefreshOwnsRow,
                FoundIsIssued, Rotating
<1> QED
    BY <1>1, <1>2, <1>3, <1>4, <1>5 DEF Next

\* IInv holds in every state: of the types, of who owns which row, and of the
\* families.  It is what keeps two refreshes of one token apart.
THEOREM Inductive == Spec => []IInv
<1>1. Init => IInv
    <2> SUFFICES ASSUME Init PROVE IInv
        OBVIOUS
    <2>1. TypeOK
        BY IdleType DEF Init, TypeOK, NoRow
    <2>2. \A t \in Tokens : tokens[t].st = "unused"
        BY DEF Init
    <2>3. \A c \in Clients : req[c].pc = "idle"
        BY DEF Init, Idle
    <2> QED
        BY <2>1, <2>2, <2>3 DEF IInv, OneTokenPerFamily, FamiliesStart, RefreshOwnsRow,
                                Rotating, FoundIsIssued
<1>2. IInv /\ [Next]_vars => IInv'
    BY NextStep
<1> QED
    BY <1>1, <1>2, PTL DEF Spec

\* A session lives on one token at a time (RefreshAccessToken's conditional
\* update): of two refreshes of one token only one succeeds.
THEOREM OneToken == Spec => []OneTokenPerFamily
<1>1. IInv => OneTokenPerFamily
    BY DEF IInv
<1> QED
    BY <1>1, Inductive, PTL

-----------------------------------------------------------------------------
(* What a step does to the table *)

\* Rows may be revoked; nothing else changes that tells sessions apart.
Closes ==
    \A t \in Tokens :
        /\ Issued(t)' <=> Issued(t)
        /\ Valid(t)' => Valid(t)
        /\ Issued(t) => tokens'[t].family = tokens[t].family

\* A new valid row; the others keep their family.
Adds(t) ==
    /\ ~Issued(t) /\ Valid(t)'
    /\ \A s \in Tokens : Issued(s) => Issued(s)' /\ tokens'[s].family = tokens[s].family
    /\ \A s \in Tokens : s # t => (Issued(s)' => Issued(s))

Opens(t) ==
    /\ Adds(t) /\ tokens'[t].family = t
    /\ \A s \in Tokens : s # t => (Valid(s)' <=> Valid(s))

Rotates(old, t) ==
    /\ Adds(t) /\ tokens'[t].family = tokens[old].family
    /\ Valid(old)
    /\ \A s \in Tokens : s # t => (Valid(s)' <=> Valid(s) /\ s # old)

LEMMA RevokedCloses ==
    ASSUME TypeOK, NEW S, \A t \in S \cap Tokens : Issued(t), tokens' = Revoked(S)
    PROVE  Closes
BY RevokedRow DEF Closes

\* A step closes sessions, opens one, or rotates one.
LEMMA TableStep ==
    ASSUME IInv, [Next]_vars
    PROVE  \/ Closes
           \/ \E t \in Tokens : Opens(t)
           \/ \E old, t \in Tokens : Rotates(old, t)
<1>0. TypeOK
    BY DEF IInv
<1>1. CASE UNCHANGED tokens
    BY <1>1 DEF Closes
<1>2. ASSUME NEW c \in Clients, IssueTokens(c)
      PROVE  \E t \in Tokens : Opens(t)
    <2>1. PICK t \in Tokens : ~Issued(t) /\ tokens' = [tokens EXCEPT ![t] = NewRow(req[c].user, t)]
        BY <1>2 DEF IssueTokens
    <2>2. /\ tokens'[t].st = "valid" /\ tokens'[t].family = t
          /\ \A s \in Tokens : s # t => tokens'[s] = tokens[s]
        BY <1>0, <2>1 DEF TypeOK, NewRow
    <2> QED
        BY <2>1, <2>2 DEF Opens, Adds
<1>3. ASSUME NEW c \in Clients, CommitRefresh(c)
      PROVE  \E old, t \in Tokens : Rotates(old, t)
    <2>1. PICK old \in Tokens : old = req[c].token /\ Valid(old)
        BY <1>0, <1>3, RequestFields DEF CommitRefresh, TypeOK, IInv, RefreshOwnsRow, Rotating
    <2>2. PICK t \in Tokens :
            /\ ~Issued(t)
            /\ tokens' = [Revoked({old}) EXCEPT ![t] = NewRow(tokens[old].user, tokens[old].family)]
        BY <1>3, <2>1 DEF CommitRefresh
    <2>3. old # t /\ tokens[old] \in Row
        BY <1>0, <2>1, <2>2, IssuedRow
    <2>4. /\ tokens'[t].st = "valid" /\ tokens'[t].family = tokens[old].family
          /\ tokens'[old] = [tokens[old] EXCEPT !.st = "revoked"]
          /\ \A s \in Tokens : s # t /\ s # old => tokens'[s] = tokens[s]
        BY <2>2, <2>3 DEF Revoked, NewRow
    <2>5. tokens'[old].st = "revoked" /\ tokens'[old].family = tokens[old].family
        BY <2>3, <2>4 DEF Row
    <2>6. Adds(t)
        BY <2>1, <2>2, <2>4, <2>5 DEF Adds
    <2>7. \A s \in Tokens : s # t => (Valid(s)' <=> Valid(s) /\ s # old)
        BY <2>4, <2>5
    <2>8. Rotates(old, t)
        BY <2>1, <2>4, <2>6, <2>7 DEF Rotates
    <2> QED
        BY <2>8
<1>4. ASSUME NEW c \in Clients, RevokeTokenFamily(c) \/ RevokeDeviceFamily(c)
      PROVE  Closes
    BY <1>0, <1>4, RevokedCloses DEF RevokeTokenFamily, RevokeDeviceFamily, FamilyOf
<1>5. ASSUME NEW c \in Clients, RevokeOne(c)
      PROVE  Closes
    BY <1>0, <1>5, RevokedCloses DEF RevokeOne, IInv, FoundIsIssued
<1>6. ASSUME NEW c \in Clients, RevokeUserTokens(c)
      PROVE  Closes
    BY <1>0, <1>6, RevokedCloses DEF RevokeUserTokens, TokensOf
<1>7. ASSUME NEW t \in Expiring, Expire(t)
      PROVE  Closes
    <2>1. t \in Tokens /\ tokens[t] \in Row
        BY <1>0, <1>7, IssuedRow, SessionsAssumption DEF Expire, SessionsAssumption
    <2>2. tokens' = [tokens EXCEPT ![t] = [tokens[t] EXCEPT !.expired = TRUE]]
        BY <1>0, <1>7, <2>1 DEF Expire, TypeOK
    <2> QED
        BY <1>0, <2>1, <2>2 DEF Closes, TypeOK, Row
<1>8. ASSUME NEW c \in Clients, Start(c)
      PROVE  UNCHANGED tokens
    BY <1>8 DEF Start, Login, ChangePassword, RefreshAccessToken, Logout, RevokeDevice
<1>9. ASSUME NEW c \in Clients, Proceed(c), ~IssueTokens(c), ~CommitRefresh(c),
             ~RevokeTokenFamily(c), ~RevokeDeviceFamily(c), ~RevokeOne(c), ~RevokeUserTokens(c)
      PROVE  UNCHANGED tokens
    BY <1>9 DEF Proceed, Step, Connect, RevokeRefreshToken, ReadUser, UpdateUserPassword, Fail
<1> QED
    BY <1>1, <1>2, <1>3, <1>4, <1>5, <1>6, <1>7, <1>8, <1>9 DEF Next, Crash, vars

-----------------------------------------------------------------------------
(* Sessions that have ended *)

LEMMA DeadStep ==
    ASSUME IInv, [Next]_vars, NEW f \in Tokens, Dead(f)
    PROVE  Dead(f)'
<1>1. CASE Closes
    BY <1>1 DEF Closes, Dead, FamilyOf
<1>2. ASSUME NEW t \in Tokens, Opens(t)
      PROVE  Dead(f)'
    <2>1. f # t
        BY <1>2 DEF Opens, Adds, Dead, FamilyOf, IInv, FamiliesStart
    <2> QED
        BY <1>2, <2>1 DEF Opens, Adds, Dead, FamilyOf
<1>3. ASSUME NEW old \in Tokens, NEW t \in Tokens, Rotates(old, t)
      PROVE  Dead(f)'
    <2>1. tokens[old].family # f
        BY <1>3 DEF Rotates, Dead, FamilyOf
    <2> QED
        BY <1>3, <2>1 DEF Rotates, Adds, Dead, FamilyOf
<1> QED
    BY <1>1, <1>2, <1>3, TableStep

\* No step brings back to life a session that was logged out, revoked, or
\* closed because an old token came back.
THEOREM EndedStaysEnded == Spec => DeadStaysDead
<1>1. IInv /\ [Next]_vars => [\A f \in Tokens : Dead(f) => Dead(f)']_vars
    BY DeadStep
<1> QED
    BY <1>1, Inductive, PTL DEF Spec, DeadStaysDead

LEMMA PasswordStep ==
    ASSUME IInv, [Next]_vars, NEW f \in Tokens, FamilyOf(f) # {},
           password'[tokens[f].user] # password[tokens[f].user]
    PROVE  Dead(f)'
<1>0. TypeOK /\ IInv'
    BY NextStep DEF IInv
<1>1. PICK c \in Clients : RevokeUserTokens(c)
    BY DEF Next, vars, Start, Proceed, Step, Login, ChangePassword, RefreshAccessToken, Logout,
           RevokeDevice, Connect, IssueTokens, RevokeTokenFamily, RevokeRefreshToken, ReadUser,
           CommitRefresh, RevokeOne, RevokeDeviceFamily, UpdateUserPassword, Fail, Expire, Crash
<1>2. PICK u \in Users : u = req[c].user
    BY <1>0, <1>1, RequestFields DEF RevokeUserTokens, TypeOK
<1>3. Issued(f) /\ tokens[f].user \in Users
    BY <1>0, IssuedRow DEF FamilyOf, IInv, FamiliesStart, Row
<1>4. tokens[f].user = u
    BY <1>0, <1>1, <1>2, <1>3 DEF RevokeUserTokens, TypeOK
<1>5. \A t \in FamilyOf(f) : t \in TokensOf(u)
    BY <1>4 DEF FamilyOf, TokensOf, IInv, FamiliesStart
<1>6. \A t \in Tokens :
        /\ Issued(t)' <=> Issued(t)
        /\ Issued(t) => tokens'[t].family = tokens[t].family
        /\ t \in TokensOf(u) => ~Valid(t)'
    <2>1. tokens' = Revoked(TokensOf(u)) /\ \A t \in TokensOf(u) \cap Tokens : Issued(t)
        BY <1>1, <1>2 DEF RevokeUserTokens, TokensOf
    <2> QED
        BY <1>0, <2>1, RevokedRow
<1> QED
    BY <1>5, <1>6 DEF Dead, FamilyOf

\* ChangePassword ends every session the user has, those whose token is being
\* refreshed in another transaction included.
THEOREM PasswordChangeEndsSessions == Spec => PasswordEndsSessions
<1>1. IInv /\ [Next]_vars =>
        [\A f \in Tokens :
            (FamilyOf(f) # {} /\ password'[tokens[f].user] # password[tokens[f].user])
                => Dead(f)']_vars
    BY PasswordStep
<1> QED
    BY <1>1, Inductive, PTL DEF Spec, PasswordEndsSessions

-----------------------------------------------------------------------------
(* Refinement *)


\* The token a session lives on is its valid one, and NoToken if it has none.
CurrentIsValid ==
    \A f \in Tokens :
        /\ \A t \in Tokens : (Valid(t) /\ tokens[t].family = f) <=> t = current[f]
        /\ current[f] = NoToken <=> ~\E t \in Tokens : Valid(t) /\ tokens[t].family = f

LEMMA CurrentToken == IInv => CurrentIsValid
<1> SUFFICES ASSUME IInv, NEW f \in Tokens
             PROVE  /\ \A t \in Tokens : (Valid(t) /\ tokens[t].family = f) <=> t = current[f]
                    /\ current[f] = NoToken <=>
                           ~\E t \in Tokens : Valid(t) /\ tokens[t].family = f
    BY DEF CurrentIsValid
<1>1. CASE \E t \in FamilyOf(f) : Valid(t)
    <2>1. current[f] = CHOOSE t \in FamilyOf(f) : Valid(t)
        BY <1>1 DEF current
    <2>2. current[f] \in FamilyOf(f) /\ Valid(current[f])
        BY <1>1, <2>1
    <2>3. \A t \in Tokens : (Valid(t) /\ tokens[t].family = f) <=> t = current[f]
        BY <2>2 DEF FamilyOf, IInv, OneTokenPerFamily
    <2> QED
        BY <2>2, <2>3, SessionsAssumption DEF FamilyOf, SessionsAssumption
<1>2. CASE ~\E t \in FamilyOf(f) : Valid(t)
    <2>1. current[f] = NoToken
        BY <1>2 DEF current
    <2> QED
        BY <1>2, <2>1, SessionsAssumption DEF FamilyOf, SessionsAssumption
<1> QED
    BY <1>1, <1>2

LEMMA CurrentTokenNext == IInv' => CurrentIsValid'
BY CurrentToken, PTL

LEMMA PromiseStep ==
    ASSUME IInv, [Next]_vars
    PROVE  [Promise!Next]_(Promise!sessionVars)
<1>0. CurrentIsValid /\ CurrentIsValid'
    BY NextStep, CurrentToken, CurrentTokenNext
<1>1. CASE Closes
    <2> DEFINE S == {f \in Tokens : current'[f] # current[f]}
    <2>1. ASSUME NEW f \in Tokens
          PROVE  /\ current'[f] # NoToken => current'[f] = current[f]
                 /\ current'[f] # current[f] => Issued(f) /\ tokens[f].family = f
        <3>1. \A t \in Tokens : (Valid(t)' /\ tokens'[t].family = f) =>
                  Valid(t) /\ tokens[t].family = f
            BY <1>1 DEF Closes
        <3>2. current'[f] # NoToken => current'[f] = current[f]
            BY <1>0, <3>1 DEF CurrentIsValid
        <3>3. current[f] # NoToken => Issued(f) /\ tokens[f].family = f
            BY <1>0 DEF CurrentIsValid, IInv, FamiliesStart
        <3> QED
            BY <3>2, <3>3
    <2>2. current' = [f \in Tokens |-> IF f \in S THEN NoToken ELSE current[f]]
        BY <2>1 DEF current
    <2>3. S \in SUBSET {t \in Tokens : Issued(t) /\ tokens[t].family = t}
        BY <2>1
    <2>4. /\ UNCHANGED {t \in Tokens : Issued(t)}
          /\ UNCHANGED {t \in Tokens : Issued(t) /\ tokens[t].family = t}
        BY <1>1 DEF Closes
    <2>5. Promise!Close(S)
        BY <2>2, <2>4 DEF Promise!Close
    <2> HIDE DEF S
    <2> QED
        BY <2>3, <2>5 DEF Promise!Next
<1>2. ASSUME NEW t \in Tokens, Opens(t)
      PROVE  Promise!Next
    <2>1. {s \in Tokens : Issued(s)}' = {s \in Tokens : Issued(s)} \cup {t}
        BY <1>2 DEF Opens, Adds
    <2>2. {s \in Tokens : Issued(s) /\ tokens[s].family = s}'
              = {s \in Tokens : Issued(s) /\ tokens[s].family = s} \cup {t}
        BY <1>2 DEF Opens, Adds
    <2>3. current'[t] = t
        BY <1>0, <1>2 DEF Opens, Adds, CurrentIsValid
    <2>4. ASSUME NEW f \in Tokens, f # t
          PROVE  current'[f] = current[f]
        <3>1. \A s \in Tokens : (Valid(s)' /\ tokens'[s].family = f) <=>
                  (Valid(s) /\ tokens[s].family = f)
            BY <1>2, <2>4 DEF Opens, Adds
        <3> QED
            BY <1>0, <3>1 DEF CurrentIsValid
    <2>5. current' = [current EXCEPT ![t] = t]
        BY <2>3, <2>4 DEF current
    <2>6. t \notin {s \in Tokens : Issued(s)}
        BY <1>2 DEF Opens, Adds
    <2>7. Promise!Open(t)
        BY <2>1, <2>2, <2>5, <2>6 DEF Promise!Open
    <2> QED
        BY <2>7 DEF Promise!Next
<1>3. ASSUME NEW old \in Tokens, NEW t \in Tokens, Rotates(old, t)
      PROVE  Promise!Next
    <2>1. PICK f \in Tokens : f = tokens[old].family
        BY <1>3, IssuedRow DEF Rotates, IInv, Row
    <2>2. f # t /\ Issued(f)
        BY <1>3, <2>1 DEF Rotates, Adds, IInv, FamiliesStart
    <2>3. {s \in Tokens : Issued(s)}' = {s \in Tokens : Issued(s)} \cup {t}
        BY <1>3 DEF Rotates, Adds
    <2>4. UNCHANGED {s \in Tokens : Issued(s) /\ tokens[s].family = s}
        BY <1>3, <2>1, <2>2 DEF Rotates, Adds
    <2>5. current[f] = old /\ current'[f] = t
        BY <1>0, <1>3, <2>1 DEF Rotates, Adds, CurrentIsValid
    <2>6. ASSUME NEW g \in Tokens, g # f
          PROVE  current'[g] = current[g]
        <3>1. \A s \in Tokens : (Valid(s)' /\ tokens'[s].family = g) <=>
                  (Valid(s) /\ tokens[s].family = g)
            BY <1>3, <2>1, <2>6 DEF Rotates, Adds
        <3> QED
            BY <1>0, <3>1 DEF CurrentIsValid
    <2>7. current' = [current EXCEPT ![f] = t]
        BY <2>5, <2>6 DEF current
    <2>8. t \notin {s \in Tokens : Issued(s)} /\ current[f] # NoToken
        BY <1>3, <2>5, SessionsAssumption DEF Rotates, Adds, SessionsAssumption
    <2>9. Promise!Rotate(f, t)
        BY <2>3, <2>4, <2>7, <2>8 DEF Promise!Rotate
    <2> QED
        BY <2>9 DEF Promise!Next
<1> QED
    BY <1>1, <1>2, <1>3, TableStep

\* Refresh tokens keep the promise of DeviceSessions: each refresh, however it
\* interleaves with others, with logouts and with a change of the password,
\* opens, rotates or closes sessions.
THEOREM Refinement == Spec => ImplementsPromise
<1>1. Init => Promise!Init
    <2> SUFFICES ASSUME Init PROVE Promise!Init
        OBVIOUS
    <2>1. \A t \in Tokens : ~Issued(t) /\ ~Valid(t)
        BY DEF Init
    <2> QED
        BY <2>1 DEF Promise!Init, current, FamilyOf
<1>2. IInv /\ [Next]_vars => [Promise!Next]_(Promise!sessionVars)
    BY PromiseStep
<1> QED
    BY <1>1, <1>2, Inductive, PTL DEF Spec, ImplementsPromise, Promise!Spec

=============================================================================
