SPECIFICATION FairSpec
CONSTANTS
    Users = {u1}
    Tokens = {t1, t2, t3}
    Passwords = {p1, p2}
    Clients = {c1, c2}
    MaxConns = 2
    Expiring = {t1}
    Failures = TRUE
    NoToken = NoToken
INVARIANTS IInv
PROPERTIES DeadStaysDead PasswordEndsSessions ImplementsPromise RequestsEnd
