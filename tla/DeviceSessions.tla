--------------------------- MODULE DeviceSessions ---------------------------
(***************************************************************************)
(* What the refresh tokens promise their users: a login opens a session on *)
(* a device, the session lives on one token at a time, every refresh       *)
(* replaces it by a token never seen before, and a closed session never    *)
(* opens again (README.md:36 and 206: sessions are listed and revoked per  *)
(* device).  A session is named by the token it was opened with.           *)
(***************************************************************************)
CONSTANTS
    Tokens,     \* refresh tokens
    NoToken     \* not a token: a session that is not open has it

VARIABLES
    opened,     \* the sessions opened so far
    current,    \* the token each session lives on
    issued      \* the tokens handed out so far

sessionVars == <<opened, current, issued>>

Init ==
    /\ opened = {}
    /\ current = [f \in Tokens |-> NoToken]
    /\ issued = {}

Open(f) ==
    /\ f \notin issued
    /\ opened' = opened \cup {f}
    /\ current' = [current EXCEPT ![f] = f]
    /\ issued' = issued \cup {f}

Rotate(f, t) ==
    /\ current[f] # NoToken
    /\ t \notin issued
    /\ current' = [current EXCEPT ![f] = t]
    /\ issued' = issued \cup {t}
    /\ UNCHANGED opened

Close(S) ==
    /\ current' = [f \in Tokens |-> IF f \in S THEN NoToken ELSE current[f]]
    /\ UNCHANGED <<opened, issued>>

Next ==
    \/ \E f \in Tokens : Open(f)
    \/ \E f, t \in Tokens : Rotate(f, t)
    \/ \E S \in SUBSET opened : Close(S)

Spec == Init /\ [][Next]_sessionVars
=============================================================================
