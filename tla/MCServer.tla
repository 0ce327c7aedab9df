------------------------------ MODULE MCServer ------------------------------
(***************************************************************************)
(* The instance of Server and of Attempts that TLC checks.  They share no  *)
(* state: each is explored while the other stays where it begins, so that  *)
(* the states are the sum of theirs and not the product.                   *)
(***************************************************************************)
EXTENDS Server, Attempts

\* 002, 003 and 012
MCSchema == <<<<"once">>, <<"once", "once">>, <<"again", "again">>>>

CONSTANTS d1, d2, g1, g2
MCContents == {[fixed |-> d1, free |-> g1], [fixed |-> d2, free |-> g2]}
MCUnfit == {[fixed |-> d2, free |-> g2]}

MCInit == ServerInit /\ AuthInit

MCNext ==
    \/ ServerNext /\ AuthInit /\ UNCHANGED authVars
    \/ AuthNext /\ ServerInit /\ UNCHANGED serverVars

MCSpec ==
    /\ MCInit /\ [][MCNext]_<<serverVars, authVars>>
    /\ WF_serverVars(Run /\ UNCHANGED authVars) /\ WF_serverVars(Watcher /\ UNCHANGED authVars)
    /\ WF_authVars(CleanupTOTPState /\ UNCHANGED serverVars)
=============================================================================
