--------------------------- MODULE DownloadBudget ---------------------------
(***************************************************************************)
(* What max_downloads promises (README.md:24): a share with a limit sells  *)
(* at most that many tickets, each download uses up one of them, and a     *)
(* share that is withdrawn sells no more.                                  *)
(***************************************************************************)
EXTENDS Naturals

CONSTANTS Shares, Limits

VARIABLES
    offer,      \* what is offered: nothing yet, a limit, or no longer anything
    limit,      \* 0 is no limit
    sold, used

budgetVars == <<offer, limit, sold, used>>

Init ==
    /\ offer = [s \in Shares |-> "none"]
    /\ limit = [s \in Shares |-> 0]
    /\ sold = [s \in Shares |-> 0]
    /\ used = [s \in Shares |-> 0]

Offer(s) ==
    /\ offer[s] = "none"
    /\ offer' = [offer EXCEPT ![s] = "open"]
    /\ \E n \in Limits : limit' = [limit EXCEPT ![s] = n]
    /\ UNCHANGED <<sold, used>>

Sell(s) ==
    /\ offer[s] = "open"
    /\ limit[s] = 0 \/ sold[s] < limit[s]
    /\ sold' = [sold EXCEPT ![s] = @ + 1]
    /\ UNCHANGED <<offer, limit, used>>

Use(s) ==
    /\ limit[s] = 0 \/ used[s] < sold[s]
    /\ used' = [used EXCEPT ![s] = @ + 1]
    /\ UNCHANGED <<offer, limit, sold>>

\* Shares are withdrawn one by one, or with their files.
Withdraw ==
    /\ \E S \in SUBSET Shares :
        /\ \A s \in S : offer[s] = "open"
        /\ offer' = [s \in Shares |-> IF s \in S THEN "withdrawn" ELSE offer[s]]
    /\ UNCHANGED <<limit, sold, used>>

Next == Withdraw \/ \E s \in Shares : Offer(s) \/ Sell(s) \/ Use(s)

Spec == Init /\ [][Next]_budgetVars
=============================================================================
