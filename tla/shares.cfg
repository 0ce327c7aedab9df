SPECIFICATION FairSpec
CHECK_DEADLOCK FALSE
CONSTANTS
    Shares = {s1}
    Links = {l1}
    Files = {f1}
    Clients = {c1, c2}
    Limits = {0, 1}
    MaxViews = 2
    Failures = TRUE
INVARIANTS IInv LimitKept ViewsAreServed
PROPERTIES LinksGo ImplementsBudget
