-------------------------- MODULE ShareLinksProofs --------------------------
(***************************************************************************)
(* Theorems about ShareLinks, for any numbers of shares, links, files and  *)
(* requests, any limits, with and without failures.                        *)
(***************************************************************************)
EXTENDS ShareLinks, FiniteSetTheorems, TLAPS

USE DEF Issued, Exists, Goto, Finish

-----------------------------------------------------------------------------
(* Types *)

\* What the fields of a request are, by the place it has reached.
LEMMA RequestFields ==
    ASSUME NEW r \in Requests
    PROVE  /\ r.pc = "share" => r.file \in Files /\ r.secret \in BOOLEAN /\ r.max \in Limits
                                /\ r.expiry \in {"never", "ahead"}
           /\ r.pc = "link" => r.file \in Files
           /\ r.pc = "sign" => r.share \in Shares
           /\ r.pc \in {"find", "count", "open"} => r \in Fetching
BY DEF Requests, Idle, Creating, Verifying, Fetching

LEMMA IdleType == Idle \in Requests
BY DEF Requests

LEMMA GotoType ==
    ASSUME TypeOK, NEW c \in Clients, NEW r \in Requests, Goto(c, r)
    PROVE  /\ req' \in [Clients -> Requests]
           /\ req'[c] = r
           /\ \A d \in Clients : d # c => req'[d] = req[d]
BY DEF TypeOK

\* A share that was issued has a row's fields.
LEMMA IssuedRow ==
    ASSUME TypeOK, NEW s \in Shares, Issued(s)
    PROVE  share[s] \in ShareRow
BY DEF TypeOK, NoShare

LEMMA UnderWayFinite ==
    ASSUME NEW s \in Shares
    PROVE  IsFiniteSet(UnderWay(s)) /\ Cardinality(UnderWay(s)) \in Nat
BY FS_Subset, FS_CardinalityType, SharesAssumption DEF UnderWay, SharesAssumption

-----------------------------------------------------------------------------
(* What a step does to the counts of a share *)

\* The share is there after the step, and nothing has gone wrong with its counts.
Sound(s) == Exists(s)' /\ s \notin spoiled'

\* Nothing is counted and nothing sent, though requests may end.
Rests(s) ==
    /\ given'[s] = given[s]
    /\ UnderWay(s)' \subseteq UnderWay(s)
    /\ Sound(s) => UnderWay(s)' = UnderWay(s)
    /\ share'[s].views = share[s].views

\* One request, at most, is counted.
Counts(s) ==
    /\ Countable(s)
    /\ given'[s] = given[s]
    /\ \E c \in Clients \ UnderWay(s) :
        /\ UnderWay(s)' \subseteq UnderWay(s) \cup {c}
        /\ Sound(s) => UnderWay(s)' = UnderWay(s) \cup {c}
    /\ share'[s].views = share[s].views + 1

\* A request sends the file; it was counted if the share has a limit, or exists.
Sends(s) ==
    /\ given'[s] = given[s] + 1
    /\ \E c \in Clients :
        /\ share[s].max > 0 \/ Sound(s) => c \in UnderWay(s)
        /\ UnderWay(s)' = UnderWay(s) \ {c}
    /\ share'[s].views = share[s].views

\* A share that was issued keeps its limit and password, and does not come back.
Kept(s) ==
    /\ Issued(s)'
    /\ Exists(s)' => Exists(s)
    /\ share'[s].max = share[s].max
    /\ share'[s].secret = share[s].secret

LedgerStep(s) ==
    \/ /\ ~Issued(s)
       /\ given'[s] = 0
       /\ Issued(s)' => share'[s].views = 0 /\ UnderWay(s)' = {}
    \/ /\ Issued(s) /\ Kept(s)
       /\ Rests(s) \/ Counts(s) \/ Sends(s)

\* Whatever a step of this kind does, the limits stay kept.
LEMMA LedgerKeepsLimit ==
    ASSUME IInv, TypeOK', \A s \in Shares : LedgerStep(s)
    PROVE  LimitKept'
<1> SUFFICES ASSUME NEW s \in Shares, Issued(s)', share'[s].max > 0
             PROVE  /\ given'[s] + Cardinality(UnderWay(s)') <= share'[s].views
                    /\ share'[s].views <= share'[s].max
    BY DEF LimitKept
<1>t. TypeOK /\ LimitKept
    BY DEF IInv
<1>u. /\ IsFiniteSet(UnderWay(s)) /\ Cardinality(UnderWay(s)) \in Nat
      /\ given[s] \in Nat
    BY <1>t, UnderWayFinite DEF TypeOK
<1>v. share'[s] \in ShareRow
    BY DEF TypeOK, NoShare
<1>l. share'[s].max \in Nat /\ share'[s].views \in Nat
    BY <1>v, SharesAssumption DEF ShareRow, SharesAssumption
<1>1. CASE ~Issued(s)
    <2>1. given'[s] = 0 /\ share'[s].views = 0 /\ UnderWay(s)' = {}
        BY <1>1 DEF LedgerStep
    <2>2. Cardinality(UnderWay(s)') = 0
        BY <2>1, FS_EmptySet
    <2> QED
        BY <2>1, <2>2, <1>l
<1>2. CASE Issued(s)
    <2>1. Kept(s)
        BY <1>2 DEF LedgerStep
    <2>2. share[s].max = share'[s].max
        BY <2>1 DEF Kept
    <2>3. /\ given[s] + Cardinality(UnderWay(s)) <= share[s].views
          /\ share[s].views <= share[s].max
        BY <1>2, <1>t, <2>2 DEF LimitKept
    <2>4. share[s].views \in Nat
        BY <1>2, <1>t, IssuedRow DEF ShareRow
    <2>5. CASE Rests(s)
        <3>1. Cardinality(UnderWay(s)') \in Nat /\ Cardinality(UnderWay(s)') <= Cardinality(UnderWay(s))
            BY <1>u, <2>5, FS_Subset, FS_CardinalityType DEF Rests
        <3> QED
            BY <1>u, <1>l, <2>2, <2>3, <2>4, <2>5, <3>1 DEF Rests
    <2>6. CASE Counts(s)
        <3>1. PICK c \in Clients : UnderWay(s)' \subseteq UnderWay(s) \cup {c}
            BY <2>6 DEF Counts
        <3>2. /\ IsFiniteSet(UnderWay(s) \cup {c})
              /\ Cardinality(UnderWay(s) \cup {c}) \in Nat
              /\ Cardinality(UnderWay(s) \cup {c}) <= Cardinality(UnderWay(s)) + 1
            BY <1>u, FS_AddElement, FS_CardinalityType
        <3>3. /\ Cardinality(UnderWay(s)') \in Nat
              /\ Cardinality(UnderWay(s)') <= Cardinality(UnderWay(s) \cup {c})
            BY <3>1, <3>2, FS_Subset, FS_CardinalityType
        <3>4. share[s].views < share[s].max
            BY <2>6, <2>2 DEF Counts, Countable
        <3> QED
            BY <1>u, <1>l, <2>2, <2>3, <2>4, <2>6, <3>2, <3>3, <3>4 DEF Counts
    <2>7. CASE Sends(s)
        <3>1. PICK c \in UnderWay(s) : UnderWay(s)' \subseteq UnderWay(s) \ {c}
            BY <2>2, <2>7 DEF Sends
        <3>2. /\ IsFiniteSet(UnderWay(s) \ {c})
              /\ Cardinality(UnderWay(s) \ {c}) \in Nat
              /\ Cardinality(UnderWay(s) \ {c}) = Cardinality(UnderWay(s)) - 1
            BY <1>u, <3>1, FS_RemoveElement, FS_CardinalityType
        <3>3. /\ Cardinality(UnderWay(s)') \in Nat
              /\ Cardinality(UnderWay(s)') <= Cardinality(UnderWay(s) \ {c})
            BY <3>1, <3>2, FS_Subset, FS_CardinalityType
        <3> QED
            BY <1>u, <1>l, <2>2, <2>3, <2>4, <2>7, <3>2, <3>3 DEF Sends
    <2> QED
        BY <1>2, <2>5, <2>6, <2>7 DEF LedgerStep
<1> QED
    BY <1>1, <1>2

\* Nor do they lose a count of a share that is there and not spoiled.
LEMMA LedgerKeepsViews ==
    ASSUME IInv, ViewsAreServed, TypeOK', spoiled \subseteq spoiled', \A s \in Shares : LedgerStep(s)
    PROVE  ViewsAreServed'
<1> SUFFICES ASSUME NEW s \in Shares, Sound(s)
             PROVE  share'[s].views = given'[s] + Cardinality(UnderWay(s)')
    BY DEF ViewsAreServed, Sound
<1>t. TypeOK
    BY DEF IInv
<1>u. /\ IsFiniteSet(UnderWay(s)) /\ Cardinality(UnderWay(s)) \in Nat
      /\ given[s] \in Nat
    BY <1>t, UnderWayFinite DEF TypeOK
<1>1. CASE ~Issued(s)
    <2>1. given'[s] = 0 /\ share'[s].views = 0 /\ UnderWay(s)' = {}
        BY <1>1 DEF LedgerStep, Sound
    <2> QED
        BY <2>1, FS_EmptySet
<1>2. CASE Issued(s)
    <2>1. Kept(s)
        BY <1>2 DEF LedgerStep
    <2>2. share[s].views = given[s] + Cardinality(UnderWay(s))
        BY <2>1 DEF Kept, Sound, ViewsAreServed
    <2>3. CASE Rests(s)
        BY <2>2, <2>3 DEF Rests
    <2>4. CASE Counts(s)
        <3>1. PICK c \in Clients \ UnderWay(s) : UnderWay(s)' = UnderWay(s) \cup {c}
            BY <2>4 DEF Counts
        <3>2. Cardinality(UnderWay(s)') = Cardinality(UnderWay(s)) + 1
            BY <1>u, <3>1, FS_AddElement
        <3> QED
            BY <1>u, <2>2, <2>4, <3>2 DEF Counts
    <2>5. CASE Sends(s)
        <3>1. PICK c \in UnderWay(s) : UnderWay(s)' = UnderWay(s) \ {c}
            BY <2>5 DEF Sends
        <3>2. Cardinality(UnderWay(s)') = Cardinality(UnderWay(s)) - 1
            BY <1>u, <3>1, FS_RemoveElement
        <3> QED
            BY <1>u, <2>2, <2>5, <3>2 DEF Sends
    <2> QED
        BY <1>2, <2>3, <2>4, <2>5 DEF LedgerStep
<1> QED
    BY <1>1, <1>2

-----------------------------------------------------------------------------
(* The steps *)

\* What every step has to show; the limits then follow.
StepGoal == TypeOK' /\ Consistent' /\ \A s \in Shares : LedgerStep(s)

\* No share is issued, and none changes but in its state and its expiry.
SameShares ==
    \A s \in Shares :
        /\ Issued(s)' <=> Issued(s)
        /\ Issued(s) => Kept(s) /\ share'[s].views = share[s].views

\* Only issued shares are verified or spoiled.
OnlyIssued == \A s \in Shares : ~Issued(s)' => given'[s] = 0 /\ s \notin verified' /\ s \notin spoiled'

\* The requests go on as if nothing happened.
LEMMA TableStep ==
    ASSUME IInv, TypeOK', SameShares, UNCHANGED <<req, given>>, OnlyIssued
    PROVE  StepGoal
<1>1. \A s \in Shares : UnderWay(s)' = UnderWay(s)
    BY DEF UnderWay, Fetches
<1>2. \A s \in Shares : LedgerStep(s)
    BY <1>1 DEF SameShares, LedgerStep, Rests, IInv, Consistent
<1>3. ASSUME NEW c \in Clients
      PROVE  (req[c].pc = "sign" => Issued(req[c].share))' /\ (Fetches(c) => InOrder(c))'
    <2>1. req[c].pc \in {"sign", "find", "count", "open"} => req[c].share \in Shares
        BY RequestFields DEF IInv, TypeOK, Fetching
    <2> QED
        BY <2>1 DEF IInv, Consistent, SameShares, Kept, Fetches, InOrder
<1> QED
    BY <1>2, <1>3 DEF StepGoal, Consistent, OnlyIssued

\* One request moves: what the others are doing stays in order.
LEMMA OthersInOrder ==
    ASSUME IInv, \A s \in Shares : Issued(s) => Kept(s),
           NEW d \in Clients, req'[d] = req[d]
    PROVE  (req[d].pc = "sign" => Issued(req[d].share))' /\ (Fetches(d) => InOrder(d))'
<1>1. req[d].pc \in {"sign", "find", "count", "open"} => req[d].share \in Shares
    BY RequestFields DEF IInv, TypeOK, Fetching
<1> QED
    BY <1>1 DEF IInv, Consistent, Kept, Fetches, InOrder

\* A request that is not counted, or was counted before, moves and counts nothing.
LEMMA RequestStep ==
    ASSUME IInv, TypeOK', NEW c \in Clients, NEW r \in Requests, Goto(c, r),
           SameShares, UNCHANGED given, OnlyIssued,
           r.pc = "sign" => Issued(r.share),
           r.pc \in {"find", "count", "open"} =>
               /\ InOrder(c)'
               /\ r.counted => c \in UnderWay(r.share),
           \A s \in Shares : c \in UnderWay(s) /\ Sound(s) =>
               r.pc \in {"find", "count", "open"} /\ r.share = s /\ r.counted
    PROVE  StepGoal
<1>1. /\ req'[c] = r
      /\ \A d \in Clients : d # c => req'[d] = req[d]
    BY GotoType DEF IInv
<1>2. \A s \in Shares : /\ UnderWay(s)' \subseteq UnderWay(s)
                        /\ Sound(s) => UnderWay(s)' = UnderWay(s)
    BY <1>1 DEF UnderWay, Fetches
<1>3. \A s \in Shares : LedgerStep(s)
    <2> SUFFICES ASSUME NEW s \in Shares PROVE LedgerStep(s)
        OBVIOUS
    <2>1. CASE ~Issued(s)
        BY <2>1 DEF SameShares, LedgerStep, IInv, Consistent
    <2>2. CASE Issued(s)
        <3>1. given'[s] = given[s] /\ share'[s].views = share[s].views
            BY <2>2 DEF SameShares
        <3>2. Rests(s)
            BY <1>2, <3>1 DEF Rests
        <3> QED
            BY <2>2, <3>2 DEF SameShares, LedgerStep
    <2> QED
        BY <2>1, <2>2
<1>4. ASSUME NEW d \in Clients
      PROVE  (req[d].pc = "sign" => Issued(req[d].share))' /\ (Fetches(d) => InOrder(d))'
    <2>1. CASE d = c
        <3>1. r.pc = "sign" => r.share \in Shares
            BY RequestFields
        <3> QED
            BY <1>1, <2>1, <3>1 DEF Fetches, SameShares
    <2>2. CASE d # c
        BY <1>1, <2>2, OthersInOrder DEF SameShares
    <2> QED
        BY <2>1, <2>2
<1> QED
    BY <1>3, <1>4 DEF StepGoal, Consistent, OnlyIssued

LEMMA SameSharesUnchanged ==
    ASSUME UNCHANGED share
    PROVE  SameShares
BY DEF SameShares, Kept

LEMMA SharesEnd ==
    ASSUME TypeOK, NEW S \in SUBSET Shares, \A s \in S : Issued(s),
           share' = [s \in Shares |-> IF s \in S THEN [share[s] EXCEPT !.st = "gone"] ELSE share[s]]
    PROVE  SameShares /\ share' \in [Shares -> {NoShare} \cup ShareRow]
<1>1. ASSUME NEW s \in Shares
      PROVE  /\ share'[s] \in {NoShare} \cup ShareRow
             /\ Issued(s)' <=> Issued(s)
             /\ Issued(s) => Kept(s) /\ share'[s].views = share[s].views
    <2>1. CASE s \in S
        BY <2>1, IssuedRow DEF ShareRow, Kept
    <2>2. CASE s \notin S
        BY <2>2 DEF Kept, TypeOK
    <2> QED
        BY <2>1, <2>2
<1> QED
    BY <1>1 DEF SameShares

LEMMA OnlyIssuedUnchanged ==
    ASSUME IInv, SameShares, UNCHANGED given, verified' \subseteq verified, spoiled' \subseteq spoiled
    PROVE  OnlyIssued
BY DEF IInv, Consistent, OnlyIssued, SameShares

\* A request that is not a download is not counted, nor is one that comes to the count.
LEMMA NotCounted ==
    ASSUME IInv, NEW c \in Clients, req[c].pc \notin {"find", "open"}
    PROVE  \A s \in Shares : c \notin UnderWay(s)
BY DEF UnderWay, Fetches, IInv, Consistent, InOrder

\* The requests that end with a loss were counted for a share that was issued.
LEMMA LosingIssued ==
    ASSUME IInv, NEW C, NEW s \in LosingCount(C)
    PROVE  Issued(s)
<1>1. PICK c \in Clients : Fetches(c) /\ req[c].share = s
    BY DEF LosingCount, UnderWay
<1> QED
    BY <1>1 DEF IInv, Consistent, InOrder

\* A request that ends, and what it may leave spoiled.
LEMMA EndStep ==
    ASSUME IInv, NEW c \in Clients, Finish(c), UNCHANGED <<file, share, link, given>>,
           \A s \in (verified' \ verified) \cup (spoiled' \ spoiled) : s \in Shares /\ Issued(s),
           \A s \in Shares : c \in UnderWay(s) => s \in spoiled'
    PROVE  StepGoal
<1>1. TypeOK'
    BY IdleType, GotoType DEF IInv, TypeOK
<1>2. SameShares
    BY SameSharesUnchanged
<1>3. OnlyIssued
    BY DEF IInv, Consistent, OnlyIssued
<1> QED
    BY <1>1, <1>2, <1>3, IdleType, RequestStep DEF Idle, Sound

\* A request that goes on with a download.
LEMMA FetchStep ==
    ASSUME IInv, NEW c \in Clients, NEW r \in Fetching, Goto(c, r),
           UNCHANGED <<file, share, link, verified, given, spoiled>>,
           InOrder(c)', r.counted => c \in UnderWay(r.share),
           \A s \in Shares : c \in UnderWay(s) => r.share = s /\ r.counted
    PROVE  StepGoal
<1>0. r \in Requests
    BY DEF Requests
<1>1. TypeOK'
    BY <1>0, GotoType DEF IInv, TypeOK
<1>2. SameShares
    BY SameSharesUnchanged
<1>3. OnlyIssued
    BY <1>2, OnlyIssuedUnchanged
<1>4. r.pc \in {"find", "count", "open"}
    BY DEF Fetching
<1> QED
    BY <1>0, <1>1, <1>2, <1>3, <1>4, RequestStep

LEMMA CreateShareStep ==
    ASSUME IInv, NEW c \in Clients, NEW f \in Files, CreateShare(c, f)
    PROVE  StepGoal
<1>1. PICK secret \in BOOLEAN, max \in Limits, expiry \in {"never", "ahead"} :
        Goto(c, [pc |-> "share", file |-> f, secret |-> secret, max |-> max, expiry |-> expiry])
    BY DEF CreateShare
<1> DEFINE r == [pc |-> "share", file |-> f, secret |-> secret, max |-> max, expiry |-> expiry]
<1>2. r \in Requests /\ r.pc = "share"
    BY DEF Requests, Creating
<1> HIDE DEF r
<1>3. Goto(c, r)
    BY <1>1 DEF r
<1>4. TypeOK'
    BY <1>2, <1>3, GotoType DEF CreateShare, IInv, TypeOK
<1>5. SameShares /\ OnlyIssued
    BY SameSharesUnchanged, OnlyIssuedUnchanged DEF CreateShare
<1>n. \A t \in Shares : c \notin UnderWay(t)
    BY NotCounted DEF CreateShare, Idle
<1> QED
    BY <1>n, <1>2, <1>3, <1>4, <1>5, RequestStep DEF CreateShare

LEMMA CreateTempLinkStep ==
    ASSUME IInv, NEW c \in Clients, NEW f \in Files, CreateTempLink(c, f)
    PROVE  StepGoal
<1> DEFINE r == [pc |-> "link", file |-> f]
<1>1. r \in Requests /\ r.pc = "link"
    BY DEF Requests, Creating
<1>2. Goto(c, r)
    BY DEF CreateTempLink
<1> HIDE DEF r
<1>3. TypeOK'
    BY <1>1, <1>2, GotoType DEF CreateTempLink, IInv, TypeOK
<1>4. SameShares /\ OnlyIssued
    BY SameSharesUnchanged, OnlyIssuedUnchanged DEF CreateTempLink
<1>n. \A t \in Shares : c \notin UnderWay(t)
    BY NotCounted DEF CreateTempLink, Idle
<1> QED
    BY <1>n, <1>1, <1>2, <1>3, <1>4, RequestStep DEF CreateTempLink

LEMMA InsertShareStep ==
    ASSUME IInv, NEW c \in Clients, InsertShare(c)
    PROVE  StepGoal
<1>1. PICK s \in Shares :
        /\ ~Issued(s)
        /\ share' = [share EXCEPT ![s] =
            [st |-> "row", file |-> req[c].file, secret |-> req[c].secret,
             max |-> req[c].max, views |-> 0, expiry |-> req[c].expiry]]
        /\ spoiled' = IF file[req[c].file] = "live" THEN spoiled ELSE spoiled \cup {s}
    BY DEF InsertShare
<1>t. TypeOK
    BY DEF IInv
<1>r. req[c] \in Requests /\ req[c].pc = "share"
    BY <1>t DEF InsertShare, TypeOK
<1>2. share'[s] \in ShareRow /\ Issued(s)' /\ share'[s].views = 0
    BY <1>1, <1>t, <1>r, RequestFields DEF TypeOK, ShareRow
<1>3. \A t \in Shares : t # s => share'[t] = share[t]
    BY <1>1, <1>t DEF TypeOK
<1>4. TypeOK'
    <2>1. share' \in [Shares -> {NoShare} \cup ShareRow]
        BY <1>1, <1>2, <1>3, <1>t DEF TypeOK
    <2>2. req' \in [Clients -> Requests]
        BY <1>t, IdleType, GotoType DEF InsertShare
    <2> QED
        BY <1>1, <1>t, <2>1, <2>2 DEF InsertShare, TypeOK
<1>5. /\ req'[c] = Idle
      /\ \A d \in Clients : d # c => req'[d] = req[d]
    BY <1>t, IdleType, GotoType DEF InsertShare
<1>6. \A t \in Shares : UnderWay(t)' = UnderWay(t)
    <2>1. \A t \in Shares : c \notin UnderWay(t)
        BY <1>r, NotCounted
    <2> QED
        BY <1>5, <2>1 DEF UnderWay, Fetches, Idle
<1>7. UnderWay(s) = {}
    BY <1>1 DEF IInv, Consistent, UnderWay, InOrder
<1>8. ASSUME NEW t \in Shares
      PROVE  LedgerStep(t)
    <2>1. CASE t = s
        BY <1>1, <1>2, <1>6, <1>7, <2>1 DEF LedgerStep, InsertShare, IInv, Consistent
    <2>2. CASE t # s
        BY <1>3, <1>6, <2>2 DEF LedgerStep, Kept, Rests, InsertShare, IInv, Consistent
    <2> QED
        BY <2>1, <2>2
<1>9. ASSUME NEW d \in Clients
      PROVE  (req[d].pc = "sign" => Issued(req[d].share))' /\ (Fetches(d) => InOrder(d))'
    <2>1. CASE d = c
        BY <1>5, <2>1 DEF Fetches, Idle
    <2>2. CASE d # c
        <3>1. \A t \in Shares : Issued(t) => Kept(t)
            BY <1>1, <1>3 DEF Kept
        <3> QED
            BY <1>5, <2>2, <3>1, OthersInOrder
    <2> QED
        BY <2>1, <2>2
<1>10. \A t \in Shares : ~Issued(t)' => given'[t] = 0 /\ t \notin verified' /\ t \notin spoiled'
    BY <1>1, <1>2, <1>3 DEF InsertShare, IInv, Consistent
<1> QED
    BY <1>4, <1>8, <1>9, <1>10 DEF StepGoal, Consistent

LEMMA InsertTempDownloadStep ==
    ASSUME IInv, NEW c \in Clients, InsertTempDownload(c)
    PROVE  StepGoal
<1>t. TypeOK /\ req[c] \in Requests /\ req[c].pc = "link"
    BY DEF IInv, InsertTempDownload, TypeOK
<1>1. TypeOK'
    <2>1. link' \in [Links -> {NoLink} \cup LinkRow]
        BY <1>t, RequestFields DEF InsertTempDownload, TypeOK, LinkRow
    <2>2. req' \in [Clients -> Requests]
        BY <1>t, IdleType, GotoType DEF InsertTempDownload
    <2> QED
        BY <1>t, <2>1, <2>2 DEF InsertTempDownload, TypeOK
<1>2. SameShares /\ OnlyIssued
    BY SameSharesUnchanged, OnlyIssuedUnchanged DEF InsertTempDownload
<1>n. \A s \in Shares : c \notin UnderWay(s)
    BY <1>t, NotCounted
<1> QED
    BY <1>n, <1>1, <1>2, IdleType, RequestStep DEF InsertTempDownload, Idle

LEMMA VerifySharePasswordStep ==
    ASSUME IInv, NEW c \in Clients, NEW s \in Shares, VerifySharePassword(c, s)
    PROVE  StepGoal
<1> DEFINE r == [pc |-> "sign", share |-> s]
<1>1. r \in Requests /\ r.pc = "sign" /\ r.share = s
    BY DEF Requests, Verifying
<1>2. Goto(c, r)
    BY DEF VerifySharePassword
<1> HIDE DEF r
<1>3. TypeOK'
    BY <1>1, <1>2, GotoType DEF VerifySharePassword, IInv, TypeOK
<1>4. SameShares /\ OnlyIssued
    BY SameSharesUnchanged, OnlyIssuedUnchanged DEF VerifySharePassword
<1>n. \A t \in Shares : c \notin UnderWay(t)
    BY NotCounted DEF VerifySharePassword, Idle
<1> QED
    BY <1>n, <1>1, <1>2, <1>3, <1>4, RequestStep DEF VerifySharePassword

LEMMA SignVerifyTokenStep ==
    ASSUME IInv, NEW c \in Clients, SignVerifyToken(c)
    PROVE  StepGoal
<1>1. req[c].share \in Shares /\ Issued(req[c].share)
    BY RequestFields DEF SignVerifyToken, IInv, TypeOK, Consistent
<1>2. verified' \ verified \subseteq {req[c].share} /\ spoiled' \ spoiled = {}
    BY DEF SignVerifyToken
<1>n. \A s \in Shares : c \notin UnderWay(s)
    BY NotCounted DEF SignVerifyToken
<1> QED
    BY <1>n, <1>1, <1>2, EndStep DEF SignVerifyToken

LEMMA DownloadStep ==
    ASSUME IInv, NEW c \in Clients, NEW s \in Shares,
           DownloadSharedFile(c, s) \/ DownloadWithVerifyToken(c, s)
    PROVE  StepGoal
<1>1. PICK proved \in BOOLEAN : Goto(c, Fetch(IF proved THEN "count" ELSE "find", s, proved, FALSE))
    BY DEF DownloadSharedFile, DownloadWithVerifyToken
<1> DEFINE r == Fetch(IF proved THEN "count" ELSE "find", s, proved, FALSE)
<1>2. /\ r \in Fetching /\ r.share = s /\ r.counted = FALSE
      /\ r.pc = IF proved THEN "count" ELSE "find"
      /\ r.proved = proved
    BY DEF Fetch, Fetching
<1>3. Goto(c, r)
    BY <1>1
<1> HIDE DEF r
<1>4. UNCHANGED <<file, share, link, verified, given, spoiled>>
    BY DEF DownloadSharedFile, DownloadWithVerifyToken
<1>5. req'[c] = r
    BY <1>2, <1>3, GotoType DEF IInv, Requests
<1>6. InOrder(c)'
    BY <1>2, <1>4, <1>5 DEF InOrder, DownloadSharedFile, DownloadWithVerifyToken
<1>d. req[c] = Idle
    BY DEF DownloadSharedFile, DownloadWithVerifyToken
<1>i. req[c].pc = "idle"
    BY <1>d DEF Idle
<1>7. \A t \in Shares : c \notin UnderWay(t)
    BY <1>i, NotCounted
<1> QED
    BY <1>2, <1>3, <1>4, <1>6, <1>7, FetchStep

\* What a download that is on its way looks like.
LEMMA Fetcher ==
    ASSUME IInv, NEW c \in Clients, Fetches(c)
    PROVE  /\ req[c] \in Fetching /\ req[c].share \in Shares
           /\ Issued(req[c].share)
           /\ InOrder(c)
BY RequestFields DEF IInv, TypeOK, Consistent, Fetches, Fetching, InOrder

LEMMA FindFileStep ==
    ASSUME IInv, NEW c \in Clients, FindFile(c)
    PROVE  StepGoal
<1>0. /\ req[c] \in Fetching /\ req[c].share \in Shares
      /\ Issued(req[c].share) /\ InOrder(c)
    BY Fetcher DEF FindFile, Fetches
<1>1. CASE file[share[req[c].share].file] = "live"
    <2> DEFINE r == [req[c] EXCEPT !.pc = IF req[c].proved THEN "open" ELSE "count"]
    <2>1. /\ r \in Fetching
          /\ r.share = req[c].share /\ r.proved = req[c].proved /\ r.counted = req[c].counted
          /\ r.pc = IF req[c].proved THEN "open" ELSE "count"
        BY <1>0 DEF Fetching
    <2>2. Goto(c, r) /\ UNCHANGED <<file, share, link, verified, given, spoiled>>
        BY <1>1 DEF FindFile
    <2> HIDE DEF r
    <2>3. req'[c] = r
        BY <2>1, <2>2, GotoType DEF IInv, Requests
    <2>4. InOrder(c)'
        BY <1>0, <2>1, <2>2, <2>3 DEF InOrder, FindFile
    <2>5. r.counted => c \in UnderWay(r.share)
        BY <2>1 DEF UnderWay, Fetches, FindFile
    <2>6. \A s \in Shares : c \in UnderWay(s) => r.share = s /\ r.counted
        BY <2>1 DEF UnderWay
    <2> QED
        BY <2>1, <2>2, <2>4, <2>5, <2>6, FetchStep
<1>2. CASE file[share[req[c].share].file] # "live"
    <2>1. spoiled' \ spoiled \subseteq {req[c].share}
        BY <1>2 DEF FindFile
    <2>2. verified' \ verified = {} /\ Finish(c) /\ UNCHANGED <<file, share, link, given>>
        BY <1>2 DEF FindFile
    <2>3. \A s \in Shares : c \in UnderWay(s) => s \in spoiled'
        BY <1>2 DEF FindFile, UnderWay
    <2> QED
        BY <1>0, <2>1, <2>2, <2>3, EndStep
<1> QED
    BY <1>1, <1>2

\* The UPDATE takes effect: the share is counted, and the request goes on or is lost.
LEMMA CountedStep ==
    ASSUME IInv, NEW c \in Clients, NEW s \in Shares, Issued(s), NEW r \in Requests, Goto(c, r),
           req[c].pc = "count", Countable(s), share' = [share EXCEPT ![s].views = @ + 1],
           UNCHANGED <<file, link, verified, given>>,
           spoiled' \in {spoiled, spoiled \cup {s}},
           \/ r = Idle /\ s \in spoiled'
           \/ /\ r \in Fetching /\ r.share = s /\ r.counted
              /\ r.pc = IF r.proved THEN "find" ELSE "open"
    PROVE  StepGoal
<1>t. TypeOK
    BY DEF IInv
<1>n. \A t \in Shares : c \notin UnderWay(t)
    BY NotCounted
<1>1. /\ req' \in [Clients -> Requests]
      /\ req'[c] = r
      /\ \A d \in Clients : d # c => req'[d] = req[d]
    BY <1>t, GotoType
<1>2. share[s] \in ShareRow
    BY <1>t, IssuedRow
<1>3. share'[s] = [share[s] EXCEPT !.views = @ + 1] /\ share'[s] \in ShareRow
    BY <1>t, <1>2 DEF TypeOK, ShareRow
<1>4. \A t \in Shares : t # s => share'[t] = share[t]
    BY <1>t DEF TypeOK
<1>5. TypeOK'
    <2>1. share' \in [Shares -> {NoShare} \cup ShareRow]
        BY <1>3, <1>4, <1>t DEF TypeOK
    <2> QED
        BY <1>t, <1>1, <2>1 DEF TypeOK
<1>6. \A t \in Shares : Issued(t) => Kept(t)
    BY <1>2, <1>3, <1>4 DEF Kept, ShareRow
<1>7. ASSUME NEW t \in Shares
      PROVE  LedgerStep(t)
    <2>1. CASE t = s
        <3>1. UnderWay(s)' \subseteq UnderWay(s) \cup {c}
            BY <1>1 DEF UnderWay, Fetches
        <3>2. Sound(s) => UnderWay(s)' = UnderWay(s) \cup {c}
            BY <1>1 DEF UnderWay, Fetches, Sound, Fetching
        <3>3. c \in Clients \ UnderWay(s)
            BY <1>n
        <3>4. Counts(s)
            BY <1>2, <1>3, <3>1, <3>2, <3>3 DEF Counts, ShareRow
        <3> QED
            BY <1>6, <2>1, <3>4 DEF LedgerStep
    <2>2. CASE t # s
        <3>1. UnderWay(t)' = UnderWay(t)
            BY <1>1, <1>n, <2>2 DEF UnderWay, Fetches, Idle
        <3>2. Rests(t)
            BY <1>4, <2>2, <3>1 DEF Rests
        <3> QED
            BY <1>4, <1>6, <2>2, <3>2 DEF LedgerStep, IInv, Consistent
    <2> QED
        BY <2>1, <2>2
<1>8. ASSUME NEW d \in Clients
      PROVE  (req[d].pc = "sign" => Issued(req[d].share))' /\ (Fetches(d) => InOrder(d))'
    <2>1. CASE d = c
        <3>1. CASE r = Idle
            BY <1>1, <2>1, <3>1 DEF Fetches, Idle
        <3>2. CASE r # Idle
            BY <1>1, <1>6, <2>1, <3>2 DEF Fetches, InOrder, Fetching, Kept
        <3> QED
            BY <3>1, <3>2
    <2>2. CASE d # c
        BY <1>1, <1>6, <2>2, OthersInOrder
    <2> QED
        BY <2>1, <2>2
<1>9. \A t \in Shares : ~Issued(t)' => given'[t] = 0 /\ t \notin verified' /\ t \notin spoiled'
    BY <1>4, <1>6 DEF IInv, Consistent, Kept
<1> QED
    BY <1>5, <1>7, <1>8, <1>9 DEF StepGoal, Consistent

LEMMA IncrementStep ==
    ASSUME IInv, NEW c \in Clients, IncrementShareViewCountIfUnderMax(c)
    PROVE  StepGoal
<1>0. /\ req[c] \in Fetching /\ req[c].share \in Shares
      /\ Issued(req[c].share) /\ InOrder(c)
    BY Fetcher DEF IncrementShareViewCountIfUnderMax, Fetches
<1>n. \A t \in Shares : c \notin UnderWay(t)
    BY NotCounted DEF IncrementShareViewCountIfUnderMax
<1> DEFINE s == req[c].share
           r(counted) == Fetch(IF req[c].proved THEN "find" ELSE "open", s, req[c].proved, counted)
<1>1. \A counted \in BOOLEAN :
        /\ r(counted) \in Fetching /\ r(counted) \in Requests
        /\ r(counted).share = s /\ r(counted).counted = counted
        /\ r(counted).proved = req[c].proved
        /\ r(counted).pc = IF req[c].proved THEN "find" ELSE "open"
    BY <1>0 DEF Fetch, Fetching, Requests
<1>2. CASE Countable(s)
    <2>1. share' = [share EXCEPT ![s].views = @ + 1] /\ Goto(c, r(TRUE))
        BY <1>2 DEF IncrementShareViewCountIfUnderMax
    <2>2. UNCHANGED <<file, link, verified, given>> /\ spoiled' = spoiled
        BY DEF IncrementShareViewCountIfUnderMax
    <2> HIDE DEF r
    <2> QED
        BY <1>0, <1>1, <1>2, <2>1, <2>2, CountedStep DEF IncrementShareViewCountIfUnderMax
<1>3. CASE ~Countable(s) /\ share[s].max > 0
    <2>1. /\ Finish(c) /\ UNCHANGED <<file, share, link, given>>
          /\ verified' \ verified = {} /\ spoiled' \ spoiled = {}
        BY <1>3 DEF IncrementShareViewCountIfUnderMax
    <2> QED
        BY <1>n, <2>1, EndStep
<1>4. CASE ~Countable(s) /\ ~(share[s].max > 0)
    <2>1. Goto(c, r(FALSE)) /\ UNCHANGED <<file, share, link, verified, given, spoiled>>
        BY <1>4 DEF IncrementShareViewCountIfUnderMax
    <2> HIDE DEF r
    <2>2. req'[c] = r(FALSE)
        BY <1>1, <2>1, GotoType DEF IInv
    <2>3. InOrder(c)'
        BY <1>0, <1>1, <1>4, <2>1, <2>2 DEF InOrder, Countable
    <2> QED
        BY <1>n, <1>1, <2>1, <2>3, FetchStep
<1> QED
    BY <1>2, <1>3, <1>4

LEMMA LoseAnswerStep ==
    ASSUME IInv, NEW c \in Clients, LoseAnswer(c)
    PROVE  StepGoal
<1>1. req[c].share \in Shares /\ Issued(req[c].share)
    BY Fetcher DEF LoseAnswer, Fetches
<1>2. spoiled' \in {spoiled, spoiled \cup {req[c].share}}
    BY DEF LoseAnswer
<1> QED
    BY <1>1, <1>2, IdleType, CountedStep DEF LoseAnswer

LEMMA SendFileStep ==
    ASSUME IInv, NEW c \in Clients, SendFile(c)
    PROVE  StepGoal
<1>t. TypeOK
    BY DEF IInv
<1>s. PICK s \in Shares : s = req[c].share
    BY Fetcher DEF SendFile, Fetches
<1>0. /\ req[c] \in Fetching
      /\ Issued(s) /\ InOrder(c)
    BY <1>s, Fetcher DEF SendFile, Fetches
<1>1. /\ req' \in [Clients -> Requests]
      /\ req'[c] = Idle
      /\ \A d \in Clients : d # c => req'[d] = req[d]
    BY <1>t, IdleType, GotoType DEF SendFile
<1>2. /\ given' \in [Shares -> Nat]
      /\ given'[s] = given[s] + 1
      /\ \A t \in Shares : t # s => given'[t] = given[t]
    BY <1>s, <1>t DEF SendFile, TypeOK
<1>3. TypeOK'
    BY <1>t, <1>1, <1>2 DEF TypeOK, SendFile
<1>4. \A t \in Shares : Issued(t) => Kept(t)
    BY DEF Kept, SendFile
<1>5. ASSUME NEW t \in Shares
      PROVE  LedgerStep(t)
    <2>1. UnderWay(t)' = UnderWay(t) \ {c}
        BY <1>1 DEF UnderWay, Fetches, Idle
    <2>2. CASE t = s
        <3>1. share[s].max > 0 => req[c].counted
            BY <1>s, <1>0 DEF InOrder, SendFile
        <3>2. share[s].max > 0 => c \in UnderWay(s)
            BY <1>s, <3>1 DEF UnderWay, Fetches, SendFile
        <3>3. Exists(s) => c \in UnderWay(s)
            BY <1>s, <1>0 DEF InOrder, UnderWay, Fetches, SendFile
        <3>4. Sends(s)
            <4>1. UNCHANGED share
                BY DEF SendFile
            <4> QED
                BY <1>2, <2>1, <2>2, <3>2, <3>3, <4>1 DEF Sends, Sound
        <3> QED
            BY <1>0, <1>4, <2>2, <3>4 DEF LedgerStep
    <2>3. CASE t # s
        <3>1. given'[t] = given[t] /\ share'[t] = share[t]
            BY <1>2, <2>3 DEF SendFile
        <3>2. c \notin UnderWay(t)
            BY <1>s, <2>3 DEF UnderWay
        <3>3. Rests(t)
            BY <2>1, <3>1, <3>2 DEF Rests
        <3> QED
            BY <1>4, <3>1, <3>3 DEF LedgerStep, IInv, Consistent
    <2> QED
        BY <2>2, <2>3
<1>6. ASSUME NEW d \in Clients
      PROVE  (req[d].pc = "sign" => Issued(req[d].share))' /\ (Fetches(d) => InOrder(d))'
    <2>1. CASE d = c
        BY <1>1, <2>1 DEF Fetches, Idle
    <2>2. CASE d # c
        BY <1>1, <1>4, <2>2, OthersInOrder
    <2> QED
        BY <2>1, <2>2
<1>7. \A t \in Shares : ~Issued(t)' => given'[t] = 0 /\ t \notin verified' /\ t \notin spoiled'
    BY <1>0, <1>2 DEF SendFile, IInv, Consistent
<1> QED
    BY <1>3, <1>5, <1>6, <1>7 DEF StepGoal, Consistent

LEMMA MissBlobStep ==
    ASSUME IInv, NEW c \in Clients, MissBlob(c)
    PROVE  StepGoal
<1>1. req[c].share \in Shares /\ Issued(req[c].share)
    BY Fetcher DEF MissBlob, Fetches
<1>2. verified' \ verified = {} /\ spoiled' \ spoiled \subseteq {req[c].share}
    BY DEF MissBlob
<1>3. \A s \in Shares : c \in UnderWay(s) => s \in spoiled'
    BY DEF MissBlob, UnderWay
<1> QED
    BY <1>1, <1>2, <1>3, EndStep DEF MissBlob

LEMMA FailStep ==
    ASSUME IInv, NEW c \in Clients, Fail(c)
    PROVE  StepGoal
<1>1. LosingCount({c}) \in SUBSET Shares /\ \A s \in LosingCount({c}) : Issued(s)
    BY LosingIssued DEF LosingCount
<1>2. verified' \ verified = {} /\ spoiled' \ spoiled \subseteq LosingCount({c})
    BY DEF Fail
<1>3. \A s \in Shares : c \in UnderWay(s) => s \in spoiled'
    BY DEF Fail, LosingCount
<1> QED
    BY <1>1, <1>2, <1>3, EndStep DEF Fail

LEMMA CrashStep ==
    ASSUME IInv, Crash
    PROVE  StepGoal
<1>t. TypeOK
    BY DEF IInv
<1>0. \A s \in LosingCount(Clients) : s \in Shares /\ Issued(s)
    BY LosingIssued DEF LosingCount
<1>1. TypeOK'
    BY <1>t, <1>0, IdleType DEF Crash, TypeOK
<1>2. \A c \in Clients : ~Fetches(c)' /\ (req[c].pc # "sign")'
    BY DEF Crash, Fetches, Idle
<1>3. \A s \in Shares : UnderWay(s)' = {}
    BY <1>2 DEF UnderWay
<1>4. \A s \in Shares : UnderWay(s) # {} => s \in spoiled'
    BY DEF Crash, LosingCount, UnderWay
<1>5. ASSUME NEW s \in Shares
      PROVE  LedgerStep(s)
    <2>1. Rests(s)
        BY <1>3, <1>4 DEF Rests, Sound, Crash
    <2> QED
        BY <2>1 DEF LedgerStep, Kept, Crash, IInv, Consistent
<1>6. \A s \in Shares : ~Issued(s)' => given'[s] = 0 /\ s \notin verified' /\ s \notin spoiled'
    BY <1>0 DEF Crash, IInv, Consistent
<1> QED
    BY <1>1, <1>2, <1>5, <1>6 DEF StepGoal, Consistent

\* Deletion, restoration, expiry and the hourly job: no request moves.
LEMMA QuietStep ==
    ASSUME IInv,
           \/ \E s \in Shares : DeleteShare(s) \/ ExpireShare(s) \/ VerifyTokenExpires(s)
           \/ \E l \in Links : ExpireLink(l)
           \/ \E f \in Files : DeleteFile(f) \/ RestoreFile(f) \/ HardDeleteFiles(f) \/ HardDeleteFile(f)
           \/ CleanExpiredTempDownloads
    PROVE  StepGoal
<1>t. TypeOK
    BY DEF IInv
<1>a. ASSUME SameShares, share' \in [Shares -> {NoShare} \cup ShareRow],
             file' \in [Files -> {"live", "deleted", "purged"}],
             link' \in [Links -> {NoLink} \cup LinkRow],
             verified' \subseteq verified, UNCHANGED <<req, given, spoiled>>
      PROVE  StepGoal
    <2>1. TypeOK'
        BY <1>a, <1>t DEF TypeOK
    <2> QED
        BY <1>a, <2>1, OnlyIssuedUnchanged, TableStep
<1>l. \A l \in Links : link[l].st = "row" => link[l] \in LinkRow
    BY <1>t DEF TypeOK, NoLink
<1>1. ASSUME NEW s \in Shares, DeleteShare(s)
      PROVE  StepGoal
    <2>1. share' = [t \in Shares |-> IF t \in {s} THEN [share[t] EXCEPT !.st = "gone"] ELSE share[t]]
        BY <1>1, <1>t DEF DeleteShare, TypeOK
    <2>2. SameShares /\ share' \in [Shares -> {NoShare} \cup ShareRow]
        BY <1>1, <1>t, <2>1, SharesEnd DEF DeleteShare
    <2> QED
        BY <1>1, <1>a, <1>t, <2>2 DEF DeleteShare, TypeOK
<1>2. ASSUME NEW s \in Shares, ExpireShare(s)
      PROVE  StepGoal
    <2>1. share[s] \in ShareRow
        BY <1>2, <1>t, IssuedRow DEF ExpireShare
    <2>2. ASSUME NEW t \in Shares
          PROVE  /\ share'[t] \in {NoShare} \cup ShareRow
                 /\ Issued(t)' <=> Issued(t)
                 /\ Issued(t) => Kept(t) /\ share'[t].views = share[t].views
        BY <1>2, <1>t, <2>1 DEF ExpireShare, TypeOK, ShareRow, Kept
    <2>3. SameShares /\ share' \in [Shares -> {NoShare} \cup ShareRow]
        BY <1>2, <1>t, <2>2 DEF SameShares, ExpireShare, TypeOK
    <2> QED
        BY <1>2, <1>a, <1>t, <2>3 DEF ExpireShare, TypeOK
<1>3. ASSUME NEW s \in Shares, VerifyTokenExpires(s)
      PROVE  StepGoal
    BY <1>3, <1>a, <1>t, SameSharesUnchanged DEF VerifyTokenExpires, TypeOK
<1>4. ASSUME NEW l \in Links, ExpireLink(l)
      PROVE  StepGoal
    <2>1. link' \in [Links -> {NoLink} \cup LinkRow]
        BY <1>4, <1>t, <1>l DEF ExpireLink, TypeOK, LinkRow
    <2> QED
        BY <1>4, <1>a, <1>t, <2>1, SameSharesUnchanged DEF ExpireLink, TypeOK
<1>5. ASSUME NEW f \in Files, DeleteFile(f) \/ RestoreFile(f) \/ HardDeleteFiles(f)
      PROVE  StepGoal
    BY <1>5, <1>a, <1>t, SameSharesUnchanged DEF DeleteFile, RestoreFile, HardDeleteFiles, SetFile, TypeOK
<1>6. ASSUME NEW f \in Files, HardDeleteFile(f)
      PROVE  StepGoal
    <2> DEFINE S == {s \in Shares : Exists(s) /\ share[s].file = f}
    <2>1. share' = [s \in Shares |-> IF s \in S THEN [share[s] EXCEPT !.st = "gone"] ELSE share[s]]
        BY <1>6 DEF HardDeleteFile
    <2>2. SameShares /\ share' \in [Shares -> {NoShare} \cup ShareRow]
        BY <1>t, <2>1, SharesEnd
    <2>3. link' \in [Links -> {NoLink} \cup LinkRow]
        BY <1>6, <1>t, <1>l DEF HardDeleteFile, TypeOK, LinkRow
    <2>4. UNCHANGED <<verified, req, given, spoiled>> /\ file' \in [Files -> {"live", "deleted", "purged"}]
        BY <1>6, <1>t DEF HardDeleteFile, SetFile, TypeOK
    <2> QED
        BY <1>a, <2>2, <2>3, <2>4
<1>7. ASSUME CleanExpiredTempDownloads
      PROVE  StepGoal
    <2>1. link' \in [Links -> {NoLink} \cup LinkRow]
        BY <1>7, <1>t, <1>l DEF CleanExpiredTempDownloads, TypeOK, LinkRow, LinkPast
    <2> QED
        BY <1>7, <1>a, <1>t, <2>1, SameSharesUnchanged DEF CleanExpiredTempDownloads, TypeOK
<1> QED
    BY <1>1, <1>2, <1>3, <1>4, <1>5, <1>6, <1>7

LEMMA NextStep ==
    ASSUME IInv, [Next]_vars
    PROVE  StepGoal
<1>1. CASE UNCHANGED vars
    <2>1. TypeOK' /\ SameShares /\ OnlyIssued
        BY <1>1, SameSharesUnchanged, OnlyIssuedUnchanged DEF vars, IInv, TypeOK
    <2> QED
        BY <1>1, <2>1, TableStep DEF vars
<1>2. ASSUME NEW c \in Clients, Request(c)
      PROVE  StepGoal
    BY <1>2, CreateShareStep, CreateTempLinkStep, InsertShareStep, InsertTempDownloadStep,
       VerifySharePasswordStep, SignVerifyTokenStep, DownloadStep, FindFileStep, IncrementStep,
       SendFileStep, MissBlobStep, FailStep, LoseAnswerStep DEF Request
<1>3. CASE Crash
    BY <1>3, CrashStep
<1> QED
    BY <1>1, <1>2, <1>3, QuietStep DEF Next

LEMMA SpoiledStays ==
    ASSUME [Next]_vars
    PROVE  spoiled \subseteq spoiled'
<1>1. ASSUME NEW c \in Clients, Request(c)
      PROVE  spoiled \subseteq spoiled'
    BY <1>1 DEF Request, CreateShare, CreateTempLink, InsertShare, InsertTempDownload,
                VerifySharePassword, DownloadSharedFile, DownloadWithVerifyToken, SignVerifyToken,
                FindFile, IncrementShareViewCountIfUnderMax, SendFile, MissBlob, Fail, LoseAnswer
<1> QED
    BY <1>1 DEF Next, vars, DeleteShare, ExpireShare, VerifyTokenExpires, ExpireLink, DeleteFile,
                RestoreFile, HardDeleteFiles, HardDeleteFile, SetFile, CleanExpiredTempDownloads, Crash

-----------------------------------------------------------------------------
(* The theorems *)

\* The inductive invariant: types, the order in which a request counts and
\* sends, and the limits.
THEOREM Inductive == Spec => []IInv
<1>1. Init => IInv
    <2> SUFFICES ASSUME Init PROVE IInv
        OBVIOUS
    <2>1. TypeOK
        BY DEF Init, TypeOK, Requests
    <2> QED
        BY <2>1 DEF Init, IInv, Consistent, LimitKept, Fetches, Idle, NoShare
<1>2. IInv /\ [Next]_vars => IInv'
    BY NextStep, LedgerKeepsLimit DEF StepGoal, IInv
<1> QED
    BY <1>1, <1>2, PTL DEF Spec

\* No interleaving of downloads, whichever of the two orders each of them
\* counts and looks up in, sends the file of a share more often than its limit.
THEOREM LimitIsKept == Spec => []LimitKept
BY Inductive, PTL DEF IInv

\* view_count is the number of downloads that were sent or are on their way to it,
\* for every share that is there and that no failure, and no purge of its file, has
\* cost a count: no interleaving of requests loses a count or counts twice.
THEOREM ViewsCountServed == Spec => []ViewsAreServed
<1>1. Init => ViewsAreServed
    BY DEF Init, ViewsAreServed, NoShare
<1>2. IInv /\ TypeOK' /\ ViewsAreServed /\ [Next]_vars => ViewsAreServed'
    BY NextStep, SpoiledStays, LedgerKeepsViews DEF StepGoal
<1>3. IInv => TypeOK
    BY DEF IInv
<1> QED
    BY <1>1, <1>2, <1>3, Inductive, PTL DEF Spec

-----------------------------------------------------------------------------
(* Shares keep the promise of DownloadBudget *)

\* A step that changes no share but in its expiry, and sends nothing.
LEMMA StutterStep ==
    ASSUME UNCHANGED given,
           \A s \in Shares :
               /\ share'[s].st = share[s].st
               /\ Issued(s) => share'[s].max = share[s].max /\ share'[s].views = share[s].views
    PROVE  UNCHANGED Budget!budgetVars
<1>1. offer' = offer
    BY DEF offer
<1>2. limit' = limit
    BY DEF limit
<1>3. sold' = sold
    BY DEF sold
<1> QED
    BY <1>1, <1>2, <1>3 DEF Budget!budgetVars

LEMMA WithdrawStep ==
    ASSUME TypeOK, UNCHANGED given, NEW S \in SUBSET Shares, \A s \in S : Exists(s),
           share' = [s \in Shares |-> IF s \in S THEN [share[s] EXCEPT !.st = "gone"] ELSE share[s]]
    PROVE  Budget!Withdraw
<1>1. ASSUME NEW s \in Shares
      PROVE  /\ s \in S => share[s].st = "row" /\ share'[s].st = "gone"
             /\ s \notin S => share'[s].st = share[s].st
             /\ Issued(s)' <=> Issued(s)
             /\ Issued(s) => share'[s].max = share[s].max /\ share'[s].views = share[s].views
    <2>1. CASE s \in S
        BY <2>1, IssuedRow DEF ShareRow
    <2>2. CASE s \notin S
        BY <2>2
    <2> QED
        BY <2>1, <2>2
<1>2. \A s \in S : offer[s] = "open"
    BY <1>1 DEF offer
<1>3. offer' = [s \in Shares |-> IF s \in S THEN "withdrawn" ELSE offer[s]]
    BY <1>1 DEF offer
<1>4. UNCHANGED <<limit, sold>>
    BY <1>1 DEF limit, sold
<1> QED
    BY <1>2, <1>3, <1>4 DEF Budget!Withdraw

LEMMA SellStep ==
    ASSUME TypeOK, UNCHANGED given, NEW s \in Shares, Countable(s),
           share' = [share EXCEPT ![s].views = @ + 1]
    PROVE  Budget!Sell(s)
<1>1. share[s] \in ShareRow /\ share[s].st = "row"
    BY IssuedRow DEF Countable
<1>2. share'[s] = [share[s] EXCEPT !.views = @ + 1] /\ \A t \in Shares : t # s => share'[t] = share[t]
    BY DEF TypeOK
<1>3. /\ share'[s].st = "row" /\ share'[s].max = share[s].max
      /\ share'[s].views = share[s].views + 1
    BY <1>1, <1>2 DEF ShareRow
<1>4. offer[s] = "open" /\ limit[s] = share[s].max /\ sold[s] = share[s].views
    BY <1>1 DEF offer, limit, sold
<1>5. UNCHANGED <<offer, limit>>
    BY <1>1, <1>2, <1>3 DEF offer, limit
<1>6. sold' = [sold EXCEPT ![s] = @ + 1]
    <2>1. sold'[s] = sold[s] + 1
        BY <1>3, <1>4 DEF sold
    <2>2. \A t \in Shares : t # s => sold'[t] = sold[t]
        BY <1>2 DEF sold
    <2>3. sold' = [t \in Shares |-> sold'[t]] /\ sold = [t \in Shares |-> sold[t]]
        BY DEF sold
    <2> QED
        BY <2>1, <2>2, <2>3
<1>7. share[s].max \in Nat
    BY <1>1, SharesAssumption DEF ShareRow, SharesAssumption
<1> QED
    BY <1>4, <1>5, <1>6, <1>7 DEF Budget!Sell, Countable

LEMMA UseStep ==
    ASSUME IInv, NEW c \in Clients, SendFile(c)
    PROVE  Budget!Use(req[c].share)
<1>s. PICK s \in Shares : s = req[c].share
    BY Fetcher DEF SendFile, Fetches
<1>t. TypeOK /\ LimitKept
    BY DEF IInv
<1>1. Issued(s) /\ InOrder(c)
    BY <1>s, Fetcher DEF SendFile, Fetches
<1>2. share[s] \in ShareRow /\ share[s].max \in Nat /\ share[s].views \in Nat
    BY <1>1, <1>t, IssuedRow, SharesAssumption DEF ShareRow, SharesAssumption
<1>3. ASSUME share[s].max > 0
      PROVE  given[s] < share[s].views
    <2>1. c \in UnderWay(s)
        BY <1>s, <1>1, <1>3 DEF InOrder, UnderWay, Fetches, SendFile
    <2>2. Cardinality(UnderWay(s)) \in Nat /\ Cardinality(UnderWay(s)) # 0
        BY <2>1, UnderWayFinite, FS_EmptySet
    <2>3. given[s] + Cardinality(UnderWay(s)) <= share[s].views
        BY <1>1, <1>3, <1>t DEF LimitKept
    <2> QED
        BY <1>2, <1>t, <2>2, <2>3 DEF TypeOK
<1>4. limit[s] = share[s].max /\ sold[s] = share[s].views
    BY <1>1 DEF limit, sold
<1>5. UNCHANGED <<offer, limit, sold>>
    BY DEF SendFile, offer, limit, sold
<1>6. limit[s] = 0 \/ given[s] < sold[s]
    BY <1>2, <1>3, <1>4
<1> QED
    BY <1>s, <1>5, <1>6 DEF Budget!Use, SendFile

LEMMA OfferStep ==
    ASSUME IInv, NEW c \in Clients, InsertShare(c)
    PROVE  \E s \in Shares : Budget!Offer(s)
<1>1. PICK s \in Shares :
        /\ ~Issued(s)
        /\ share' = [share EXCEPT ![s] =
            [st |-> "row", file |-> req[c].file, secret |-> req[c].secret,
             max |-> req[c].max, views |-> 0, expiry |-> req[c].expiry]]
    BY DEF InsertShare
<1>t. TypeOK
    BY DEF IInv
<1>2. req[c].max \in Limits
    BY <1>t, RequestFields DEF InsertShare, TypeOK
<1>3. /\ share'[s].st = "row" /\ share'[s].max = req[c].max /\ share'[s].views = 0
      /\ \A t \in Shares : t # s => share'[t] = share[t]
    BY <1>1, <1>t DEF TypeOK
<1>4. offer[s] = "none" /\ offer' = [offer EXCEPT ![s] = "open"]
    BY <1>1, <1>3 DEF offer
<1>5. limit' = [limit EXCEPT ![s] = req[c].max]
    <2>1. limit'[s] = req[c].max
        BY <1>3 DEF limit
    <2>2. \A t \in Shares : t # s => limit'[t] = limit[t]
        BY <1>3 DEF limit
    <2> QED
        BY <2>1, <2>2 DEF limit
<1>6. UNCHANGED sold
    BY <1>1, <1>3 DEF sold
<1>7. UNCHANGED given
    BY DEF InsertShare
<1> QED
    BY <1>2, <1>4, <1>5, <1>6, <1>7 DEF Budget!Offer

LEMMA BudgetStep ==
    ASSUME IInv, [Next]_vars
    PROVE  [Budget!Next]_(Budget!budgetVars)
<1>t. TypeOK
    BY DEF IInv
<1>0. ASSUME UNCHANGED <<share, given>>
      PROVE  UNCHANGED Budget!budgetVars
    BY <1>0, StutterStep
<1>1. CASE UNCHANGED vars
    BY <1>0, <1>1 DEF vars
<1>2. ASSUME NEW c \in Clients, Request(c)
      PROVE  [Budget!Next]_(Budget!budgetVars)
    <2>1. CASE InsertShare(c)
        BY <2>1, OfferStep DEF Budget!Next
    <2>2. CASE SendFile(c)
        <3>1. req[c].share \in Shares
            BY <2>2, Fetcher DEF SendFile, Fetches
        <3> QED
            BY <2>2, <3>1, UseStep DEF Budget!Next
    <2>3. CASE IncrementShareViewCountIfUnderMax(c) \/ LoseAnswer(c)
        <3>1. req[c].share \in Shares
            BY <2>3, Fetcher DEF IncrementShareViewCountIfUnderMax, LoseAnswer, Fetches
        <3>2. /\ UNCHANGED given
              /\ \/ UNCHANGED share
                 \/ /\ Countable(req[c].share)
                    /\ share' = [share EXCEPT ![req[c].share].views = @ + 1]
            BY <2>3 DEF IncrementShareViewCountIfUnderMax, LoseAnswer
        <3>3. UNCHANGED share \/ Budget!Sell(req[c].share)
            BY <1>t, <3>1, <3>2, SellStep
        <3> QED
            BY <1>0, <3>1, <3>2, <3>3 DEF Budget!Next
    <2>4. \/ InsertShare(c) \/ SendFile(c)
          \/ IncrementShareViewCountIfUnderMax(c) \/ LoseAnswer(c)
          \/ UNCHANGED <<share, given>>
        BY <1>2 DEF Request, CreateShare, CreateTempLink, InsertTempDownload, VerifySharePassword,
                    DownloadSharedFile, DownloadWithVerifyToken, SignVerifyToken, FindFile, MissBlob, Fail
    <2> QED
        BY <1>0, <2>1, <2>2, <2>3, <2>4
<1>3. ASSUME NEW s \in Shares, DeleteShare(s)
      PROVE  Budget!Next
    <2>1. share' = [t \in Shares |-> IF t \in {s} THEN [share[t] EXCEPT !.st = "gone"] ELSE share[t]]
        BY <1>3, <1>t DEF DeleteShare, TypeOK
    <2>2. {s} \in SUBSET Shares /\ \A t \in {s} : Exists(t)
        BY <1>3 DEF DeleteShare
    <2>3. Budget!Withdraw
        BY <1>3, <1>t, <2>1, <2>2, WithdrawStep DEF DeleteShare
    <2> QED
        BY <2>3 DEF Budget!Next
<1>4. ASSUME NEW f \in Files, HardDeleteFile(f)
      PROVE  Budget!Next
    <2> DEFINE S == {s \in Shares : Exists(s) /\ share[s].file = f}
    <2>1. share' = [s \in Shares |-> IF s \in S THEN [share[s] EXCEPT !.st = "gone"] ELSE share[s]]
        BY <1>4 DEF HardDeleteFile
    <2>2. S \in SUBSET Shares /\ (\A s \in S : Exists(s)) /\ UNCHANGED given
        BY <1>4 DEF HardDeleteFile, SetFile
    <2> HIDE DEF S
    <2>3. Budget!Withdraw
        BY <1>t, <2>1, <2>2, WithdrawStep
    <2> QED
        BY <2>3 DEF Budget!Next
<1>5. ASSUME NEW s \in Shares, ExpireShare(s)
      PROVE  UNCHANGED Budget!budgetVars
    <2>1. share[s] \in ShareRow
        BY <1>5, <1>t, IssuedRow DEF ExpireShare
    <2>2. ASSUME NEW t \in Shares
          PROVE  /\ share'[t].st = share[t].st
                 /\ Issued(t) => share'[t].max = share[t].max /\ share'[t].views = share[t].views
        BY <1>5, <1>t, <2>1 DEF ExpireShare, TypeOK, ShareRow
    <2> QED
        BY <1>5, <2>2, StutterStep DEF ExpireShare
<1>6. \/ UNCHANGED vars \/ \E c \in Clients : Request(c)
      \/ \E s \in Shares : DeleteShare(s) \/ ExpireShare(s)
      \/ \E f \in Files : HardDeleteFile(f)
      \/ UNCHANGED <<share, given>>
    BY DEF Next, VerifyTokenExpires, ExpireLink, DeleteFile, RestoreFile, HardDeleteFiles, SetFile,
           CleanExpiredTempDownloads, Crash
<1> QED
    BY <1>0, <1>1, <1>2, <1>3, <1>4, <1>5, <1>6

\* Every step offers a share, counts a download, sends a file that was paid for,
\* withdraws shares, or is none of the promise's business.
THEOREM Refinement == Spec => ImplementsBudget
<1>1. Init => Budget!Init
    BY DEF Init, Budget!Init, NoShare, offer, limit, sold
<1>2. IInv /\ [Next]_vars => [Budget!Next]_(Budget!budgetVars)
    BY BudgetStep
<1> QED
    BY <1>1, <1>2, Inductive, PTL DEF Spec, ImplementsBudget, Budget!Spec

=============================================================================
