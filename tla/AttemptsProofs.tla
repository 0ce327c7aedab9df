--------------------------- MODULE AttemptsProofs ---------------------------
(***************************************************************************)
(* Theorems about Attempts, for any numbers of users, secrets and requests.*)
(***************************************************************************)
EXTENDS Attempts, FiniteSetTheorems, TLAPS

USE DEF Proceed, Return, SetTries, Renew, AnswerWrong, Counted

-----------------------------------------------------------------------------
(* Types *)

Calls == {NoCall} \cup Answering \cup Confirming \cup Disabling \cup Generating

LEMMA NoCallType == NoCall \in Calls
BY DEF Calls

LEMMA NoCallPc == NoCall.pc = "none"
BY DEF NoCall

\* What the fields of a request are, by the place it has reached.
LEMMA CallFields ==
    ASSUME NEW r \in Calls
    PROVE  /\ r.pc \in {"login", "password"} => r \in Answering /\ r.key \in Keys
           /\ r.pc \in {"take", "read", "prove", "disable", "generate"} => r.key \in Accounts
           /\ r.pc \in {"confirm", "enable"} => r.key \in Accounts /\ r.secret \in Secrets
           /\ r.pc \in {"confirm", "enable"} =>
                 r = [pc |-> r.pc, key |-> r.key, secret |-> r.secret]
           /\ r.pc \in {"read", "prove", "disable"} => r = [pc |-> r.pc, key |-> r.key]
BY DEF Calls, NoCall, Answering, Confirming, Disabling, Generating

LEMMA ProceedType ==
    ASSUME AuthTypeOK, NEW c \in Callers, NEW r \in Calls, Proceed(c, r)
    PROVE  /\ call' \in [Callers -> Calls]
           /\ call'[c] = r
           /\ \A d \in Callers : d # c => call'[d] = call[d]
BY DEF AuthTypeOK, Calls

LEMMA CounterTypes ==
    /\ NoTries \in Counter /\ Window \in Counter /\ Counted(Window) \in Counter
    /\ \A t \in Counter : Counted(t) \in Counter /\ [t EXCEPT !.past = TRUE] \in Counter
<1>1. NoTries \in Counter /\ Window \in Counter
    BY DEF NoTries, Window, Counter
<1>2. ASSUME NEW t \in Counter
      PROVE  Counted(t) \in Counter /\ [t EXCEPT !.past = TRUE] \in Counter
    <2>1. [t EXCEPT !.past = TRUE] \in Counter
        BY DEF Counter
    <2>2. [t EXCEPT !.count = t.count + 1] \in Counter
        BY DEF Counter
    <2> QED
        BY <2>1, <2>2
<1>3. Counted(Window) \in Counter
    BY <1>1, <1>2
<1> QED
    BY <1>1, <1>2, <1>3

\* Counters stay counters whatever is done to one.
LEMMA TriesType ==
    ASSUME AuthTypeOK, NEW k \in Keys,
           \/ UNCHANGED <<tries, wrong>>
           \/ Renew(k, NoTries) \/ Renew(k, Window) \/ Renew(k, Counted(Window))
           \/ SetTries(k, Counted(tries[k])) /\ (UNCHANGED wrong \/ AnswerWrong(k))
           \/ UNCHANGED tries /\ AnswerWrong(k)
           \/ SetTries(k, [tries[k] EXCEPT !.past = TRUE]) /\ UNCHANGED wrong
    PROVE  tries' \in [Keys -> Counter] /\ wrong' \in [Keys -> Nat]
<1>1. NoTries \in Counter /\ Window \in Counter /\ Counted(Window) \in Counter
    BY CounterTypes
<1>2. tries[k] \in Counter
    BY DEF AuthTypeOK
<1>3. Counted(tries[k]) \in Counter /\ [tries[k] EXCEPT !.past = TRUE] \in Counter
    BY <1>2, CounterTypes
<1>4. UNCHANGED tries \/ \E t \in Counter : tries' = [tries EXCEPT ![k] = t]
    BY <1>1, <1>3
<1>5. \/ UNCHANGED wrong
      \/ wrong' = [wrong EXCEPT ![k] = 0]
      \/ wrong' = [wrong EXCEPT ![k] = @ + 1]
    OBVIOUS
<1> QED
    BY <1>4, <1>5 DEF AuthTypeOK

-----------------------------------------------------------------------------
(* The steps *)

\* Steps that move no secret: the tables of secrets stay, and a request that had
\* a secret keeps it or lets go of it.
LEMMA KeepingStep ==
    ASSUME SecretsInv, AuthTypeOK', UNCHANGED <<secret, known, retired>>,
           \A u \in Accounts, k \in Secrets : Pends(u, k)' => Pends(u, k),
           \A c \in Callers, k \in Secrets : Holds(c, k)' => Holds(c, k)
    PROVE  SecretsInv'
<1>1. \A u \in Accounts, k \in Secrets : InForce(u, k)' = InForce(u, k)
    BY DEF InForce
<1>2. \A k \in Secrets : Somewhere(k)' => Somewhere(k)
    BY <1>1 DEF Somewhere
<1>3. OnePlace'
    BY <1>1 DEF SecretsInv, OnePlace
<1>4. RetiredStays'
    BY <1>2 DEF SecretsInv, RetiredStays, AuthTypeOK
<1> QED
    BY <1>2, <1>3, <1>4 DEF SecretsInv

\* A request that goes on without a secret, or with the one it has.
LEMMA CallStep ==
    ASSUME SecretsInv, NEW c \in Callers, NEW r \in Calls, Proceed(c, r),
           UNCHANGED <<secret, pending, known, retired>>,
           tries' \in [Keys -> Counter], wrong' \in [Keys -> Nat],
           r.pc \in {"confirm", "enable"} =>
               call[c].pc \in {"confirm", "enable"} /\ r.secret = call[c].secret
    PROVE  SecretsInv'
<1>1. /\ call' \in [Callers -> Calls]
      /\ call'[c] = r
      /\ \A d \in Callers : d # c => call'[d] = call[d]
    BY ProceedType DEF SecretsInv
<1>2. AuthTypeOK'
    BY <1>1 DEF SecretsInv, AuthTypeOK, Calls
<1>3. \A d \in Callers, k \in Secrets : Holds(d, k)' => Holds(d, k)
    BY <1>1 DEF Holds
<1>4. \A u \in Accounts, k \in Secrets : Pends(u, k)' => Pends(u, k)
    BY DEF Pends
<1> QED
    BY <1>2, <1>3, <1>4, KeepingStep

LEMMA CountAnswerStep ==
    ASSUME SecretsInv, NEW c \in Callers, NEW pc \in {"login", "password"}, NEW k \in Keys,
           CountAnswer(c, pc, k)
    PROVE  SecretsInv'
<1> DEFINE r == [pc |-> pc, key |-> k]
<1>1. r \in Calls /\ r.pc = pc
    BY DEF Calls, Answering
<1>2. tries' \in [Keys -> Counter] /\ wrong' \in [Keys -> Nat]
    BY TriesType DEF CountAnswer, SecretsInv
<1>3. Proceed(c, r) /\ UNCHANGED <<secret, pending, known, retired>>
    BY DEF CountAnswer
<1> HIDE DEF r
<1> QED
    BY <1>1, <1>2, <1>3, CallStep

LEMMA AnswerStep ==
    ASSUME SecretsInv, NEW c \in Callers, AnswerRight(c) \/ AnsweredWrong(c)
    PROVE  SecretsInv'
<1>1. call[c].key \in Keys
    BY CallFields DEF AnswerRight, AnsweredWrong, Answers, SecretsInv, AuthTypeOK, Calls
<1>2. tries' \in [Keys -> Counter] /\ wrong' \in [Keys -> Nat]
    BY <1>1, TriesType DEF AnswerRight, AnsweredWrong, SecretsInv
<1> QED
    BY <1>2, NoCallType, CallStep DEF AnswerRight, AnsweredWrong, NoCall

LEMMA GenerateTOTPStep ==
    ASSUME SecretsInv, NEW c \in Callers, NEW u \in Accounts, GenerateTOTP(c, u)
    PROVE  SecretsInv'
<1> DEFINE r == [pc |-> "generate", key |-> u]
<1>1. r \in Calls /\ r.pc = "generate"
    BY DEF Calls, Generating
<1>2. Proceed(c, r) /\ UNCHANGED <<secret, pending, known, retired, tries, wrong>>
    BY DEF GenerateTOTP
<1> HIDE DEF r
<1> QED
    BY <1>1, <1>2, CallStep DEF SecretsInv, AuthTypeOK

LEMMA StorePendingStep ==
    ASSUME SecretsInv, NEW c \in Callers, StorePending(c)
    PROVE  SecretsInv'
<1>t. AuthTypeOK
    BY DEF SecretsInv
<1>u. PICK u \in Accounts : u = call[c].key
    BY <1>t, CallFields DEF StorePending, AuthTypeOK, Calls
<1>1. PICK k \in Secrets \ known :
        /\ pending' = [pending EXCEPT ![u] = [secret |-> k, old |-> FALSE]]
        /\ known' = known \cup {k}
    BY <1>u DEF StorePending
<1>2. /\ call' \in [Callers -> Calls]
      /\ call'[c] = NoCall
      /\ \A d \in Callers : d # c => call'[d] = call[d]
    BY <1>t, NoCallType, ProceedType DEF StorePending
<1>3. AuthTypeOK'
    <2>1. pending' \in [Accounts -> Entry \cup {NoPending}]
        BY <1>1, <1>t DEF AuthTypeOK, Entry
    <2> QED
        BY <1>1, <1>2, <1>t, <2>1 DEF AuthTypeOK, StorePending, Calls
<1>4. ~Somewhere(k) /\ k \notin retired
    BY <1>1 DEF SecretsInv
<1>5. \A v \in Accounts, x \in Secrets : Pends(v, x)' => Pends(v, x) \/ (v = u /\ x = k)
    BY <1>1, <1>t DEF Pends, AuthTypeOK
<1>6. \A d \in Callers, x \in Secrets : Holds(d, x)' => Holds(d, x)
    BY <1>2 DEF Holds, NoCall
<1>7. \A v \in Accounts, x \in Secrets : InForce(v, x)' = InForce(v, x)
    BY DEF StorePending, InForce
<1>8. \A x \in Secrets : Somewhere(x)' => Somewhere(x) \/ x = k
    BY <1>5, <1>6, <1>7 DEF Somewhere
<1>9. OnePlace'
    <2> SUFFICES ASSUME NEW x \in Secrets
                 PROVE  /\ \A v, w \in Accounts :
                            /\ Pends(v, x)' /\ Pends(w, x)' => v = w
                            /\ InForce(v, x)' /\ InForce(w, x)' => v = w
                            /\ ~(Pends(v, x)' /\ InForce(w, x)')
                        /\ \A d, e \in Callers : Holds(d, x)' /\ Holds(e, x)' => d = e
                        /\ \A d \in Callers, v \in Accounts : Holds(d, x)' => ~Pends(v, x)' /\ ~InForce(v, x)'
        BY DEF OnePlace
    <2>1. CASE x = k
        BY <1>4, <1>5, <1>6, <1>7, <2>1 DEF Somewhere
    <2>2. CASE x # k
        BY <1>5, <1>6, <1>7, <2>2 DEF SecretsInv, OnePlace
    <2> QED
        BY <2>1, <2>2
<1>10. RetiredStays'
    BY <1>t, <1>4, <1>8 DEF StorePending, RetiredStays, SecretsInv, AuthTypeOK
<1>11. \A x \in Secrets : Somewhere(x)' \/ x \in retired' => x \in known'
    BY <1>1, <1>8 DEF StorePending, SecretsInv
<1> QED
    BY <1>3, <1>9, <1>10, <1>11 DEF SecretsInv

LEMMA CheckStep ==
    ASSUME SecretsInv, NEW c \in Callers, NEW u \in Accounts, EnableTOTP(c, u) \/ DisableTOTP(c, u)
    PROVE  SecretsInv'
<1>1. PICK pc \in {"take", "read"} : Proceed(c, [pc |-> pc, key |-> u])
    BY DEF EnableTOTP, DisableTOTP
<1> DEFINE r == [pc |-> pc, key |-> u]
<1>2. r \in Calls /\ r.pc = pc
    BY DEF Calls, Confirming, Disabling
<1>3. tries' \in [Keys -> Counter] /\ wrong' \in [Keys -> Nat]
    BY TriesType DEF EnableTOTP, DisableTOTP, checkTOTPRateLimit, SecretsInv, Keys
<1>4. Proceed(c, r) /\ UNCHANGED <<secret, pending, known, retired>>
    BY <1>1 DEF EnableTOTP, DisableTOTP
<1> HIDE DEF r
<1> QED
    BY <1>2, <1>3, <1>4, CallStep

\* The secret goes from the map to the request, in one section.
LEMMA TakePendingStep ==
    ASSUME SecretsInv, NEW c \in Callers, TakePending(c)
    PROVE  SecretsInv'
<1>t. AuthTypeOK
    BY DEF SecretsInv
<1>u. PICK u \in Accounts : u = call[c].key
    BY <1>t, CallFields DEF TakePending, AuthTypeOK, Calls
<1>p. pending' = [pending EXCEPT ![u] = NoPending]
    BY <1>u DEF TakePending
<1>q. pending' \in [Accounts -> Entry \cup {NoPending}]
    BY <1>p, <1>t DEF AuthTypeOK
<1>1. CASE pending[u] = NoPending
    <2>1. /\ call' \in [Callers -> Calls]
          /\ call'[c] = NoCall
          /\ \A d \in Callers : d # c => call'[d] = call[d]
        BY <1>u, <1>t, <1>1, NoCallType, ProceedType DEF TakePending
    <2>2. AuthTypeOK'
        BY <1>t, <1>q, <2>1 DEF AuthTypeOK, TakePending, Calls
    <2>3. pending' = pending
        BY <1>p, <1>1, <1>t DEF AuthTypeOK
    <2>4. \A d \in Callers, k \in Secrets : Holds(d, k)' => Holds(d, k)
        BY <2>1 DEF Holds, NoCall
    <2> QED
        BY <2>2, <2>3, <2>4, KeepingStep DEF TakePending, Pends
<1>2. CASE pending[u] # NoPending
    <2>1. PICK k \in Secrets : k = pending[u].secret
        BY <1>2, <1>t DEF AuthTypeOK, Entry
    <2> DEFINE r == [pc |-> "confirm", key |-> u, secret |-> k]
    <2>2. r \in Calls /\ r.pc = "confirm" /\ r.secret = k
        BY DEF Calls, Confirming
    <2>3. Proceed(c, r)
        BY <1>u, <1>2, <2>1 DEF TakePending
    <2> HIDE DEF r
    <2>4. /\ call' \in [Callers -> Calls]
          /\ call'[c] = r
          /\ \A d \in Callers : d # c => call'[d] = call[d]
        BY <1>t, <2>2, <2>3, ProceedType
    <2>5. AuthTypeOK'
        BY <1>t, <1>q, <2>4 DEF AuthTypeOK, TakePending, Calls
    <2>6. Pends(u, k)
        BY <2>1 DEF Pends
    <2>7. \A v \in Accounts, x \in Secrets : Pends(v, x)' => Pends(v, x) /\ v # u
        BY <1>p, <1>t, AttemptsAssumption DEF Pends, AuthTypeOK, NoPending, AttemptsAssumption
    <2>8. \A d \in Callers, x \in Secrets : Holds(d, x)' => (d # c /\ Holds(d, x)) \/ (d = c /\ x = k)
        BY <2>2, <2>4 DEF Holds
    <2>9. \A v \in Accounts, x \in Secrets : InForce(v, x)' = InForce(v, x)
        BY DEF TakePending, InForce
    <2>10. \A x \in Secrets : Somewhere(x)' => Somewhere(x)
        BY <2>6, <2>7, <2>8, <2>9 DEF Somewhere
    <2>11. OnePlace'
        <3> SUFFICES ASSUME NEW x \in Secrets
                     PROVE  /\ \A v, w \in Accounts :
                                /\ Pends(v, x)' /\ Pends(w, x)' => v = w
                                /\ InForce(v, x)' /\ InForce(w, x)' => v = w
                                /\ ~(Pends(v, x)' /\ InForce(w, x)')
                            /\ \A d, e \in Callers : Holds(d, x)' /\ Holds(e, x)' => d = e
                            /\ \A d \in Callers, v \in Accounts : Holds(d, x)' => ~Pends(v, x)' /\ ~InForce(v, x)'
            BY DEF OnePlace
        <3>1. CASE x = k
            BY <2>6, <2>7, <2>8, <2>9, <3>1 DEF SecretsInv, OnePlace
        <3>2. CASE x # k
            BY <2>7, <2>8, <2>9, <3>2 DEF SecretsInv, OnePlace
        <3> QED
            BY <3>1, <3>2
    <2>12. RetiredStays'
        BY <1>t, <2>10 DEF TakePending, RetiredStays, SecretsInv, AuthTypeOK
    <2> QED
        BY <2>5, <2>10, <2>11, <2>12 DEF SecretsInv, TakePending
<1> QED
    BY <1>1, <1>2

LEMMA UserTOTPSecretStep ==
    ASSUME SecretsInv, NEW c \in Callers, UserTOTPSecret(c)
    PROVE  SecretsInv'
<1>1. call[c] \in Calls /\ call[c].key \in Accounts /\ call[c] = [pc |-> "read", key |-> call[c].key]
    BY CallFields DEF UserTOTPSecret, SecretsInv, AuthTypeOK, Calls
<1>2. PICK r \in Calls : r.pc \notin {"confirm", "enable"} /\ Proceed(c, r)
    <2>1. CASE secret[call[c].key] = NoSecret
        BY <2>1, NoCallType DEF UserTOTPSecret, NoCall
    <2>2. CASE secret[call[c].key] # NoSecret
        <3>1. [call[c] EXCEPT !.pc = "prove"] = [pc |-> "prove", key |-> call[c].key]
            BY <1>1
        <3>2. [pc |-> "prove", key |-> call[c].key] \in Calls
            BY <1>1 DEF Calls, Disabling
        <3> QED
            BY <2>2, <3>1, <3>2 DEF UserTOTPSecret
    <2> QED
        BY <2>1, <2>2
<1>3. /\ UNCHANGED <<secret, pending, known, retired>>
      /\ tries' \in [Keys -> Counter] /\ wrong' \in [Keys -> Nat]
    BY DEF UserTOTPSecret, SecretsInv, AuthTypeOK
<1> QED
    BY <1>2, <1>3, CallStep

LEMMA CodeStep ==
    ASSUME SecretsInv, NEW c \in Callers, CodeWrong(c) \/ CodeRight(c)
    PROVE  SecretsInv'
<1>1. /\ call[c] \in Calls /\ call[c].key \in Accounts
      /\ call[c].pc = "confirm" => call[c] = [pc |-> "confirm", key |-> call[c].key, secret |-> call[c].secret]
      /\ call[c].pc = "confirm" => call[c].secret \in Secrets
      /\ call[c].pc = "prove" => call[c] = [pc |-> "prove", key |-> call[c].key]
    BY CallFields DEF CodeWrong, CodeRight, SecretsInv, AuthTypeOK, Calls
<1>2. tries' \in [Keys -> Counter] /\ wrong' \in [Keys -> Nat]
    BY <1>1, TriesType DEF CodeWrong, CodeRight, recordTOTPAttempt, SecretsInv, Keys
<1>3. CASE CodeWrong(c)
    BY <1>2, <1>3, NoCallType, CallStep DEF CodeWrong, recordTOTPAttempt, NoCall
<1>4. CASE CodeRight(c) /\ call[c].pc = "confirm"
    <2> DEFINE r == [pc |-> "enable", key |-> call[c].key, secret |-> call[c].secret]
    <2>1. r \in Calls /\ r.pc = "enable" /\ r.secret = call[c].secret
        BY <1>1, <1>4 DEF Calls, Confirming
    <2>2. [call[c] EXCEPT !.pc = "enable"] = r
        BY <1>1, <1>4
    <2>3. Proceed(c, r)
        BY <1>4, <2>2 DEF CodeRight
    <2> HIDE DEF r
    <2> QED
        BY <1>2, <1>4, <2>1, <2>3, CallStep DEF CodeRight
<1>5. CASE CodeRight(c) /\ call[c].pc # "confirm"
    <2> DEFINE r == [pc |-> "disable", key |-> call[c].key]
    <2>1. r \in Calls /\ r.pc = "disable"
        BY <1>1 DEF Calls, Disabling
    <2>2. call[c].pc = "prove"
        BY <1>5 DEF CodeRight
    <2>3. [call[c] EXCEPT !.pc = "disable"] = r
        BY <1>1, <2>2
    <2>4. Proceed(c, r)
        BY <1>5, <2>2, <2>3 DEF CodeRight
    <2> HIDE DEF r
    <2> QED
        BY <1>2, <1>5, <2>1, <2>4, CallStep DEF CodeRight
<1> QED
    BY <1>3, <1>4, <1>5

\* The secret goes from the request to the row, and the one it replaces nowhere.
LEMMA SetTOTPSecretStep ==
    ASSUME SecretsInv, NEW c \in Callers, SetTOTPSecret(c)
    PROVE  SecretsInv'
<1>t. AuthTypeOK
    BY DEF SecretsInv
<1>u. PICK u \in Accounts : u = call[c].key
    BY <1>t, CallFields DEF SetTOTPSecret, AuthTypeOK, Calls
<1>n. PICK n \in Secrets \cup {NoSecret} :
        n = IF call[c].pc = "enable" THEN call[c].secret ELSE NoSecret
    BY <1>t, CallFields DEF SetTOTPSecret, AuthTypeOK, Calls
<1>1. /\ secret' = [secret EXCEPT ![u] = n]
      /\ retired' = (retired \cup {secret[u]}) \ {NoSecret}
    BY <1>u, <1>n DEF SetTOTPSecret
<1>2. /\ call' \in [Callers -> Calls]
      /\ call'[c] = NoCall
      /\ \A d \in Callers : d # c => call'[d] = call[d]
    BY <1>t, NoCallType, ProceedType DEF SetTOTPSecret
<1>3. AuthTypeOK'
    <2>1. secret' \in [Accounts -> Secrets \cup {NoSecret}] /\ retired' \subseteq Secrets
        BY <1>1, <1>t DEF AuthTypeOK
    <2> QED
        BY <1>2, <1>t, <2>1 DEF AuthTypeOK, SetTOTPSecret, Calls
<1>4. n \in Secrets => Holds(c, n)
    BY <1>n, AttemptsAssumption DEF Holds, AttemptsAssumption
<1>5. \A v \in Accounts, x \in Secrets : InForce(v, x)' <=> (v # u /\ InForce(v, x)) \/ (v = u /\ x = n)
    BY <1>1, <1>t DEF InForce, AuthTypeOK
<1>6. \A d \in Callers, x \in Secrets : Holds(d, x)' => d # c /\ Holds(d, x)
    BY <1>2 DEF Holds, NoCall
<1>7. \A v \in Accounts, x \in Secrets : Pends(v, x)' = Pends(v, x)
    BY DEF SetTOTPSecret, Pends
<1>8. \A x \in Secrets : Somewhere(x)' => Somewhere(x)
    BY <1>4, <1>5, <1>6, <1>7 DEF Somewhere
<1>9. OnePlace'
    <2> SUFFICES ASSUME NEW x \in Secrets
                 PROVE  /\ \A v, w \in Accounts :
                            /\ Pends(v, x)' /\ Pends(w, x)' => v = w
                            /\ InForce(v, x)' /\ InForce(w, x)' => v = w
                            /\ ~(Pends(v, x)' /\ InForce(w, x)')
                        /\ \A d, e \in Callers : Holds(d, x)' /\ Holds(e, x)' => d = e
                        /\ \A d \in Callers, v \in Accounts : Holds(d, x)' => ~Pends(v, x)' /\ ~InForce(v, x)'
        BY DEF OnePlace
    <2>1. CASE x = n
        BY <1>4, <1>5, <1>6, <1>7, <2>1 DEF SecretsInv, OnePlace
    <2>2. CASE x # n
        BY <1>5, <1>6, <1>7, <2>2 DEF SecretsInv, OnePlace
    <2> QED
        BY <2>1, <2>2
<1>10. ASSUME NEW x \in retired'
       PROVE  ~Somewhere(x)'
    <2>1. x \in Secrets
        BY <1>3 DEF AuthTypeOK
    <2>2. CASE x \in retired
        BY <1>8, <2>1, <2>2 DEF SecretsInv, RetiredStays
    <2>3. CASE x = secret[u]
        <3>1. InForce(u, x)
            BY <2>3 DEF InForce
        <3>2. x # n
            BY <1>4, <2>1, <3>1 DEF SecretsInv, OnePlace
        <3>3. /\ \A v \in Accounts : ~Pends(v, x) /\ (InForce(v, x) => v = u)
              /\ \A d \in Callers : ~Holds(d, x)
            BY <2>1, <3>1 DEF SecretsInv, OnePlace
        <3> QED
            BY <1>5, <1>6, <1>7, <2>1, <3>2, <3>3 DEF Somewhere
    <2> QED
        BY <1>1, <2>2, <2>3
<1>11. \A x \in Secrets : Somewhere(x)' \/ x \in retired' => x \in known'
    <2>1. secret[u] \in Secrets => InForce(u, secret[u])
        BY DEF InForce
    <2>2. secret[u] \in Secrets => Somewhere(secret[u])
        BY <2>1 DEF Somewhere
    <2> QED
        BY <1>1, <1>8, <2>2 DEF SecretsInv, SetTOTPSecret
<1> QED
    BY <1>3, <1>9, <1>10, <1>11 DEF SecretsInv, RetiredStays

\* Time, the hourly job, failures and restarts: secrets stay or are lost.
LEMMA ForgettingStep ==
    ASSUME SecretsInv,
           \/ \E k \in Keys : WindowEnds(k)
           \/ \E u \in Accounts : PendingAges(u)
           \/ CleanupTOTPState
           \/ Restart
    PROVE  SecretsInv'
<1>t. AuthTypeOK
    BY DEF SecretsInv
<1>1. ASSUME NEW k \in Keys, WindowEnds(k)
      PROVE  SecretsInv'
    <2>1. tries' \in [Keys -> Counter] /\ wrong' \in [Keys -> Nat]
        BY <1>1, <1>t, TriesType DEF WindowEnds
    <2>2. AuthTypeOK'
        BY <1>1, <1>t, <2>1 DEF WindowEnds, AuthTypeOK
    <2> QED
        BY <1>1, <2>2, KeepingStep DEF WindowEnds, Pends, Holds
<1>2. ASSUME NEW u \in Accounts, PendingAges(u)
      PROVE  SecretsInv'
    <2>1. pending[u] \in Entry
        BY <1>2, <1>t DEF PendingAges, AuthTypeOK
    <2>2. [pending[u] EXCEPT !.old = TRUE] \in Entry /\ [pending[u] EXCEPT !.old = TRUE].secret = pending[u].secret
        BY <2>1 DEF Entry
    <2>3. pending' = [pending EXCEPT ![u] = [pending[u] EXCEPT !.old = TRUE]]
        BY <1>2 DEF PendingAges
    <2>4. AuthTypeOK'
        BY <1>2, <1>t, <2>2, <2>3 DEF PendingAges, AuthTypeOK
    <2>5. \A v \in Accounts : pending'[v].secret = pending[v].secret
        BY <1>t, <2>2, <2>3 DEF AuthTypeOK
    <2> QED
        BY <1>2, <2>4, <2>5, KeepingStep DEF PendingAges, Pends, Holds
<1>3. CASE CleanupTOTPState
    <2>1. pending' \in [Accounts -> Entry \cup {NoPending}]
        BY <1>3, <1>t DEF CleanupTOTPState, AuthTypeOK
    <2>2. tries' \in [Keys -> Counter] /\ wrong' \in [Keys -> Nat]
        BY <1>3, <1>t DEF CleanupTOTPState, AuthTypeOK, NoTries, Counter
    <2>3. AuthTypeOK'
        BY <1>3, <1>t, <2>1, <2>2 DEF CleanupTOTPState, AuthTypeOK
    <2>4. \A u \in Accounts, k \in Secrets : Pends(u, k)' => Pends(u, k)
        BY <1>3, AttemptsAssumption DEF CleanupTOTPState, Pends, NoPending, AttemptsAssumption
    <2> QED
        BY <1>3, <2>3, <2>4, KeepingStep DEF CleanupTOTPState, Holds
<1>4. CASE Restart
    <2>1. AuthTypeOK'
        BY <1>4, <1>t DEF Restart, AuthTypeOK, NoTries, Counter
    <2>2. \A u \in Accounts, k \in Secrets : ~Pends(u, k)'
        BY <1>4, AttemptsAssumption DEF Restart, Pends, NoPending, AttemptsAssumption
    <2>3. \A c \in Callers, k \in Secrets : ~Holds(c, k)'
        BY <1>4 DEF Restart, Holds, NoCall
    <2> QED
        BY <1>4, <2>1, <2>2, <2>3, KeepingStep DEF Restart
<1> QED
    BY <1>1, <1>2, <1>3, <1>4

LEMMA CallsStep ==
    ASSUME SecretsInv, NEW c \in Callers, Call(c)
    PROVE  SecretsInv'
<1>1. ASSUME NEW u \in Accounts, Login(c, u)
      PROVE  SecretsInv'
    BY <1>1, CountAnswerStep DEF Login, Keys
<1>2. ASSUME NEW a \in Addresses, VerifySharePassword(c, a)
      PROVE  SecretsInv'
    BY <1>2, CountAnswerStep DEF VerifySharePassword, Keys
<1>3. CASE StatementFails(c)
    BY <1>3, NoCallType, CallStep DEF StatementFails, NoCall, SecretsInv, AuthTypeOK
<1> QED
    BY <1>1, <1>2, <1>3, AnswerStep, GenerateTOTPStep, StorePendingStep, CheckStep, TakePendingStep,
       UserTOTPSecretStep, CodeStep, SetTOTPSecretStep DEF Call

-----------------------------------------------------------------------------
(* What a step does to the counter of a key *)

\* Nothing is counted and nothing answered, though requests may end and time pass.
Rests(k) ==
    /\ wrong'[k] = wrong[k]
    /\ tries'[k].count = tries[k].count
    /\ tries[k].past => tries'[k].past
    /\ Guessing(k)' \subseteq Guessing(k)
    /\ Checked(k)' \subseteq Checked(k)

\* An answer is counted before it is checked.
CountsFirst(k) ==
    /\ ~tries[k].past /\ tries[k].count < MaxAttempts
    /\ wrong'[k] = wrong[k]
    /\ tries'[k].count = tries[k].count + 1
    /\ \E c \in Callers :
        /\ c \notin Guessing(k) \cup Checked(k)
        /\ Guessing(k)' \subseteq Guessing(k) \cup {c}
    /\ Checked(k)' \subseteq Checked(k)

\* A request passes the check that is counted last.
Passes(k) ==
    /\ ~tries[k].past /\ tries[k].count < MaxAttempts
    /\ wrong'[k] = wrong[k]
    /\ UNCHANGED tries
    /\ Guessing(k)' \subseteq Guessing(k)

\* The counter begins anew.
Begins(k) ==
    /\ wrong'[k] = 0
    /\ \/ tries'[k].count = 0 /\ (tries'[k].past \/ Checked(k)' # {})
       \/ tries'[k].count = 1 /\ Guessing(k)' # {}

\* An answer that was counted is wrong.
Misses(k) ==
    /\ wrong'[k] = wrong[k] + 1
    /\ UNCHANGED tries
    /\ \E c \in Guessing(k) : Guessing(k)' \subseteq Guessing(k) \ {c}
    /\ Checked(k)' \subseteq Checked(k)

\* A code is wrong and is counted.
CountsLast(k) ==
    /\ wrong'[k] = wrong[k] + 1
    /\ tries'[k].count = tries[k].count + 1
    /\ tries'[k].past = tries[k].past
    /\ Guessing(k)' \subseteq Guessing(k)
    /\ \E c \in Checked(k) : Checked(k)' \subseteq Checked(k) \ {c}

GuessStep(k) ==
    Rests(k) \/ CountsFirst(k) \/ Passes(k) \/ Begins(k) \/ Misses(k) \/ CountsLast(k)

\* Each request is in one place.
LEMMA OnePlaceEach ==
    ASSUME NEW k \in Keys
    PROVE  /\ IsFiniteSet(Guessing(k)) /\ Cardinality(Guessing(k)) \in Nat
           /\ IsFiniteSet(Checked(k)) /\ Cardinality(Checked(k)) \in Nat
           /\ Guessing(k) \cup Checked(k) \subseteq Callers
           /\ Cardinality(Guessing(k) \cup Checked(k)) = Cardinality(Guessing(k)) + Cardinality(Checked(k))
<1>1. Guessing(k) \subseteq Callers /\ Checked(k) \subseteq Callers
    BY DEF Guessing, Checked
<1>2. /\ IsFiniteSet(Guessing(k)) /\ Cardinality(Guessing(k)) \in Nat
      /\ IsFiniteSet(Checked(k)) /\ Cardinality(Checked(k)) \in Nat
    BY <1>1, FS_Subset, FS_CardinalityType, AttemptsAssumption DEF AttemptsAssumption
<1>3. Cardinality(Guessing(k) \cap Checked(k)) = 0
    <2>1. Guessing(k) \cap Checked(k) = {}
        BY DEF Guessing, Checked, Answers
    <2> QED
        BY <2>1, FS_EmptySet
<1>4. Cardinality(Guessing(k) \cup Checked(k))
        = Cardinality(Guessing(k)) + Cardinality(Checked(k)) - Cardinality(Guessing(k) \cap Checked(k))
    BY <1>2, FS_Union
<1> QED
    BY <1>1, <1>2, <1>3, <1>4

\* A set of requests that is within another, or misses one that is in it.
LEMMA Fewer ==
    ASSUME NEW S, IsFiniteSet(S), NEW T \in SUBSET S
    PROVE  /\ Cardinality(T) <= Cardinality(S)
           /\ \A c \in S : c \notin T => Cardinality(T) <= Cardinality(S) - 1
<1>1. Cardinality(T) <= Cardinality(S)
    BY FS_Subset
<1>2. ASSUME NEW c \in S, c \notin T
      PROVE  Cardinality(T) <= Cardinality(S) - 1
    <2>1. IsFiniteSet(S \ {c}) /\ Cardinality(S \ {c}) = Cardinality(S) - 1
        BY FS_RemoveElement
    <2> QED
        BY <1>2, <2>1, FS_Subset
<1> QED
    BY <1>1, <1>2

\* All requests may be with one key, a request that is elsewhere excepted; no code
\* is asked of an address.
LEMMA Headcount ==
    ASSUME AuthTypeOK, NEW k \in Keys
    PROVE  /\ Others \in Nat
           /\ Cardinality(Guessing(k)) + Cardinality(Checked(k)) <= Others + 1
           /\ \A c \in Callers : c \notin Guessing(k) \cup Checked(k) =>
                 Cardinality(Guessing(k)) + Cardinality(Checked(k)) <= Others
           /\ k \notin Accounts => Cardinality(Checked(k)) = 0
<1>1. IsFiniteSet(Callers) /\ Callers # {}
    BY AttemptsAssumption DEF AttemptsAssumption
<1>2. Cardinality(Callers) \in Nat /\ Cardinality(Callers) # 0
    BY <1>1, FS_EmptySet, FS_CardinalityType
<1>3. /\ Cardinality(Guessing(k) \cup Checked(k)) <= Cardinality(Callers)
      /\ \A c \in Callers : c \notin Guessing(k) \cup Checked(k) =>
            Cardinality(Guessing(k) \cup Checked(k)) <= Cardinality(Callers) - 1
    BY <1>1, OnePlaceEach, Fewer
<1>4. k \notin Accounts => Checked(k) = {}
    BY CallFields DEF Checked, AuthTypeOK, Calls
<1> QED
    BY <1>2, <1>3, <1>4, OnePlaceEach, FS_EmptySet DEF Others

\* Whatever a step of this kind does, the ledger holds.
LEMMA StepKeepsLedger ==
    ASSUME AuthTypeOK, AuthTypeOK', GuessLedger, \A k \in Keys : GuessStep(k)
    PROVE  GuessLedger'
<1> SUFFICES ASSUME NEW k \in Keys
             PROVE  /\ ~tries'[k].past => wrong'[k] + Cardinality(Guessing(k)') <= tries'[k].count + Others
                    /\ tries'[k].count + Cardinality(Checked(k)') <= MaxAttempts + Overrun(k)
                    /\ wrong'[k] + Cardinality(Guessing(k)') + Cardinality(Checked(k)')
                          <= MaxAttempts + Others + Overrun(k)
    BY DEF GuessLedger, Overrun, Others
<1> DEFINE G == Cardinality(Guessing(k))
           H == Cardinality(Checked(k))
           G1 == Cardinality(Guessing(k)')
           H1 == Cardinality(Checked(k)')
           n == tries[k].count
           n1 == tries'[k].count
<1>1. /\ Others \in Nat /\ MaxAttempts \in Nat \ {0}
      /\ G \in Nat /\ H \in Nat /\ G + H <= Others + 1
      /\ IsFiniteSet(Guessing(k)) /\ IsFiniteSet(Checked(k))
      /\ k \notin Accounts => H = 0
    BY OnePlaceEach, Headcount, AttemptsAssumption DEF AttemptsAssumption
<1>2. /\ G1 \in Nat /\ H1 \in Nat /\ G1 + H1 <= Others + 1
      /\ IsFiniteSet(Guessing(k)') /\ IsFiniteSet(Checked(k)')
      /\ k \notin Accounts => H1 = 0
    <2>1. Others' = Others
        BY DEF Others
    <2>2. (AuthTypeOK /\ k \in Keys)' =>
            (/\ G \in Nat /\ H \in Nat /\ G + H <= Others + 1
             /\ IsFiniteSet(Guessing(k)) /\ IsFiniteSet(Checked(k))
             /\ k \notin Accounts => H = 0)'
        BY OnePlaceEach, Headcount, PTL
    <2>3. (k \in Keys)'
        BY DEF Keys
    <2> QED
        BY <2>1, <2>2, <2>3
<1>3. /\ n \in Nat /\ n1 \in Nat /\ wrong[k] \in Nat /\ wrong'[k] \in Nat
      /\ tries[k].past \in BOOLEAN /\ tries'[k].past \in BOOLEAN
    BY DEF AuthTypeOK, Counter
<1>4. /\ ~tries[k].past => wrong[k] + G <= n + Others
      /\ n + H <= MaxAttempts + Overrun(k)
      /\ wrong[k] + G + H <= MaxAttempts + Others + Overrun(k)
    BY DEF GuessLedger
<1>5. Overrun(k) = IF k \in Accounts THEN Others ELSE 0
    BY DEF Overrun
<1>6. H <= Overrun(k) + 1 /\ H1 <= Overrun(k) + 1
    BY <1>1, <1>2, <1>5
<1>o. Overrun(k) \in Nat
    BY <1>1, <1>5
<1>7. CASE Rests(k)
    <2>1. G1 <= G /\ H1 <= H
        BY <1>1, <1>7, Fewer DEF Rests
    <2>2. wrong'[k] = wrong[k] /\ n1 = n /\ (~tries'[k].past => ~tries[k].past)
        BY <1>7 DEF Rests
    <2> HIDE DEF G, H, G1, H1, n, n1
    <2> QED
        BY <1>1, <1>2, <1>3, <1>4, <1>o, <2>1, <2>2 DEF G, H, G1, H1, n, n1
<1>8. CASE CountsFirst(k)
    <2>1. PICK c \in Callers :
            /\ c \notin Guessing(k) \cup Checked(k)
            /\ Guessing(k)' \subseteq Guessing(k) \cup {c}
        BY <1>8 DEF CountsFirst
    <2>2. G + H <= Others
        BY <2>1, Headcount
    <2>3. IsFiniteSet(Guessing(k) \cup {c}) /\ Cardinality(Guessing(k) \cup {c}) = G + 1
        BY <1>1, <2>1, FS_AddElement
    <2>4. G1 <= G + 1 /\ H1 <= H
        BY <1>1, <1>8, <2>1, <2>3, Fewer DEF CountsFirst
    <2>5. wrong'[k] = wrong[k] /\ n1 = n + 1 /\ n < MaxAttempts /\ ~tries[k].past
        BY <1>8 DEF CountsFirst
    <2> HIDE DEF G, H, G1, H1, n, n1
    <2> QED
        BY <1>1, <1>2, <1>3, <1>4, <1>5, <2>2, <2>4, <2>5 DEF G, H, G1, H1, n, n1
<1>9. CASE Passes(k)
    <2>1. G1 <= G
        BY <1>1, <1>9, Fewer DEF Passes
    <2>2. /\ wrong'[k] = wrong[k] /\ n1 = n /\ n < MaxAttempts
          /\ ~tries[k].past /\ tries'[k].past = tries[k].past
        BY <1>9 DEF Passes
    <2> HIDE DEF G, H, G1, H1, n, n1
    <2> QED
        BY <1>1, <1>2, <1>3, <1>4, <1>6, <1>o, <2>1, <2>2 DEF G, H, G1, H1, n, n1
<1>10. CASE Begins(k)
    <2>1. wrong'[k] = 0
        BY <1>10 DEF Begins
    <2>2. Checked(k)' # {} => H1 >= 1
        BY <1>2, FS_EmptySet
    <2>3. Guessing(k)' # {} => G1 >= 1
        BY <1>2, FS_EmptySet
    <2>4. \/ n1 = 0 /\ (tries'[k].past \/ H1 >= 1)
          \/ n1 = 1 /\ G1 >= 1
        BY <1>10, <2>2, <2>3 DEF Begins
    <2> HIDE DEF G, H, G1, H1, n, n1
    <2> QED
        BY <1>1, <1>2, <1>3, <1>5, <2>1, <2>4 DEF G, H, G1, H1, n, n1
<1>11. CASE Misses(k)
    <2>1. PICK c \in Guessing(k) : Guessing(k)' \subseteq Guessing(k) \ {c}
        BY <1>11 DEF Misses
    <2>2. G1 <= G - 1 /\ H1 <= H
        BY <1>1, <1>11, <2>1, Fewer DEF Misses
    <2>3. wrong'[k] = wrong[k] + 1 /\ n1 = n /\ tries'[k].past = tries[k].past
        BY <1>11 DEF Misses
    <2> HIDE DEF G, H, G1, H1, n, n1
    <2> QED
        BY <1>1, <1>2, <1>3, <1>4, <1>o, <2>2, <2>3 DEF G, H, G1, H1, n, n1
<1>12. CASE CountsLast(k)
    <2>1. PICK c \in Checked(k) : Checked(k)' \subseteq Checked(k) \ {c}
        BY <1>12 DEF CountsLast
    <2>2. G1 <= G /\ H1 <= H - 1
        BY <1>1, <1>12, <2>1, Fewer DEF CountsLast
    <2>3. wrong'[k] = wrong[k] + 1 /\ n1 = n + 1 /\ tries'[k].past = tries[k].past
        BY <1>12 DEF CountsLast
    <2> HIDE DEF G, H, G1, H1, n, n1
    <2> QED
        BY <1>1, <1>2, <1>3, <1>4, <1>o, <2>2, <2>3 DEF G, H, G1, H1, n, n1
<1> QED
    BY <1>7, <1>8, <1>9, <1>10, <1>11, <1>12 DEF GuessStep

-----------------------------------------------------------------------------
(* The steps, as the counters see them *)

\* Where a request is counted follows from where it goes.
LEMMA Movement ==
    ASSUME AuthTypeOK, NEW c \in Callers, NEW r \in Calls, Proceed(c, r), NEW k \in Keys
    PROVE  /\ Guessing(k)' \ {c} = Guessing(k) \ {c}
           /\ Checked(k)' \ {c} = Checked(k) \ {c}
           /\ c \in Guessing(k)' <=> r.pc \in {"login", "password"} /\ r.key = k
           /\ c \in Checked(k)' <=> r.pc \in {"take", "read", "confirm", "prove"} /\ r.key = k
<1>1. /\ call'[c] = r
      /\ \A d \in Callers : d # c => call'[d] = call[d]
    BY ProceedType
<1> QED
    BY <1>1 DEF Guessing, Checked, Answers

\* A request ends, or goes on to be counted where it was to be counted before.
LEMMA UncountedStep ==
    ASSUME AuthTypeOK, NEW c \in Callers, NEW r \in Calls, Proceed(c, r), UNCHANGED <<tries, wrong>>,
           r.pc \notin {"login", "password"},
           r.pc \in {"take", "read", "confirm", "prove"} => c \in Checked(r.key)
    PROVE  \A k \in Keys : GuessStep(k)
<1> SUFFICES ASSUME NEW k \in Keys PROVE Rests(k)
    BY DEF GuessStep
<1>1. /\ Guessing(k)' \ {c} = Guessing(k) \ {c} /\ Checked(k)' \ {c} = Checked(k) \ {c}
      /\ c \notin Guessing(k)'
      /\ c \in Checked(k)' => c \in Checked(k)
    BY Movement
<1> QED
    BY <1>1 DEF Rests

\* One counter is touched, by a request that is with its key: the others rest.
LEMMA OtherKeysRest ==
    ASSUME AuthTypeOK, NEW c \in Callers, NEW r \in Calls, Proceed(c, r), NEW k \in Keys,
           NEW t, tries' = [tries EXCEPT ![k] = t] \/ UNCHANGED tries,
           NEW n, wrong' = [wrong EXCEPT ![k] = n] \/ UNCHANGED wrong,
           r = NoCall \/ r.key = k
    PROVE  \A j \in Keys : j # k => GuessStep(j)
<1> SUFFICES ASSUME NEW j \in Keys, j # k PROVE Rests(j)
    BY DEF GuessStep
<1>1. /\ Guessing(j)' \ {c} = Guessing(j) \ {c} /\ Checked(j)' \ {c} = Checked(j) \ {c}
      /\ c \notin Guessing(j)' /\ c \notin Checked(j)'
    BY Movement, NoCallPc
<1> QED
    BY <1>1 DEF Rests, AuthTypeOK

LEMMA CountAnswerGuess ==
    ASSUME AuthTypeOK, NEW c \in Callers, NEW pc \in {"login", "password"}, NEW k \in Keys,
           CountAnswer(c, pc, k)
    PROVE  \A j \in Keys : GuessStep(j)
<1> DEFINE r == [pc |-> pc, key |-> k]
<1>1. r \in Calls /\ r.pc = pc /\ r.key = k
    BY DEF Calls, Answering
<1>2. Proceed(c, r) /\ call[c].pc = "none" /\ ~Full(k)
    BY DEF CountAnswer, NoCall
<1> HIDE DEF r
<1>3. /\ Guessing(k)' = Guessing(k) \cup {c} /\ Checked(k)' \subseteq Checked(k)
      /\ c \notin Guessing(k) \cup Checked(k)
    <2>1. c \notin Guessing(k) \cup Checked(k)
        BY <1>2 DEF Guessing, Checked, Answers
    <2>2. /\ Guessing(k)' \ {c} = Guessing(k) \ {c} /\ Checked(k)' \ {c} = Checked(k) \ {c}
          /\ c \in Guessing(k)' /\ c \notin Checked(k)'
        BY <1>1, <1>2, Movement
    <2> QED
        BY <2>1, <2>2
<1>4. CASE tries[k].past
    <2>1. Renew(k, Counted(Window))
        BY <1>4 DEF CountAnswer
    <2>2. tries'[k].count = 1 /\ wrong'[k] = 0
        BY <2>1 DEF AuthTypeOK, Window
    <2>3. Begins(k)
        BY <1>3, <2>2 DEF Begins
    <2> QED
        BY <1>1, <1>2, <2>1, <2>3, OtherKeysRest DEF GuessStep
<1>5. CASE ~tries[k].past
    <2>1. SetTries(k, Counted(tries[k])) /\ UNCHANGED wrong
        BY <1>5 DEF CountAnswer
    <2>2. tries'[k].count = tries[k].count + 1 /\ tries[k].count \in Nat
        BY <2>1 DEF AuthTypeOK, Counter
    <2>3. CountsFirst(k)
        BY <1>2, <1>3, <1>5, <2>1, <2>2, AttemptsAssumption DEF CountsFirst, Full, AttemptsAssumption
    <2> QED
        BY <1>1, <1>2, <2>1, <2>3, OtherKeysRest DEF GuessStep
<1> QED
    BY <1>4, <1>5

LEMMA CheckGuess ==
    ASSUME AuthTypeOK, NEW c \in Callers, NEW u \in Accounts, EnableTOTP(c, u) \/ DisableTOTP(c, u)
    PROVE  \A j \in Keys : GuessStep(j)
<1>1. PICK pc \in {"take", "read"} : Proceed(c, [pc |-> pc, key |-> u])
    BY DEF EnableTOTP, DisableTOTP
<1> DEFINE r == [pc |-> pc, key |-> u]
<1>2. r \in Calls /\ r.pc = pc /\ r.key = u /\ u \in Keys
    BY DEF Calls, Confirming, Disabling, Keys
<1>3. Proceed(c, r) /\ checkTOTPRateLimit(u)
    BY <1>1 DEF EnableTOTP, DisableTOTP
<1> HIDE DEF r
<1>4. Guessing(u)' \subseteq Guessing(u) /\ c \in Checked(u)'
    <2>1. /\ Guessing(u)' \ {c} = Guessing(u) \ {c}
          /\ c \notin Guessing(u)' /\ c \in Checked(u)'
        BY <1>2, <1>3, Movement
    <2> QED
        BY <2>1
<1>5. CASE tries[u].past
    <2>1. Renew(u, Window)
        BY <1>3, <1>5 DEF checkTOTPRateLimit
    <2>2. tries'[u].count = 0 /\ wrong'[u] = 0
        BY <1>2, <2>1 DEF AuthTypeOK, Window
    <2>3. Begins(u)
        BY <1>4, <2>2 DEF Begins
    <2> QED
        BY <1>2, <1>3, <2>1, <2>3, OtherKeysRest DEF GuessStep
<1>6. CASE ~tries[u].past
    <2>1. UNCHANGED <<tries, wrong>> /\ ~Full(u)
        BY <1>3, <1>6 DEF checkTOTPRateLimit
    <2>2. tries[u].count \in Nat
        BY <1>2 DEF AuthTypeOK, Counter
    <2>3. Passes(u)
        BY <1>4, <1>6, <2>1, <2>2, AttemptsAssumption DEF Passes, Full, AttemptsAssumption
    <2> QED
        BY <1>2, <1>3, <2>1, <2>3, OtherKeysRest DEF GuessStep
<1> QED
    BY <1>5, <1>6

\* A right answer: the counter is deleted.
LEMMA RightGuess ==
    ASSUME AuthTypeOK, NEW c \in Callers, AnswerRight(c) \/ CodeRight(c)
    PROVE  \A j \in Keys : GuessStep(j)
<1>1. PICK k \in Keys : k = call[c].key
    BY CallFields DEF AnswerRight, CodeRight, Answers, AuthTypeOK, Calls, Keys
<1>2. PICK r \in Calls : Proceed(c, r) /\ (r = NoCall \/ r.key = k)
    <2>1. CASE AnswerRight(c)
        BY <2>1, NoCallType DEF AnswerRight
    <2>2. CASE CodeRight(c) /\ call[c].pc = "confirm"
        <3>1. [call[c] EXCEPT !.pc = "enable"] \in Calls /\ [call[c] EXCEPT !.pc = "enable"].key = k
            BY <1>1, <2>2 DEF AuthTypeOK, Calls, NoCall, Answering, Confirming, Disabling, Generating
        <3> QED
            BY <2>2, <3>1 DEF CodeRight
    <2>3. CASE CodeRight(c) /\ call[c].pc # "confirm"
        <3>1. call[c].pc = "prove"
            BY <2>3 DEF CodeRight
        <3>2. [call[c] EXCEPT !.pc = "disable"] \in Calls /\ [call[c] EXCEPT !.pc = "disable"].key = k
            BY <1>1, <3>1 DEF AuthTypeOK, Calls, NoCall, Answering, Confirming, Disabling, Generating
        <3> QED
            BY <2>3, <3>1, <3>2 DEF CodeRight
    <2> QED
        BY <2>1, <2>2, <2>3
<1>3. Renew(k, NoTries)
    BY <1>1 DEF AnswerRight, CodeRight
<1>4. Begins(k)
    BY <1>1, <1>3 DEF Begins, AuthTypeOK, NoTries
<1> QED
    BY <1>1, <1>2, <1>3, <1>4, OtherKeysRest DEF GuessStep

LEMMA WrongGuess ==
    ASSUME AuthTypeOK, NEW c \in Callers, AnsweredWrong(c) \/ CodeWrong(c)
    PROVE  \A j \in Keys : GuessStep(j)
<1>1. PICK k \in Keys : k = call[c].key
    BY CallFields DEF AnsweredWrong, CodeWrong, Answers, AuthTypeOK, Calls, Keys
<1>2. Return(c)
    BY DEF AnsweredWrong, CodeWrong
<1>3. Guessing(k)' = Guessing(k) \ {c} /\ Checked(k)' = Checked(k) \ {c}
    <2>1. /\ Guessing(k)' \ {c} = Guessing(k) \ {c} /\ Checked(k)' \ {c} = Checked(k) \ {c}
          /\ c \notin Guessing(k)' /\ c \notin Checked(k)'
        <3>1. Proceed(c, NoCall)
            BY <1>2 DEF Return
        <3>2. /\ Guessing(k)' \ {c} = Guessing(k) \ {c} /\ Checked(k)' \ {c} = Checked(k) \ {c}
              /\ c \in Guessing(k)' <=> NoCall.pc \in {"login", "password"} /\ NoCall.key = k
              /\ c \in Checked(k)' <=>
                    NoCall.pc \in {"take", "read", "confirm", "prove"} /\ NoCall.key = k
            BY <3>1, NoCallType, Movement, Zenon
        <3> QED
            BY <3>2, NoCallPc
    <2> QED
        BY <2>1
<1>4. wrong'[k] = wrong[k] + 1 /\ wrong' = [wrong EXCEPT ![k] = wrong[k] + 1]
    BY <1>1 DEF AnsweredWrong, CodeWrong, recordTOTPAttempt, AuthTypeOK
<1>5. CASE AnsweredWrong(c)
    <2>1. c \in Guessing(k)
        BY <1>1, <1>5 DEF AnsweredWrong, Guessing
    <2>2. Misses(k)
        BY <1>3, <1>4, <1>5, <2>1 DEF Misses, AnsweredWrong
    <2> QED
        BY <1>1, <1>2, <1>4, <1>5, <2>2, NoCallType, OtherKeysRest DEF GuessStep, AnsweredWrong
<1>6. CASE CodeWrong(c)
    <2>1. c \in Checked(k)
        BY <1>1, <1>6 DEF CodeWrong, Checked
    <2>2. SetTries(k, Counted(tries[k]))
        BY <1>1, <1>6 DEF CodeWrong, recordTOTPAttempt
    <2>3. tries'[k].count = tries[k].count + 1 /\ tries'[k].past = tries[k].past
        BY <1>1, <2>2 DEF AuthTypeOK, Counter
    <2>4. CountsLast(k)
        BY <1>3, <1>4, <2>1, <2>3 DEF CountsLast
    <2>5. PICK t : tries' = [tries EXCEPT ![k] = t]
        BY <2>2
    <2>6. \A j \in Keys : j # k => GuessStep(j)
        BY <1>1, <1>2, <1>4, <2>5, NoCallType, OtherKeysRest
    <2> QED
        BY <2>4, <2>6 DEF GuessStep
<1> QED
    BY <1>5, <1>6

LEMMA CallsGuess ==
    ASSUME AuthTypeOK, NEW c \in Callers, Call(c)
    PROVE  \A k \in Keys : GuessStep(k)
<1>1. ASSUME NEW u \in Accounts, Login(c, u)
      PROVE  \A k \in Keys : GuessStep(k)
    BY <1>1, CountAnswerGuess DEF Login, Keys
<1>2. ASSUME NEW a \in Addresses, VerifySharePassword(c, a)
      PROVE  \A k \in Keys : GuessStep(k)
    BY <1>2, CountAnswerGuess DEF VerifySharePassword, Keys
<1>3. ASSUME NEW u \in Accounts, GenerateTOTP(c, u)
      PROVE  \A k \in Keys : GuessStep(k)
    <2> DEFINE r == [pc |-> "generate", key |-> u]
    <2>1. r \in Calls /\ r.pc = "generate"
        BY DEF Calls, Generating
    <2>2. Proceed(c, r) /\ UNCHANGED <<tries, wrong>>
        BY <1>3 DEF GenerateTOTP
    <2> HIDE DEF r
    <2> QED
        BY <2>1, <2>2, UncountedStep
<1>4. CASE StorePending(c) \/ SetTOTPSecret(c) \/ StatementFails(c)
    <2>1. Return(c) /\ UNCHANGED <<tries, wrong>>
        BY <1>4 DEF StorePending, SetTOTPSecret, StatementFails
    <2> QED
        BY <2>1, NoCallType, NoCallPc, UncountedStep
<1>5. CASE TakePending(c) \/ UserTOTPSecret(c)
    <2>1. c \in Checked(call[c].key) /\ UNCHANGED <<tries, wrong>>
        BY <1>5 DEF TakePending, UserTOTPSecret, Checked
    <2>2. PICK r \in Calls : /\ Proceed(c, r)
                             /\ r = NoCall \/ (r.pc \in {"confirm", "prove"} /\ r.key = call[c].key)
        <3>1. CASE Return(c)
            BY <3>1, NoCallType
        <3>2. CASE TakePending(c) /\ ~Return(c)
            <4> DEFINE r == [pc |-> "confirm", key |-> call[c].key, secret |-> pending[call[c].key].secret]
            <4>1. Proceed(c, r) /\ pending[call[c].key] # NoPending
                BY <3>2 DEF TakePending
            <4>2. r \in Calls /\ r.pc = "confirm" /\ r.key = call[c].key
                BY <3>2, <4>1, CallFields DEF TakePending, AuthTypeOK, Entry, Calls, Confirming
            <4> HIDE DEF r
            <4> QED
                BY <4>1, <4>2
        <3>3. CASE UserTOTPSecret(c) /\ ~Return(c)
            <4>1. [call[c] EXCEPT !.pc = "prove"] = [pc |-> "prove", key |-> call[c].key]
                BY <3>3, CallFields DEF UserTOTPSecret, AuthTypeOK, Calls
            <4> DEFINE r == [pc |-> "prove", key |-> call[c].key]
            <4>2. Proceed(c, r)
                BY <3>3, <4>1 DEF UserTOTPSecret
            <4>3. r \in Calls /\ r.pc = "prove" /\ r.key = call[c].key
                BY <3>3, CallFields DEF UserTOTPSecret, AuthTypeOK, Calls, Disabling
            <4> HIDE DEF r
            <4> QED
                BY <4>2, <4>3
        <3> QED
            BY <1>5, <3>1, <3>2, <3>3
    <2> QED
        BY <2>1, <2>2, NoCallPc, UncountedStep
<1> QED
    BY <1>1, <1>2, <1>3, <1>4, <1>5, CheckGuess, RightGuess, WrongGuess DEF Call

LEMMA TimeGuess ==
    ASSUME AuthTypeOK,
           \/ UNCHANGED authVars
           \/ \E k \in Keys : WindowEnds(k)
           \/ \E u \in Accounts : PendingAges(u)
           \/ CleanupTOTPState
           \/ Restart
    PROVE  \A k \in Keys : GuessStep(k)
<1> SUFFICES ASSUME NEW k \in Keys PROVE GuessStep(k)
    OBVIOUS
<1>1. UNCHANGED call => Guessing(k)' = Guessing(k) /\ Checked(k)' = Checked(k)
    BY DEF Guessing, Checked, Answers
<1>2. CASE UNCHANGED authVars \/ \E u \in Accounts : PendingAges(u)
    BY <1>1, <1>2 DEF GuessStep, Rests, authVars, PendingAges
<1>3. ASSUME NEW j \in Keys, WindowEnds(j)
      PROVE  GuessStep(k)
    <2>1. tries'[k].count = tries[k].count /\ (tries[k].past => tries'[k].past)
        BY <1>3 DEF WindowEnds, AuthTypeOK, Counter
    <2> QED
        BY <1>1, <1>3, <2>1 DEF WindowEnds, GuessStep, Rests
<1>4. CASE CleanupTOTPState
    <2>1. CASE Worn(k)
        BY <1>4, <2>1 DEF CleanupTOTPState, GuessStep, Begins, NoTries
    <2>2. CASE ~Worn(k)
        BY <1>1, <1>4, <2>2 DEF CleanupTOTPState, GuessStep, Rests
    <2> QED
        BY <2>1, <2>2
<1>5. CASE Restart
    BY <1>5 DEF Restart, GuessStep, Begins, NoTries
<1> QED
    BY <1>2, <1>3, <1>4, <1>5

-----------------------------------------------------------------------------
(* The theorems *)

\* The inductive invariant: each secret is in one place, and one that left its
\* row is nowhere; and the counters account for the wrong answers that were
\* given and those that may be.
THEOREM AuthInductive == AuthSpec => []AuthIInv
<1>1. AuthInit => AuthIInv
    <2> SUFFICES ASSUME AuthInit PROVE AuthIInv
        OBVIOUS
    <2>1. AuthTypeOK
        BY DEF AuthInit, AuthTypeOK, NoTries, Counter
    <2>2. \A k \in Secrets : /\ \A u \in Accounts : ~Pends(u, k) /\ ~InForce(u, k)
                             /\ \A c \in Callers : ~Holds(c, k)
        BY AttemptsAssumption DEF AuthInit, Pends, InForce, Holds, NoPending, NoCall, AttemptsAssumption
    <2>3. OnePlace
        BY <2>2 DEF OnePlace
    <2>4. SecretsInv
        BY <2>1, <2>2, <2>3 DEF AuthInit, SecretsInv, RetiredStays, Somewhere
    <2>5. ASSUME NEW k \in Keys
          PROVE  Cardinality(Guessing(k)) = 0 /\ Cardinality(Checked(k)) = 0 /\ Others \in Nat
        <3>1. Guessing(k) = {} /\ Checked(k) = {}
            BY DEF AuthInit, Guessing, Checked, Answers, NoCall
        <3> QED
            BY <2>1, <3>1, FS_EmptySet, Headcount
    <2>6. GuessLedger
        BY <2>5, AttemptsAssumption DEF GuessLedger, AuthInit, NoTries, Overrun, AttemptsAssumption
    <2> QED
        BY <2>4, <2>6 DEF AuthIInv
<1>2. AuthIInv /\ [AuthNext]_authVars => AuthIInv'
    <2> SUFFICES ASSUME AuthIInv, [AuthNext]_authVars PROVE AuthIInv'
        OBVIOUS
    <2>i. SecretsInv /\ AuthTypeOK /\ GuessLedger
        BY DEF AuthIInv, SecretsInv
    <2>1. SecretsInv'
        <3>1. CASE UNCHANGED authVars
            <4>1. AuthTypeOK'
                BY <2>i, <3>1 DEF authVars, AuthTypeOK
            <4> QED
                BY <2>i, <3>1, <4>1, KeepingStep DEF authVars, Pends, Holds
        <3>2. CASE AuthNext
            BY <2>i, <3>2, CallsStep, ForgettingStep DEF AuthNext
        <3> QED
            BY <3>1, <3>2
    <2>2. \A k \in Keys : GuessStep(k)
        BY <2>i, CallsGuess, TimeGuess DEF AuthNext
    <2>3. GuessLedger'
        BY <2>i, <2>1, <2>2, StepKeepsLedger DEF SecretsInv
    <2> QED
        BY <2>1, <2>3 DEF AuthIInv
<1> QED
    BY <1>1, <1>2, PTL DEF AuthSpec

\* A secret that was replaced or disabled never works again, whatever enabling
\* and disabling was under way.
THEOREM RetiredSecretsStay == AuthSpec => []RetiredStays
BY AuthInductive, PTL DEF AuthIInv, SecretsInv

\* However many requests answer at once, and whenever windows end, counters are
\* deleted and the process restarts, a key takes no more wrong answers between
\* two beginnings of its counter than its limit and what the others had under way.
THEOREM GuessesStayBounded == AuthSpec => []GuessesBounded
<1>1. AuthIInv => GuessesBounded
    <2> SUFFICES ASSUME AuthIInv, NEW k \in Keys
                 PROVE  wrong[k] <= MaxAttempts + Others + Overrun(k) /\ Others \in Nat
        BY AttemptsAssumption DEF GuessesBounded, Keys, Overrun, AttemptsAssumption
    <2>1. AuthTypeOK /\ GuessLedger
        BY DEF AuthIInv, SecretsInv
    <2>2. wrong[k] + Cardinality(Guessing(k)) + Cardinality(Checked(k)) <= MaxAttempts + Others + Overrun(k)
        BY <2>1 DEF GuessLedger
    <2>3. wrong[k] \in Nat /\ MaxAttempts \in Nat
        BY <2>1, AttemptsAssumption DEF AuthTypeOK, AttemptsAssumption
    <2>4. /\ Others \in Nat /\ Overrun(k) \in Nat
          /\ Cardinality(Guessing(k)) \in Nat /\ Cardinality(Checked(k)) \in Nat
        BY <2>1, Headcount, OnePlaceEach DEF Overrun
    <2> QED
        BY <2>2, <2>3, <2>4
<1> QED
    BY <1>1, AuthInductive, PTL

=============================================================================
