--------------------------- MODULE HashLockProofs ---------------------------
(***************************************************************************)
(* Theorems about HashLock, for any numbers of uploads, contents and       *)
(* mutexes.                                                                *)
(***************************************************************************)
EXTENDS HashLock, TLAPS

USE DEF Waits, Unlocks, WaitsFor, Unlocking

\* What a record of `at` holds, by the place it stands for.
LEMMA Places ==
    ASSUME TypeOK, NEW u \in Uploads
    PROVE  /\ Waits(u) => at[u] \in Waiting /\ at[u].hash \in Hashes /\ at[u].mutex \in Mutexes
           /\ at[u].pc = "inside" => at[u].hash \in Hashes
           /\ Unlocks(u) => at[u] \in Leaving /\ at[u].hash \in Hashes /\ at[u].mutex \in Mutexes
BY DEF TypeOK, Outside, Waiting, Inside, Leaving

LEMMA InitInv == Init => IInv
BY HashLockAssumption
   DEF Init, IInv, TypeOK, HashesApart, OneUnlocker, EntryWanted, FatalWindow, Outside

LEMMA FindMutexInv ==
    ASSUME IInv, NEW u \in Uploads, NEW h \in Hashes, at[u] = Outside, FindMutex(u, h)
    PROVE  IInv'
<1> USE DEF IInv, FindMutex
<1>1. /\ at'[u] = [pc |-> "lock", hash |-> h, mutex |-> hashLocks[h]]
      /\ \A v \in Uploads \ {u} : at'[v] = at[v]
      /\ hashLocks[h] \in Mutexes
    BY DEF TypeOK
<1>2. TypeOK'
    BY <1>1 DEF TypeOK, Waiting
<1>3. HashesApart'
    BY <1>1 DEF HashesApart
<1>4. OneUnlocker'
    BY <1>1 DEF OneUnlocker
<1>5. EntryWanted'
    BY <1>1 DEF EntryWanted, Outside
<1>6. FatalWindow'
    BY <1>1 DEF FatalWindow, Outside
<1> QED
    BY <1>2, <1>3, <1>4, <1>5, <1>6

LEMMA MakeMutexInv ==
    ASSUME IInv, NEW u \in Uploads, NEW h \in Hashes, at[u] = Outside, MakeMutex(u, h)
    PROVE  IInv'
<1> USE HashLockAssumption DEF IInv
<1> DEFINE m == CHOOSE x \in Mutexes : Unused(x)
<1>1. /\ m \in Mutexes
      /\ \A g \in Hashes : hashLocks[g] # m
      /\ \A v \in Uploads : ~WaitsFor(v, m) /\ ~Unlocking(v, m)
    BY DEF MakeMutex, Unused
<1>2. /\ hashLocks' = [hashLocks EXCEPT ![h] = m]
      /\ locked' = locked \ {m}
      /\ at' = [at EXCEPT ![u] = [pc |-> "lock", hash |-> h, mutex |-> m]]
    BY DEF MakeMutex
<1> HIDE DEF m
<1>3. /\ at'[u] = [pc |-> "lock", hash |-> h, mutex |-> m]
      /\ \A v \in Uploads \ {u} : at'[v] = at[v]
      /\ hashLocks'[h] = m
      /\ \A g \in Hashes \ {h} : hashLocks'[g] = hashLocks[g]
    BY <1>2 DEF TypeOK
<1>4. TypeOK'
    BY <1>1, <1>2 DEF TypeOK, Waiting
<1>5. HashesApart'
    BY <1>1, <1>3 DEF HashesApart
<1>6. OneUnlocker'
    BY <1>1, <1>3, Places DEF OneUnlocker
<1>7. EntryWanted'
    <2> SUFFICES ASSUME NEW g \in Hashes, hashLocks'[g] \in Mutexes \ locked'
                 PROVE  \E v \in Uploads : WaitsFor(v, hashLocks[g])'
        BY DEF EntryWanted
    <2>1. CASE g = h
        BY <2>1, <1>3
    <2>2. CASE g # h
        <3>1. hashLocks[g] \in Mutexes \ locked
            BY <2>2, <1>1, <1>2, <1>3
        <3>2. PICK v \in Uploads : WaitsFor(v, hashLocks[g])
            BY <3>1 DEF EntryWanted
        <3> QED
            BY <2>2, <3>2, <1>3 DEF Outside
    <2> QED
        BY <2>1, <2>2
<1>8. FatalWindow'
    <2> SUFFICES ASSUME NEW v \in Uploads, Unlocks(v)', at'[v].mutex \notin locked'
                 PROVE  \E w \in Uploads : WaitsFor(w, at[v].mutex)'
        BY DEF FatalWindow
    <2>1. v # u /\ Unlocks(v) /\ at'[v] = at[v]
        BY <1>3
    <2>2. at[v].mutex \notin locked
        BY <2>1, <1>1, <1>2
    <2>3. PICK w \in Uploads : WaitsFor(w, at[v].mutex)
        BY <2>1, <2>2 DEF FatalWindow
    <2> QED
        BY <2>1, <2>3, <1>3 DEF Outside
<1> QED
    BY <1>4, <1>5, <1>6, <1>7, <1>8

LEMMA LockInv ==
    ASSUME IInv, NEW u \in Uploads, Lock(u)
    PROVE  IInv'
<1> USE DEF IInv, Lock
<1>1. at[u].hash \in Hashes /\ at[u].mutex \in Mutexes
    BY Places
<1>2. /\ at'[u] = [pc |-> "inside", hash |-> at[u].hash]
      /\ \A v \in Uploads \ {u} : at'[v] = at[v]
    BY DEF TypeOK
<1>3. TypeOK'
    BY <1>1 DEF TypeOK, Inside
<1>4. HashesApart'
    BY <1>2 DEF HashesApart
<1>5. OneUnlocker'
    BY <1>2 DEF OneUnlocker
<1>6. EntryWanted'
    BY <1>2 DEF EntryWanted
<1>7. FatalWindow'
    BY <1>2 DEF FatalWindow
<1> QED
    BY <1>3, <1>4, <1>5, <1>6, <1>7

LEMMA UnlockHashInv ==
    ASSUME IInv, NEW u \in Uploads, unlockHash(u)
    PROVE  IInv'
<1> USE HashLockAssumption DEF IInv
<1> DEFINE h == at[u].hash
           m == hashLocks[h]
<1>1. h \in Hashes /\ m \in Mutexes \cup {NoMutex}
    BY Places DEF unlockHash, TypeOK
<1>2. /\ \A v \in Uploads \ {u} : at'[v] = at[v]
      /\ at'[u] = IF m = NoMutex THEN Outside
                  ELSE [pc |-> "unlock", hash |-> h, mutex |-> m]
      /\ hashLocks'[h] = NoMutex
      /\ \A g \in Hashes \ {h} : hashLocks'[g] = hashLocks[g]
      /\ locked' = locked
      /\ at[u].pc = "inside"
    BY <1>1 DEF unlockHash, TypeOK
<1>3. TypeOK'
    BY <1>1 DEF unlockHash, TypeOK, Leaving
<1>4. HashesApart'
    <2>1. \A v \in Uploads : (Waits(v) \/ Unlocks(v)) => at[v].mutex # NoMutex
        BY Places
    <2> HIDE DEF h, m
    <2>2. \A g, k \in Hashes :
            (hashLocks'[g] = hashLocks'[k] /\ hashLocks'[g] # NoMutex) => g = k
        BY <1>1, <1>2 DEF HashesApart
    <2>3. \A v \in Uploads : (Waits(v) \/ Unlocks(v))' =>
            \/ v # u /\ at'[v] = at[v] /\ (Waits(v) \/ Unlocks(v))
            \/ v = u /\ at'[u].mutex = m /\ at'[u].hash = h /\ m # NoMutex
        BY <1>2 DEF Outside
    <2>4. \A v \in Uploads : (Waits(v) \/ Unlocks(v)) /\ at[v].mutex = m => at[v].hash = h
        BY <1>1 DEF HashesApart, m
    <2> QED
        BY <1>1, <1>2, <2>1, <2>2, <2>3, <2>4 DEF HashesApart, m
<1>5. OneUnlocker'
    <2>1. \A v \in Uploads \ {u} : (Unlocks(v) /\ m # NoMutex) => at[v].mutex # m
        BY <1>1 DEF OneUnlocker, HashesApart
    <2>2. \A v \in Uploads : Unlocks(v) => at[v].mutex # NoMutex /\ at[v].hash \in Hashes
        BY Places
    <2> QED
        BY <1>1, <1>2, <2>1, <2>2 DEF OneUnlocker, Outside
<1>6. EntryWanted'
    <2> SUFFICES ASSUME NEW g \in Hashes, hashLocks'[g] \in Mutexes \ locked'
                 PROVE  \E v \in Uploads : WaitsFor(v, hashLocks[g])'
        BY DEF EntryWanted
    <2>1. g # h /\ hashLocks[g] \in Mutexes \ locked
        BY <1>1, <1>2
    <2>2. PICK v \in Uploads : WaitsFor(v, hashLocks[g])
        BY <2>1 DEF EntryWanted
    <2> QED
        BY <2>1, <2>2, <1>2
<1>7. FatalWindow'
    <2> SUFFICES ASSUME NEW v \in Uploads, Unlocks(v)', at'[v].mutex \notin locked'
                 PROVE  \E w \in Uploads : WaitsFor(w, at[v].mutex)'
        BY DEF FatalWindow
    <2>1. CASE v = u
        <3>1. m # NoMutex /\ at'[u].mutex = m /\ m \in Mutexes \ locked
            BY <2>1, <1>1, <1>2 DEF Outside
        <3>2. PICK w \in Uploads : WaitsFor(w, m)
            BY <3>1, <1>1 DEF EntryWanted
        <3> QED
            BY <2>1, <3>1, <3>2, <1>2
    <2>2. CASE v # u
        <3>1. PICK w \in Uploads : WaitsFor(w, at[v].mutex)
            BY <2>2, <1>2 DEF FatalWindow
        <3> QED
            BY <2>2, <3>1, <1>2
    <2> QED
        BY <2>1, <2>2
<1> QED
    BY <1>3, <1>4, <1>5, <1>6, <1>7

LEMMA UnlockInv ==
    ASSUME IInv, NEW u \in Uploads, Unlock(u)
    PROVE  IInv'
<1> USE DEF IInv
<1>1. /\ at'[u] = Outside
      /\ \A v \in Uploads \ {u} : at'[v] = at[v]
      /\ locked' = locked \ {at[u].mutex}
      /\ hashLocks' = hashLocks
      /\ Unlocks(u)
    BY DEF Unlock, TypeOK
<1>2. TypeOK'
    BY DEF Unlock, TypeOK
<1>3. HashesApart'
    BY <1>1 DEF HashesApart, Outside
<1>4. OneUnlocker'
    BY <1>1 DEF OneUnlocker, Outside
<1>5. EntryWanted'
    <2> SUFFICES ASSUME NEW h \in Hashes, hashLocks'[h] \in Mutexes \ locked'
                 PROVE  \E v \in Uploads : WaitsFor(v, hashLocks[h])'
        BY DEF EntryWanted
    <2>1. hashLocks[h] # at[u].mutex
        BY <1>1 DEF OneUnlocker, HashesApart
    <2>2. PICK v \in Uploads : WaitsFor(v, hashLocks[h])
        BY <2>1, <1>1 DEF EntryWanted
    <2> QED
        BY <2>2, <1>1
<1>6. FatalWindow'
    <2> SUFFICES ASSUME NEW v \in Uploads, Unlocks(v)', at'[v].mutex \notin locked'
                 PROVE  \E w \in Uploads : WaitsFor(w, at[v].mutex)'
        BY DEF FatalWindow
    <2>1. v # u /\ at'[v] = at[v] /\ Unlocks(v) /\ at[v].mutex # at[u].mutex
        BY <1>1 DEF OneUnlocker, Outside
    <2>2. PICK w \in Uploads : WaitsFor(w, at[v].mutex)
        BY <2>1, <1>1 DEF FatalWindow
    <2> QED
        BY <2>1, <2>2, <1>1
<1> QED
    BY <1>2, <1>3, <1>4, <1>5, <1>6

LEMMA ReturnLockedInv ==
    ASSUME IInv, NEW u \in Uploads, ReturnLocked(u)
    PROVE  IInv'
<1> USE DEF IInv
<1>1. /\ at'[u] = Outside
      /\ \A v \in Uploads \ {u} : at'[v] = at[v]
      /\ hashLocks' = hashLocks /\ locked' = locked
      /\ at[u].pc = "inside"
    BY DEF ReturnLocked, TypeOK
<1>2. TypeOK'
    BY DEF ReturnLocked, TypeOK
<1>3. HashesApart' /\ OneUnlocker'
    BY <1>1 DEF HashesApart, OneUnlocker, Outside
<1>4. EntryWanted' /\ FatalWindow'
    BY <1>1 DEF EntryWanted, FatalWindow, Outside
<1> QED
    BY <1>2, <1>3, <1>4

\* The inductive invariant of lockHash and unlockHash: contents do not share
\* mutexes, a forgotten mutex has one unlocker, a free one of the map is wanted.
THEOREM Inductive == Spec => []IInv
<1>1. IInv /\ [Next]_vars => IInv'
    <2> SUFFICES ASSUME IInv, [Next]_vars
                 PROVE  IInv'
        OBVIOUS
    <2>1. ASSUME NEW u \in Uploads, NEW h \in Hashes, lockHash(u, h)
          PROVE  IInv'
        BY <2>1, FindMutexInv, MakeMutexInv DEF lockHash
    <2>2. ASSUME NEW u \in Uploads, Fatal(u)
          PROVE  IInv'
        <3>1. Init'
            BY <2>2 DEF Fatal, Init
        <3> QED
            BY <3>1, HashLockAssumption
            DEF Init, IInv, TypeOK, HashesApart, OneUnlocker, EntryWanted, FatalWindow, Outside
    <2>3. ASSUME NEW u \in Uploads, Step(u)
          PROVE  IInv'
        BY <2>3, <2>2, LockInv, UnlockHashInv, UnlockInv, ReturnLockedInv DEF Step
    <2>4. CASE UNCHANGED vars
        BY <2>4 DEF vars, IInv, TypeOK, HashesApart, OneUnlocker, EntryWanted, FatalWindow
    <2> QED
        BY <2>1, <2>3, <2>4 DEF Next
<1> QED
    BY InitInv, <1>1, PTL DEF Spec

\* The process dies in unlockHash only while another upload has put a mutex in
\* the map and not locked it yet.
THEOREM FatalNeedsWindow == Spec => []FatalWindow
<1>1. IInv => FatalWindow
    BY DEF IInv
<1> QED
    BY Inductive, <1>1, PTL
=============================================================================
