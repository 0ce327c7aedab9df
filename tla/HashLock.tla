------------------------------ MODULE HashLock ------------------------------
(***************************************************************************)
(* internal/service/file.go: the locks of content hashes that UploadFile   *)
(* and CompleteUpload take around FileByHash.                              *)
(*                                                                         *)
(* hashLocks maps a hash to a mutex.  lockHash finds or makes the mutex    *)
(* under hashMu and locks it after hashMu is released; unlockHash removes  *)
(* whichever mutex the map then holds and unlocks that one.  So the map    *)
(* forgets a mutex others wait for, and a goroutine may unlock a mutex     *)
(* that is not its own, or that nobody has locked yet: then the Go runtime *)
(* ends the process.                                                       *)
(***************************************************************************)
EXTENDS Integers, FiniteSets

CONSTANTS
    Uploads,    \* goroutines that upload
    Hashes,
    Mutexes,    \* objects sync.Mutex; one that nothing refers to is used again
    NoMutex,    \* no entry in the map
    Failures    \* may FileByHash fail?

ASSUME HashLockAssumption ==
    /\ NoMutex \notin Mutexes
    /\ IsFiniteSet(Uploads)
    /\ Failures \in BOOLEAN

VARIABLES
    hashLocks,  \* svc.hashLocks
    locked,     \* the mutexes that are locked; a Go mutex has no owner
    at          \* where each goroutine is

vars == <<hashLocks, locked, at>>

Outside == [pc |-> "outside"]
Waiting == [pc : {"lock"}, hash : Hashes, mutex : Mutexes]
Inside == [pc : {"inside"}, hash : Hashes]
Leaving == [pc : {"unlock"}, hash : Hashes, mutex : Mutexes]

TypeOK ==
    /\ hashLocks \in [Hashes -> Mutexes \cup {NoMutex}]
    /\ locked \subseteq Mutexes
    /\ at \in [Uploads -> {Outside} \cup Waiting \cup Inside \cup Leaving]

Init ==
    /\ hashLocks = [h \in Hashes |-> NoMutex]
    /\ locked = {}
    /\ at = [u \in Uploads |-> Outside]

Waits(u) == at[u].pc = "lock"
Unlocks(u) == at[u].pc = "unlock"
WaitsFor(u, m) == Waits(u) /\ at[u].mutex = m
Unlocking(u, m) == Unlocks(u) /\ at[u].mutex = m

\* Nothing refers to m: &sync.Mutex{} may return it, unlocked.
Unused(m) ==
    /\ \A h \in Hashes : hashLocks[h] # m
    /\ \A u \in Uploads : ~WaitsFor(u, m) /\ ~Unlocking(u, m)

-----------------------------------------------------------------------------
(* lockHash: the mutex of the map, or a new one, under hashMu; then Lock *)

FindMutex(u, h) ==
    /\ hashLocks[h] # NoMutex
    /\ at' = [at EXCEPT ![u] = [pc |-> "lock", hash |-> h, mutex |-> hashLocks[h]]]
    /\ UNCHANGED <<hashLocks, locked>>

MakeMutex(u, h) ==
    /\ hashLocks[h] = NoMutex
    /\ \E m \in Mutexes : Unused(m)
    /\ LET m == CHOOSE x \in Mutexes : Unused(x)
       IN  /\ hashLocks' = [hashLocks EXCEPT ![h] = m]
           /\ locked' = locked \ {m}
           /\ at' = [at EXCEPT ![u] = [pc |-> "lock", hash |-> h, mutex |-> m]]

lockHash(u, h) == at[u] = Outside /\ (FindMutex(u, h) \/ MakeMutex(u, h))

Lock(u) ==
    /\ Waits(u)
    /\ at[u].mutex \notin locked
    /\ locked' = locked \cup {at[u].mutex}
    /\ at' = [at EXCEPT ![u] = [pc |-> "inside", hash |-> at[u].hash]]
    /\ UNCHANGED hashLocks

-----------------------------------------------------------------------------
(* unlockHash: remove the map's mutex, if any, under hashMu; then unlock it *)

\* Mutant: the entry is deleted and nothing is unlocked.
DeleteOnly(u) ==
    /\ at[u].pc = "inside"
    /\ hashLocks' = [hashLocks EXCEPT ![at[u].hash] = NoMutex]
    /\ at' = [at EXCEPT ![u] = Outside]
    /\ UNCHANGED locked

unlockHash(u) ==
    /\ at[u].pc = "inside"
    /\ LET h == at[u].hash
           m == hashLocks[h]
       IN  /\ hashLocks' = [hashLocks EXCEPT ![h] = NoMutex]
           /\ at' = [at EXCEPT ![u] = IF m = NoMutex THEN Outside
                                      ELSE [pc |-> "unlock", hash |-> h, mutex |-> m]]
    /\ UNCHANGED locked

Unlock(u) ==
    /\ Unlocks(u)
    /\ at[u].mutex \in locked
    /\ locked' = locked \ {at[u].mutex}
    /\ at' = [at EXCEPT ![u] = Outside]
    /\ UNCHANGED hashLocks

\* "fatal error: sync: unlock of unlocked mutex".  It is not a panic, so the
\* handler of panics does not see it; the server is started again.
Fatal(u) ==
    /\ Unlocks(u)
    /\ at[u].mutex \notin locked
    /\ hashLocks' = [h \in Hashes |-> NoMutex]
    /\ locked' = {}
    /\ at' = [v \in Uploads |-> Outside]

\* Mutant: the error path unlocks the mutex and leaves it in the map.
ReturnUnlocking(u) ==
    /\ Failures
    /\ at[u].pc = "inside"
    /\ locked' = locked \ {hashLocks[at[u].hash]}
    /\ at' = [at EXCEPT ![u] = Outside]
    /\ UNCHANGED hashLocks

\* FileByHash failed: CompleteUpload returns without unlockHash.
ReturnLocked(u) ==
    /\ Failures
    /\ at[u].pc = "inside"
    /\ at' = [at EXCEPT ![u] = Outside]
    /\ UNCHANGED <<hashLocks, locked>>

Step(u) == Lock(u) \/ unlockHash(u) \/ Unlock(u) \/ Fatal(u) \/ ReturnLocked(u)

Next == \E u \in Uploads : Step(u) \/ \E h \in Hashes : lockHash(u, h)

Spec == Init /\ [][Next]_vars

\* A mutex handed on again and again reaches every waiter (sync.Mutex's
\* starvation mode); a goroutine inside runs on.
FairSpec == Spec /\ \A u \in Uploads : SF_vars(Lock(u)) /\ WF_vars(Step(u))

-----------------------------------------------------------------------------
(* Properties *)

\* Contents do not share mutexes: an upload never waits for, nor unlocks, the
\* mutex of another content, although mutexes are forgotten while in use.
HashesApart ==
    /\ \A g, h \in Hashes : (hashLocks[g] = hashLocks[h] /\ hashLocks[g] # NoMutex) => g = h
    /\ \A u \in Uploads, h \in Hashes :
          (Waits(u) \/ Unlocks(u)) /\ hashLocks[h] = at[u].mutex => at[u].hash = h
    /\ \A u, v \in Uploads :
          ((Waits(u) \/ Unlocks(u)) /\ (Waits(v) \/ Unlocks(v)) /\ at[u].mutex = at[v].mutex)
              => at[u].hash = at[v].hash

\* A mutex is unlocked by one goroutine at most, once the map has forgotten it.
OneUnlocker ==
    \A u \in Uploads : Unlocks(u) =>
        /\ hashLocks[at[u].hash] # at[u].mutex
        /\ \A v \in Uploads : Unlocking(v, at[u].mutex) => u = v

\* A free mutex in the map is about to be locked: entries do not outlive uploads.
EntryWanted ==
    \A h \in Hashes : hashLocks[h] \in Mutexes \ locked =>
        \E u \in Uploads : WaitsFor(u, hashLocks[h])

\* The process dies in one window only: an upload unlocks the mutex that
\* another one has put in the map and not locked yet.
FatalWindow ==
    \A u \in Uploads : (Unlocks(u) /\ at[u].mutex \notin locked) =>
        \E v \in Uploads : WaitsFor(v, at[u].mutex)

\* The inductive invariant behind FatalWindow.
IInv == TypeOK /\ HashesApart /\ OneUnlocker /\ EntryWanted /\ FatalWindow

\* Three uploads of h at a time.
Crowded(h) == Cardinality({u \in Uploads : at[u] # Outside /\ at[u].hash = h}) >= 3

\* A failed lookup left the mutex of h in the map, locked.
Leaked(h) ==
    /\ hashLocks[h] \in locked
    /\ \A u \in Uploads : at[u] # Outside /\ at[u].hash = h => Waits(u)

\* An upload that waits for the mutex of the map gets it, unless a failed lookup
\* left it locked or two others of its content come: of two that wait for one
\* mutex the first may release a newer one and leave the other waiting for ever.
WaitersGoOn ==
    \A u \in Uploads :
        (Waits(u) /\ hashLocks[at[u].hash] = at[u].mutex)
            ~> (~Waits(u) \/ Crowded(at[u].hash) \/ Leaked(at[u].hash))
=============================================================================
