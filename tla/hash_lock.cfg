SPECIFICATION FairSpec
CONSTANTS
    Uploads = {u1, u2, u3}
    Hashes = {h1, h2}
    Mutexes = {m1, m2, m3, m4, m5}
    NoMutex = NoMutex
    Failures = TRUE
INVARIANTS IInv FatalWindow
PROPERTIES WaitersGoOn
CHECK_DEADLOCK FALSE
