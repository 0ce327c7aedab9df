SPECIFICATION FairSpec
CONSTANTS
    Uploads = {a}
    NoUpload = NoUpload
    ChunkCount = 2
    Handlers = {w1, w2}
    Failures = TRUE
INVARIANTS IInv CarefulIsWhole YoungSessionsKept
PROPERTIES DirectoriesGo ImplementsUpload
