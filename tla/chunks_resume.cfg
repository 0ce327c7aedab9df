SPECIFICATION Spec
CONSTANTS
    Uploads = {a}
    NoUpload = NoUpload
    ChunkCount = 2
    Handlers = {w1, w2}
    Failures = FALSE
INVARIANTS ResumedIsWhole
