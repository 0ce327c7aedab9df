SPECIFICATION Spec
CONSTANTS
    Users = {u1, u2}
    Ids = {f1, f2, f3}
    Root = Root
    Names = {n1, n2}
    Contents = {c1}
    Size <- MCSize
    MaxSize = 1
    Keys = {k1, k2}
    NoBlob = NoBlob
    Removed = Removed
    Handlers = {h1}
    Cleaner = Cleaner
    Calibrator = Calibrator
    Uploads = {}
    NoUpload = NoUpload
    MaxActive = 1
    MaxUsed = 3
    ConflictMode = "rename"
    Failures = FALSE
SYMMETRY Symmetry
INVARIANT UsageExact
