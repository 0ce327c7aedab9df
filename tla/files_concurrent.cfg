SPECIFICATION Spec
CONSTANTS
    Users = {u1, u2}
    Ids = {f1, f2}
    Root = Root
    Names = {n1}
    Contents = {c1, c2}
    Size <- MCEmpty
    MaxSize = 1
    Keys = {k1, k2}
    NoBlob = NoBlob
    Removed = Removed
    Handlers = {h1, h2}
    Cleaner = Cleaner
    Calibrator = Calibrator
    Uploads = {}
    NoUpload = NoUpload
    MaxActive = 2
    MaxUsed = 0
    ConflictMode = "overwrite"
    Failures = TRUE
SYMMETRY Symmetry
INVARIANTS TenantIsolation DedupSound IInv
