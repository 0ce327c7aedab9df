SPECIFICATION FairSpec
CONSTANTS
    Users = {u1}
    Ids = {f1, f2}
    Root = Root
    Names = {n1}
    Contents = {c1}
    Size <- MCSize
    MaxSize = 1
    Keys = {k1}
    NoBlob = NoBlob
    Removed = Removed
    Handlers = {h1}
    Cleaner = Cleaner
    Calibrator = Calibrator
    Uploads = {}
    NoUpload = NoUpload
    MaxActive = 3
    MaxUsed = 2
    ConflictMode = "overwrite"
    Failures = FALSE
PROPERTIES CalibrationHeals
