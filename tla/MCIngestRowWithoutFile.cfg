SPECIFICATION Spec
CONSTANTS
    Uploads = {u1, u2}
    Tenants = {t1}
    Files <- MCFiles
    Hashes <- MCHashes
    DocIds <- MCDocIds
    HashOf <- MCHashOf
    DocIdOf <- MCDocIdOf
    NumPages = 1
    Faults = {}
    MaxFaults = 0
    MaxDeletes = 1
    None = None
SYMMETRY UploadSymmetry
INVARIANTS
    NoRowWithoutFile
CHECK_DEADLOCK FALSE
