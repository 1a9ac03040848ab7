SPECIFICATION Spec
CONSTANTS
    Uploads = {u1, u2}
    Tenants = {t1}
    Files <- MCFiles
    Hashes <- MCHashes
    DocIds <- MCDocIds
    HashOf <- MCHashOf
    DocIdOf <- MCDocIdOf
    NumPages = 1
    Faults = {"crash"}
    MaxFaults = 1
    MaxDeletes = 0
    None = None
SYMMETRY UploadSymmetry
PROPERTIES
    DuplicateIsIndexed
CHECK_DEADLOCK FALSE
