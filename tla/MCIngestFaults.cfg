SPECIFICATION MCFairSpec
CONSTANTS
    Uploads = {u1, u2}
    Tenants = {t1}
    Files <- MCFiles
    Hashes <- MCHashes
    DocIds <- MCDocIds
    HashOf <- MCHashOf
    DocIdOf <- MCDocIdOf
    NumPages = 1
    Faults = {"raise", "crash", "clean", "delete", "unlink", "vector"}
    MaxFaults = 1
    MaxDeletes = 1
    None = None
INVARIANTS
    UniqueHash
    VerifiedIsComplete
    RowHasFile
    OrphansAreInterrupted
PROPERTIES
    TaskSettles
    DuplicateIsSettled
CHECK_DEADLOCK FALSE
