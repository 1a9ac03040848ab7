\* Up to six chunks of which five are kept, in batches of two: full batches, a
\* last batch of one, a document without chunks, and every failure everywhere.
SPECIFICATION FairSpec
CONSTANTS
    MaxItems = 6
    MaxChunks = 5
    BatchSize = 2
CHECK_DEADLOCK FALSE
INVARIANTS
    CountsAddUp
    VectorsBehindRows
PROPERTIES
    Finishes
    ContractKept
