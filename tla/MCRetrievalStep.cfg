\* A question answered or failed is the end.
SPECIFICATION Spec
CONSTANTS
    Cfg <- MCCfg
    LowValue <- MCLowValue
    Described <- MCDescribed
    Dense <- MCDense
    Docs = {1, 2, 3, 4}
    PageCount <- MCPageCount
    Length <- MCLength
    Chapters <- MCChapters
    Words <- MCWords
    Tables <- MCTables
    Rules <- MCRules
    PackPages <- MCPackPages
    WordScore <- MCWordScore
    Plans <- MCPlans
    Searches <- MCSearches
    MaxDeletes = 2
INVARIANTS
    NoForeignPages
    DocumentsSpeak
    CutIsMarked
    SourcesAreContext
    NamedPageFound
CHECK_DEADLOCK FALSE
