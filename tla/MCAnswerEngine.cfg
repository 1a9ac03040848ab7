SPECIFICATION Spec
CONSTANTS
    None = None
    a = a
    b = b
    y1 = y1
    y2 = y2
    Docs = {1, 2, 3}
    Entities = {a, b}
    Titled <- MCTitled
    Named <- MCNamed
    Untitled = {3}
    Epoch <- MCEpoch
    Indexed = {a}
    Questions <- MCQuestions
    Ingesting = {{}, {1}}
    MaxSteps = 2
    MaxTargets = 2
    SelfCheck = TRUE
    MaxFaults = 1
INVARIANTS
    Grounded
    
    FactsShown
PROPERTIES
    KeepsContract
    Ends
CHECK_DEADLOCK FALSE
