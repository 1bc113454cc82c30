SPECIFICATION MCSpec
CONSTANTS
    f1 = f1
    f2 = f2
    a1 = a1
    a2 = a2
    FactIds <- MCFacts
    Special = f1
    Order <- MCOrder
    FactsOf <- MCFactsOf
    Assets <- MCAssets
    FactLimit = 1
    MaxRevision = 2
    MaxSaves = 2
    MaxFaults = 1
INVARIANTS
    DescriptorsLast
    RunsSavedOptions
    AnswersBacked
PROPERTIES
    SessionsReleased
CHECK_DEADLOCK FALSE
