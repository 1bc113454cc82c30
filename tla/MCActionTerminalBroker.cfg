SPECIFICATION FairSpec
CONSTANTS
    f1 = f1
    s1 = s1
    a1 = a1
    a2 = a2
    NONE = NONE
    Flows <- OneFlow
    Services <- OneService
    Actions <- TwoActions
INVARIANTS
    OutcomesMatch
PROPERTIES
    StaleAnswersHarmless
    OutcomesKept
    BusyEnds
