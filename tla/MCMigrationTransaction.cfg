SPECIFICATION MCFairSpec
CONSTANTS
    LEGACY = LEGACY
    SHARED = SHARED
    UNRESOLVED = UNRESOLVED
    g1 = g1
    g2 = g2
    h1 = h1
    h2 = h2
    None = None
    Entries <- MCEntries
    Guids <- MCGuids
    Hosts <- MCHosts
    Fallback <- MCFallback
    MaxChanges = 1
INVARIANTS
    NoOverlappingWork
    RefusedHaveOwner
PROPERTIES
    CommitIsFinal
    HandsOverThroughDecision
    OperationEnds
    OptionsSurvive
CHECK_DEADLOCK FALSE
