SPECIFICATION FairSpec
CONSTANTS
    c1 = c1
    c2 = c2
    r1 = r1
    r2 = r2
    r3 = r3
    t1 = t1
    t2 = t2
    NONE = NONE
    Callers <- TwoCallers
    Reads <- ThreeReads
    Timers <- TwoTimers
INVARIANTS
    OneReadOneTimer
    OpenIsPolled
PROPERTIES
    CallsReturn
