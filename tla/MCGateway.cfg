SPECIFICATION MCFairSpec
CONSTANTS
    Subjects = {"queries", "startup", "config", "views", "calendar"}
    Focuses = {"inventory", "status", "semantic", "circuits", "fm5", "system", "energy", "boiler", "schedules", "adapter"}
    BoundCooldown = 2
    FirstDelay = 1
    MaxDelay = 2
    MaxReading = 2
    s1 = s1
    s2 = s2
    NoSource = NoSource
    Sources <- MCSources
    Target = 2
    Absolute = 4
    Interval = 1
    OpTimeout = 2
    Dual = TRUE
    Lowest = 0
    Highest = 4
    MaxLength = 2
    MaxCode = 9
    Grace = 3
INVARIANTS
    VerdictEarned
    WritesSettle
    ShowsItsTarget
PROPERTIES
    SpotcheckEnds
    SupportLostOnEvidence
    TotalsFallOnlyBehindEvents
    PartsReturn
CHECK_DEADLOCK FALSE
