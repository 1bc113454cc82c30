SPECIFICATION MCFairSpec
CONSTANTS
    d1 = d1
    d2 = d2
    Devices <- TwoDevices
    Sighting = Sighting
    Holders <- Boiler
    Values = {TRUE, FALSE}
    EvidenceNeeded = 2
    MaxPending = 1
    Subjects = {"value", "second", "sighting", "registry"}
INVARIANTS
    AskedReloadPending
    RegistrySettles
PROPERTIES
    CleanupNeedsEvidence
    UpdateCleanupKeepsReported
    ReloadsConverge
CHECK_DEADLOCK FALSE
