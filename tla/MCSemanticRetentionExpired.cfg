SPECIFICATION MCSpec
CONSTANTS
    Subjects = {"targets"}
    z1 = z1
    z2 = z2
    z3 = z3
    Zones <- TwoZones
    TransientGapLimit = 2
    zone = z1
    main = main
    spare = spare
    second = second
    module = module
    NoZone = NoZone
    Regulator = Regulator
    None = None
    RadioZones <- TwoZones
    Slots <- MCSlots
    Group <- MCGroup
    Remote <- MCRemote
    Rank <- MCRank
    Assigned <- MCAssigned
    StaleGrace = 3
    MaxChanges = 2
INVARIANTS
    ZoneRetentionBounded
