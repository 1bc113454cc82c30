SPECIFICATION MCFairSpec
CONSTANTS
    c1 = c1
    c2 = c2
    Calls <- TwoCalls
    Kinds = {"away", "preset"}
    Retries = 1
    MaxLate = 1
INVARIANTS
    CallsApplyPrefix
    SerialHolidayHasEnd
PROPERTIES
    CallsReturn
