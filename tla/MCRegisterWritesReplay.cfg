SPECIFICATION MCSpec
CONSTANTS
    c1 = c1
    c2 = c2
    Calls <- OneCall
    Kinds = {"away", "preset", "temperature", "single"}
    Retries = 2
    MaxLate = 1
PROPERTIES
    NotReplayed
