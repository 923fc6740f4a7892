SPECIFICATION Spec
CONSTANTS
    Requests = {r1, r2}
    Keys = {}
    NoKey = NoKey
    Nobody = Nobody
    MaxFaults = 0
    Calls <- WithoutKeys
    r1 = r1
    r2 = r2
INVARIANTS OneActiveWriter
CHECK_DEADLOCK FALSE
