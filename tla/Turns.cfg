SPECIFICATION FairSpec
CONSTANTS
    Requests = {r1, r2, r3}
    Keys = {k1}
    NoKey = NoKey
    Nobody = Nobody
    MaxFaults = 1
    Calls <- OneForEachNumber
    r1 = r1
    r2 = r2
    r3 = r3
    k1 = k1
INVARIANTS OverlapExplained ReplayExplained AnswersAgree
PROPERTIES StartsInOrder RequestsEnd
CHECK_DEADLOCK FALSE
