SPECIFICATION FairSpec
CONSTANTS
    Hooks = {h1}
    Events = {e1, e2}
    NoEvent = NoEvent
    Workers = {w1, w2}
    NoWorker = NoWorker
    Requests = {r1, r2, r3}
    QueueSize = 1
    Initial = {}
    MaxEdits = 2
    MaxExpiries = 1
    MaxFaults = 1
    h1 = h1
    e1 = e1
    e2 = e2
    w1 = w1
    w2 = w2
    r1 = r1
    r2 = r2
    r3 = r3
INVARIANTS CompletedOnce OneEventAtATime
PROPERTIES LostClaimHarmless ClaimsAreLeases AcceptedDecided
CHECK_DEADLOCK FALSE
