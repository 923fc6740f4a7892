SPECIFICATION FairSpec
CONSTANTS
    Crons = {1, 2}
    Ticks = {k1, k2}
    NoTick = NoTick
    Schedules <- TwoSchedules
    Failing = {1}
    Initial = {1}
    MaxEdits = 2
    Limit = 2
    MaxTime = 2
    MaxFaults = 1
    k1 = k1
    k2 = k2
INVARIANTS CompletedTimesPast NeverTwiceAtOnce
PROPERTIES LostClaimHarmless ClaimsAreLeases DueTimesRun
CHECK_DEADLOCK FALSE
