\* Three tasks, a worker and one disruption: claims end, dependents are not claimed
\* early, and while nobody is disturbed they wake and attempts close.
SPECIFICATION FairSpec
CONSTANTS
    t1 = t1  t2 = t2  t3 = t3
    w1 = w1  w2 = w2
    e1 = e1  e2 = e2
    Human = Human
    NoOwner = NoOwner
    Priority <- MCPriority
    Tasks = {t1, t2, t3}
    Employees = {e1}
    Workers = {w1}
    SatisfiedOn = {"completed"}
    MaxRuns = 2
    MaxCrashes = 1
    SetStatuses = {"completed"}
    BlockReasons = {}
    Reviewers = {NoOwner}
    ReviewFlags = {FALSE}
    Originals = {t1}
    OriginalStatuses = {"todo"}
    TurnOutcomes = {"finalized", "failed"}
    Operations = {"create", "delete"}
PROPERTIES NoEarlyClaim DependentsWakeUndisturbed RunsClose ClaimsEnd
