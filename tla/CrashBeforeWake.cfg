\* A worker is stopped between the transaction that completes a task and the one
\* that wakes its dependents.
SPECIFICATION FairSpec
CONSTANTS
    t1 = t1  t2 = t2  t3 = t3
    w1 = w1  w2 = w2
    e1 = e1  e2 = e2
    Human = Human
    NoOwner = NoOwner
    Priority <- MCPriority
    Tasks = {t1, t2}
    Employees = {e1}
    Workers = {w1}
    SatisfiedOn = {"completed"}
    MaxRuns = 1
    MaxCrashes = 1
    SetStatuses = {"cancelled"}
    BlockReasons = {}
    Reviewers = {NoOwner}
    ReviewFlags = {FALSE}
    Originals = {t1}
    OriginalStatuses = {"todo"}
    TurnOutcomes = {"finalized"}
    Operations = {"create"}
PROPERTIES DependentsWake
