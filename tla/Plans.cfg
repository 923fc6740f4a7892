\* Three tasks: dependents and delegated tasks are created and deleted, edges
\* added and removed in every order, while a worker executes and settles them.
SPECIFICATION Spec
CONSTANTS
    t1 = t1  t2 = t2  t3 = t3
    w1 = w1  w2 = w2
    e1 = e1  e2 = e2
    Human = Human
    NoOwner = NoOwner
    Priority <- MCPriority
    Tasks = {t1, t2, t3}
    Employees = {e1}
    Workers = {w1}
    SatisfiedOn = {"completed"}
    MaxRuns = 2
    MaxCrashes = 0
    SetStatuses = {"completed"}
    BlockReasons = {}
    Reviewers = {NoOwner}
    ReviewFlags = {FALSE}
    Originals = {t1}
    OriginalStatuses = {"todo"}
    TurnOutcomes = {"finalized", "poll"}
    Operations = {"create", "delegate", "delete", "delete_flow", "depend", "undepend"}
INVARIANTS NoLostWakeup DependenciesAcyclic
 
