\* Two employees, two workers, two tasks and one disruption: all that may
\* happen to a claim while people create tasks, planned or not, reassign and
\* delete them and disable employees, and the guard clears the PLAN lane.
SPECIFICATION Spec
SYMMETRY EmployeeSymmetry
CONSTANTS
    t1 = t1  t2 = t2  t3 = t3
    w1 = w1  w2 = w2
    e1 = e1  e2 = e2
    Human = Human
    NoOwner = NoOwner
    Priority <- MCPriority
    Tasks = {t1, t2}
    Employees = {e1, e2}
    Workers = {w1, w2}
    SatisfiedOn = {"completed"}
    MaxRuns = 2
    MaxCrashes = 1
    SetStatuses = {}
    BlockReasons = {}
    Reviewers = {NoOwner}
    ReviewFlags = {FALSE}
    Originals = {t1}
    OriginalStatuses = {"plan", "todo"}
    TurnOutcomes = {"finalized"}
    Operations = {"create_as", "reassign", "delete", "employees"}
INVARIANTS TypeOK ClaimIsBacked
PROPERTIES LiveClaimRespected StaleWorkerHarmless PlanLaneStaysHuman
