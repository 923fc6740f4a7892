\* Tasks that ask for review are executed, reviewed by an AI reviewer or by a
\* person, approved or sent back, while leases expire and workers fail.
SPECIFICATION Spec
SYMMETRY EmployeeSymmetry
CONSTANTS
    t1 = t1  t2 = t2  t3 = t3
    w1 = w1  w2 = w2
    e1 = e1  e2 = e2
    Human = Human
    NoOwner = NoOwner
    Priority <- MCPriority
    Tasks = {t1, t2}
    Employees = {e1, e2}
    Workers = {w1, w2}
    SatisfiedOn = {"completed"}
    MaxRuns = 2
    MaxCrashes = 1
    SetStatuses = {"cancelled"}
    BlockReasons = {}
    Reviewers = {NoOwner, e1, e2}
    ReviewFlags = {TRUE, FALSE}
    Originals = {t1}
    OriginalStatuses = {"todo"}
    TurnOutcomes = {"finalized", "blocked", "failed"}
    Operations = {"review", "delegate"}
INVARIANTS SnapshotsMatch
PROPERTIES ReviewedBeforeDone ClaimsAreSlots
