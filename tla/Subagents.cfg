SPECIFICATION FairSpec
CONSTANTS
    Tasks = {t1}
    Callers = {c1, c2}
    Local = {c1}
    NoTask = NoTask
    MaxCrashes = 1
INVARIANTS TypeOK AnswersHold
PROPERTIES NoOrphanTurn TasksEnd
CHECK_DEADLOCK FALSE
