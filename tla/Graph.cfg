SPECIFICATION FairSpec
CONSTANTS
    Nodes = {1, 2, 3, 4}
    Ports = {"a", "b"}
    Default = "a"
    Modes = {"fail_closed", "branch_error_only", "resume_with_ai", "resume_with_ai_if_safe"}
    Flows <- FourNodeFlows
INVARIANTS FallbackOnlyIfSafe
PROPERTIES RunsTheDataflow RunGetsVerdict
CHECK_DEADLOCK FALSE
