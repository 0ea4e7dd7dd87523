SPECIFICATION Spec
CONSTANTS
    Tests = {"t1", "t2"}
    Shared = {"s1", "s2"}
    Other = {"h"}
    Data = {"d"}
    Memoised = {"h"}
    Texts <- MCTexts
    PlanOf <- MCPlanOf
    FileOf <- MCFileOf
    FirstTrees <- MCTrees
    FirstTests = {"t1"}
    Asked = {{"t1", "t2"}}
    Records = 2
    MaxEdits = 2
    MaxRuns = 3
INVARIANTS
    SkippedWouldPass
    FailureRunsAgain
    BranchesRemembered
CHECK_DEADLOCK FALSE
