SPECIFICATION BranchesSpec
CONSTANTS
    Issues = {1}
    Workers = {w1}
    InitialRoutes = {"HumanOnly"}
    InitialReady = {TRUE}
    Replies = {"approved"}
    Commands = {"next", "post-plan"}
    UsedModes = {"auto"}
    Exclusive = TRUE
    MaxReplies = 0
    MaxPlans = 1
    MaxFaults = 0
    MaxCommits = 1
    AgentOf <- SameAgent
CHECK_DEADLOCK FALSE
INVARIANT PlanningHasBranch
