SPECIFICATION BranchesSpec
CONSTANTS
    Issues = {1}
    Workers = {w1, w2}
    InitialRoutes = {"HumanOnly"}
    InitialReady = {TRUE}
    Replies = {"approved", "request-changes"}
    Commands = {"next", "claim", "post-plan", "revise-plan", "pr-create"}
    UsedModes = {"implement"}
    Exclusive = TRUE
    MaxReplies = 1
    MaxPlans = 2
    MaxFaults = 1
    MaxCommits = 2
    AgentOf <- SameAgent
SYMMETRY WorkerSymmetry
CHECK_DEADLOCK FALSE
INVARIANT BranchesTypeOK
INVARIANT LinkedPlanIsPushed
INVARIANT WaitingPlanIsPushed
PROPERTY PushedIsKept
PROPERTY ImplementationStartsFromPlan
