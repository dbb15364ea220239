SPECIFICATION Spec
CONSTANTS
    Issues = {1}
    Workers = {w1}
    InitialRoutes = {"HumanOnly"}
    InitialReady = {TRUE}
    Replies = {"approved"}
    Commands = {"next", "post-plan", "pr-create", "complete", "reset-for-next"}
    UsedModes = {"auto"}
    Exclusive = TRUE
    MaxReplies = 1
    MaxPlans = 1
    MaxFaults = 0
INVARIANT ResetIsPlannable
