SPECIFICATION Spec
CONSTANTS
    Issues = {1}
    Workers = {w1}
    InitialRoutes = {"HumanOnly"}
    InitialReady = {TRUE}
    Replies = {"approved", "request-changes", "request-review"}
    Commands = {"next", "claim", "approval", "approve", "post-plan", "revise-plan",
                "stage-review", "pr-create", "complete", "reset-for-next"}
    UsedModes = {"auto"}
    Exclusive = TRUE
    MaxReplies = 2
    MaxPlans = 1
    MaxFaults = 0
PROPERTY ImplementOnlyUnopposed
