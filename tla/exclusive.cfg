SPECIFICATION Spec
CONSTANTS
    Issues = {1}
    Workers = {w1, w2}
    InitialRoutes = {"ReviewBoth"}
    InitialReady = {TRUE}
    Replies = {"approved", "request-changes", "request-review"}
    Commands = {"next", "claim", "approval", "approve", "post-plan", "revise-plan",
                "stage-review", "pr-create", "complete", "reset-for-next"}
    UsedModes = {"auto", "plan", "implement", "review"}
    Exclusive = TRUE
    MaxReplies = 2
    MaxPlans = 2
    MaxFaults = 1
SYMMETRY WorkerSymmetry
INVARIANT OwnershipExplicit
PROPERTY ApprovalFollowsPlan
PROPERTY LifecycleSpec
