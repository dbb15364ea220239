SPECIFICATION Spec
CONSTANTS
    Issues = {1}
    Workers = {w1, w2}
    InitialRoutes = {"HumanOnly"}
    InitialReady = {TRUE}
    Replies = {"approved"}
    Commands = {"next", "approval", "post-plan", "pr-create", "complete", "reset-for-next"}
    UsedModes = {"auto"}
    Exclusive = FALSE
    MaxReplies = 1
    MaxPlans = 2
    MaxFaults = 0
PROPERTY ApprovalFollowsPlan
