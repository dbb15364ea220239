SPECIFICATION FairSpec
CONSTANTS
    Issues = {1, 2}
    Workers = {w1, w2}
    InitialRoutes = {"HumanOnly"}
    InitialReady = {TRUE, FALSE}
    Replies = {"approved"}
    Commands = {"next", "post-plan", "pr-create", "complete"}
    UsedModes = {"auto"}
    Exclusive = TRUE
    MaxReplies = 1
    MaxPlans = 1
    MaxFaults = 0
INVARIANT OneIssuePerWorker
PROPERTY DecisionTakesEffect
PROPERTY QueuedWorkIsServed
