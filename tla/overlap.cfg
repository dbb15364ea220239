SPECIFICATION Spec
CONSTANTS
    Issues = {1}
    Workers = {w1, w2}
    InitialRoutes = {"ReviewBoth"}
    InitialReady = {TRUE}
    Replies = {"approved", "request-changes"}
    Commands = {"next", "post-plan", "stage-review", "complete",
                "reset-for-next"}
    UsedModes = {"auto"}
    Exclusive = FALSE
    MaxReplies = 1
    MaxPlans = 1
    MaxFaults = 0
SYMMETRY WorkerSymmetry
INVARIANT TypeOK
INVARIANT ImplementationNeedsApproval
INVARIANT HumanStagesAreQueued
