SPECIFICATION RecordsSpec
CONSTANTS
    Items = {1, 2}
    LeaseHolders = {"w1"}
    MaxTime = 1
    Appenders = {"p1", "p2"}
    MaxRuns = 3
    MaxRunFaults = 2
    SomeWorkItems <- FewWorkItems
    Ids = {1, 2}
    Clients = {c1, c2}
    Keys <- MCKeys
    MaxVersion = 2
INVARIANT RecordsTypeOK
INVARIANT OffersAreRunnable
INVARIANT RunsAndEventsAgree
INVARIANT UniqueKeys
INVARIANT VersionNamesContent
PROPERTY EventsAreAppendOnly
PROPERTY AtomicSpec
CHECK_DEADLOCK FALSE
SYMMETRY ClientSymmetry
