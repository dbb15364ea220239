SPECIFICATION Spec
CONSTANTS
    Ids = {1, 2, 3, 4, 5, 6}
    Bootstraps = {b1, b2}
    ProjectNames = {n1, n2}
    Repos = {r1}
    ActionCount = 2
    MaxStarts = 3
    MaxCrashes = 1
    MaxCursor = 1
SYMMETRY BootstrapSymmetry
CHECK_DEADLOCK FALSE
INVARIANT TypeOK
INVARIANT ReferencesResolve
INVARIANT RerunsDuplicateNothing
INVARIANT AppliedIsComplete
PROPERTY RerunSucceeds
PROPERTY CursorsAdvance
