SPECIFICATION SuiteSpec
CONSTANTS
    a1 = a1
    a2 = a2
    r1 = r1
    r2 = r2
    None = None
    Controllers = {a1, a2}
    Commits = {1, 2}
    MaxAttempts = 2
    MaxCrashes = 1
SYMMETRY Symmetry
INVARIANTS
    CurrentIsTested
    PinnedReleaseStays
    UnitsAreAccountedFor
    ReportsAreTrue
PROPERTIES
    NeverBackwards
    StatusesAreTrue
    ValidationIsEarned
CHECK_DEADLOCK FALSE
