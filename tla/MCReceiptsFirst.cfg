SPECIFICATION Spec
CONSTANTS
    None = None
    MaxTime = 2
    DayLength = 2
    MaxPerDay = 2
    MaxRuns = 3
    MaxKills = 1
    MaxLosses = 1
    MaxDamages = 0
INVARIANTS
    PublishedSurvive
CHECK_DEADLOCK FALSE
