SPECIFICATION SuiteSpec
CONSTANTS
    None = None
    MaxTime = 2
    DayLength = 2
    MaxPerDay = 2
    MaxRuns = 2
    MaxKills = 1
    MaxLosses = 1
    MaxDamages = 1
INVARIANTS
    StatusIsTrue
PROPERTIES
    MarketIsReplayable
    ResearchIsHonest
    RefreshIsAccounted
CHECK_DEADLOCK FALSE
