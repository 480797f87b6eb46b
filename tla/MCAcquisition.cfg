SPECIFICATION SuiteSpec
CONSTANTS
    a1 = a1
    a2 = a2
    None = None
    r1 = r1
    r2 = r2
    Fixtures = {"f1"}
    Championship = {"f1"}
    FirstKickoff <- EarlyKickoff
    Experiments = {a1, a2}
    Runs = {r1, r2}
    Opens = 6
    Closes = 4
    CalendarAge = 2
    Lifetime = 2
    Allowance = 1
    Floor = 1
    MonthEnd = 1
    FreezeE0 = FALSE
    OneShot = FALSE
    Delays = {1}
    MaxClock = 1
SYMMETRY Symmetry
INVARIANTS
    NeverAskedTwice
    SharedAccounting
    RequestsArePrepared
    PremierLeagueReplays
PROPERTIES
    ImplementsAtMostOnce
    ProfilesHold
    ResearchGatesHold
CHECK_DEADLOCK FALSE
