SPECIFICATION SuiteSpec
CONSTANTS
    r1 = r1
    r2 = r2
    Runners = {r1, r2}
    DaysPerMonth = 2
    LastDay = 3
    MonthlyAllowance = 3
    PilotAllowances = {2}
    InvocationLimit = 3
    MaxReserve = 2
    CalendarGate = TRUE
    MaxFailures = 2
SYMMETRY Symmetry
INVARIANTS
    ReservationsCoverRequests
    ControlStaysSound
    MonthlyOvershootBounded
    WeekendPolicies
    StateStaysReadable
    ProjectionIsHonest
PROPERTIES
    NeverRefunded
CHECK_DEADLOCK FALSE
