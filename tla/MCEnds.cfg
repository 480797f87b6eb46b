SPECIFICATION FairSpec
CONSTANTS
    r1 = r1
    r2 = r2
    m1 = m1
    s1 = s1
    s2 = s2
    None = None
    Runners = {r1, r2}
    DaysPerMonth = 2
    LastDay = 4
    MonthlyAllowance = 2
    PilotAllowances = {1}
    InvocationLimit = 1
    MaxReserve = 1
    CalendarGate = FALSE
    MaxFailures = 1
PROPERTIES
    RolloverRecovers
    WorkIsFinished
CHECK_DEADLOCK FALSE
