SPECIFICATION Spec
CONSTANTS
    Runners = {r1, r2}
    DaysPerMonth = 2
    LastDay = 4
    MonthlyAllowance = 2
    PilotAllowances = {1}
    InvocationLimit = 1
    MaxReserve = 1
    CalendarGate = FALSE
    MaxFailures = 1
PROPERTIES
    InterruptedRolloverCompletes
