SPECIFICATION SuiteSpec
CONSTANTS
    runner = runner
    first = first
    k2 = k2
    k3 = k3
    a1 = a1
    a2 = a2
    b1 = b1
    b2 = b2
    d1 = d1
    d2 = d2
    None = None
    Keys = {first, k2, k3}
    Results = {b1, b2}
    FirstResult = first
    Runner = runner
    Operators = {a1, a2}
    MaxRefreshes = 2
    MaxCrashes = 1
SYMMETRY Symmetry
INVARIANTS
    ChainStaysValid
    TipIsLatest
    KeysAreIdempotent
    EvidenceReads
    ForecastsAreSettledOnce
PROPERTIES
    ImplementsHistory
    AnalysesAreReplayed
    LedgersHold
CHECK_DEADLOCK FALSE
