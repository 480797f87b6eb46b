SPECIFICATION SuiteSpec
CONSTANTS
    a1 = a1
    a2 = a2
    a3 = a3
    a4 = a4
    l1 = l1
    l2 = l2
    None = None
    Attempts = {a1, a2, a3, a4}
    Fresh = {a1, a2}
    Lines = {l1, l2}
    MaxBoots = 1
    MaxStops = 2
SYMMETRY Symmetry
INVARIANTS
    EffectsAreIntended
    ObservationsAreTrue
    HostStaysIntact
PROPERTIES
    WorkIsAccountedFor
    OperationsAreAdmitted
CHECK_DEADLOCK FALSE
