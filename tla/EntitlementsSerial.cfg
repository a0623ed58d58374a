SPECIFICATION Spec
CONSTANTS
    TermLength = 1
    TrialLength = 0
    GraceLength = 1
    NumSubs = 2
    Keys = {k1, k2}
    Clients = {c1}
    Requests = {10}
    Actuals = {15}
    PlanLimit = 12
    OverrideLimits = {}
    OverrideEnds = {}
    Operations = {"provision", "start_trial", "convert_trial", "mark_past_due", "suspend", "terminate"}
    ReservationTTL = 0
    PeriodLength = 1
    Serial = TRUE
    MaxOverrides = 0
    MaxClock = 1
SYMMETRY SymmetricKeys
INVARIANT
    BooksBalance
PROPERTIES
    ImplementsProtocol
    GrantsHonoured
