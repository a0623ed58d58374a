SPECIFICATION Spec
CONSTANTS
    TermLength = 1
    TrialLength = 0
    GraceLength = 1
    NumSubs = 1
    Keys = {k1, k2}
    Clients = {c1}
    Requests = {10}
    Actuals = {15}
    PlanLimit = 12
    OverrideLimits = {20}
    OverrideEnds = {0, 1}
    Operations = {"provision", "activate"}
    ReservationTTL = 0
    PeriodLength = 1
    Serial = FALSE
    MaxOverrides = 2
    MaxClock = 1
SYMMETRY SymmetricKeys
INVARIANT
    OverrideEffective
