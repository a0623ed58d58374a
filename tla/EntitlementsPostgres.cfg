SPECIFICATION Spec
CONSTANTS
    TermLength = 1
    TrialLength = 0
    GraceLength = 1
    NumSubs = 1
    Keys = {k1, k2}
    Clients = {c1, c2}
    Requests = {10}
    Actuals = {4, 15}
    PlanLimit = 12
    OverrideLimits = {20}
    OverrideEnds = {0}
    Operations = {"provision", "activate", "mark_past_due", "reinstate", "suspend"}
    ReservationTTL = 0
    PeriodLength = 1
    Serial = FALSE
    MaxOverrides = 1
    MaxClock = 1
SYMMETRY Symmetry
INVARIANTS
    TypeOK
    ChargedAsRecorded
    NoOversell
PROPERTIES
    GrantsFit
    SettledIsFinal
