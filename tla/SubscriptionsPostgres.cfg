SPECIFICATION Spec
CONSTANTS
    TermLength = 3
    TrialLength = 1
    GraceLength = 1
    Subs = {s1, s2}
    Clients = {c1, c2}
    Calls = {"create", "activate", "start_trial", "mark_past_due", "reinstate", "suspend", "cancel", "rescind_cancellation", "terminate"}
    Serial = FALSE
    MaxEvents = 5
SYMMETRY Symmetry
INVARIANTS
    HistoryIsPath
    ChainVerifies
    EntitledOnEntry
PROPERTY
    ImplementsLedger
CHECK_DEADLOCK FALSE
