SPECIFICATION Spec
CONSTANTS
    TermLength = 3
    TrialLength = 1
    GraceLength = 1
    Subs = {s1}
    Clients = {c1}
    Calls = {"create", "activate", "cancel", "rescind_cancellation"}
    Serial = TRUE
    MaxEvents = 4
INVARIANT
    ActiveHasTerm
CHECK_DEADLOCK FALSE
