SPECIFICATION Spec
CONSTANTS
    Requests = {r1, r2}
    Processes = {p1, p2}
    Fatal = FALSE
    Users = {u1, u2}
    Spaces = {main, other}
    Default = main
    AgentCount = 3
    Risky <- MCRisky
    Selections <- MCSelections
    Results <- MCResults
    Preauthorized <- MCPreauthorized
    EmptySpare <- NoSpare
    StaffedSpare <- NoSpare
    PlanSpare <- NoSpare
    OrderSpare <- NoSpare
    SavedSpare <- MCSaved
    Graph <- MCGraph
    TaskLinks <- MCTaskLinks
    EstateLinks <- MCEstateLinks
    Saved = {c1, c2}
    Targets = {t1, t2}
SYMMETRY Symmetry
INVARIANTS
    ConnectedWasTested
CHECK_DEADLOCK FALSE
