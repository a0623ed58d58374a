SPECIFICATION Spec
CONSTANTS
    Clients = {c1, c2}
    Serial = TRUE
    FreshBudgets <- GapBudgets
    BilledBudgets = {}
    Events = {e1, e2}
    Deltas <- MCDeltas
    Staff = {u1, u2}
    ListPrice = 3
    NetPrice = 1
    FloorPrice = 2
    Proposals = {0, 1}
    Receipts = {p1}
    Notices = {n1}
    Amounts = {1, 3}
    NoticeAmount = 2
    Patches <- MCPatches
    Commission = 1
    MaxAccrued = 2
    Tokens = {t1, t2}
    Days = {1, 2}
    LastDay = 2
    TokenDays = 1
SYMMETRY Symmetry
PROPERTY
    RunServesFrozen
CHECK_DEADLOCK FALSE
