SPECIFICATION Spec
CONSTANTS
    Requests = {r1, r2}
    Processes = {p1, p2}
    Fatal = TRUE
    Items = {a, b, c}
    Newest = 2
    None = None
    a = a
    b = b
    c = c
    g = g
    h = h
    Plugins = {g, h}
    Flags <- MCFlags
    Catalogs <- MCCatalogs
    Users = {u1, u2}
    Owners = {u1}
    Tokens = {t1, t2}
    Links = {l1, l2}
    SignInsSpare <- MCSignInsSpare
INVARIANTS
    ChainsSatisfy
    NewestWherePossible
    InstalledIsRecorded
    RevokedStay
PROPERTIES
    RecordedAfterNeeds
    ResetByNewestLink
    OldSessionsEnd
CHECK_DEADLOCK FALSE
