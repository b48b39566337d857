\* Two tabs of one browser, two sessions, one account, two admins.
SPECIFICATION Spec
CONSTANTS
    u1 = u1
    a1 = a1
    a2 = a2
    s1 = s1
    s2 = s2
    t1 = t1
    t2 = t2
    NoUser = NoUser
    viewer = viewer
    Viewer = viewer
    Roles = {viewer}
    Users = {u1}
    Admins = {a1, a2}
    MaxPassword = 0
    Sessions = {s1, s2}
    Tabs = {t1, t2}
    AccessTTL = 1
    SessionTTL = 2
    MaxTime = 2
    Unreliable = TRUE
SYMMETRY AuthSymmetry
INVARIANTS
    EndedIsRefused
PROPERTY DeletedForGood
\* The account may be deleted and the clock at its bound.
CHECK_DEADLOCK FALSE
