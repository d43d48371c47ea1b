SPECIFICATION Spec
CONSTANTS
    Tabs = {t1, t2}
    Users = {u1, u2}
    None = None
    Overtaking = TRUE
    MaxGen = 2
    MaxLogouts = 1
SYMMETRY Symmetry
INVARIANTS TypeOK ModeFollowsSession LogoutIsRemembered
PROPERTY RetryInOneSession
