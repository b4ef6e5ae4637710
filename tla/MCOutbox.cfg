\* Two views of one session, a logout and its successor, and a full store.
CONSTANTS
    Tabs = {t1, t2}
    Flows = {f1, f2}
    c1 = c1
    c2 = c2
    Commands = {c1, c2}
    Limit = 1
    Authorities = {1, 2, 3}
    Session <- MCSession
    Scope <- MCScope
    MaxEpoch = 4
    None = None
SPECIFICATION MCSpec
INVARIANTS PayloadsOfTheSession
PROPERTIES SettledUnderItsGrant LogoutErasesItsOwn
SYMMETRY Symmetry
