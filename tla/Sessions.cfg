CONSTANTS
    Tabs = {t1, t2}
    Strays = {s1}
    Calls = {c1, c2}
    Resetters = {r1}
    ResetTokens = {j1}
    MaxToken = 3
    MaxEpoch = 2
    MaxLost = 0
SPECIFICATION Spec
SYMMETRY BrowserSymmetry
INVARIANTS
    CookieIsCurrent
    OneTokenPerLogin
    EarlierSessionsEnd
CHECK_DEADLOCK FALSE
