CONSTANTS
    Tabs = {t1, t2}
    Strays = {s1}
    Calls = {c1, c2}
    Resetters = {}
    ResetTokens = {}
    MaxToken = 2
    MaxEpoch = 1
    MaxLost = 1
SPECIFICATION FairSpec
PROPERTIES
    EveryCallEnds
CHECK_DEADLOCK FALSE
