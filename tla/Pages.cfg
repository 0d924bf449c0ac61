SPECIFICATION PageSpec
CONSTANTS
    Choice = {c1, c2}
    NoChoice = c0
    MaxCalls = 2
    MaxWrites = 2
INVARIANTS
    
    FormDoneOnce
PROPERTIES
    LoadingEnds
CHECK_DEADLOCK FALSE
