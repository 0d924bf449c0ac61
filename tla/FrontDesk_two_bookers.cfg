SPECIFICATION Spec
CONSTANTS
    Reservation = {r1, r2}
    Room = {m1}
    LastDay = 1
    Bookers = {b1, b2}
    Clerks = {}
    MaxVersion = 3
    MaxTasks = 0
SYMMETRY Symmetry
INVARIANTS
    NoOverlap
CHECK_DEADLOCK FALSE
