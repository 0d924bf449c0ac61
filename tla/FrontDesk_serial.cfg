SPECIFICATION Spec
CONSTANTS
    Reservation = {r1, r2}
    Room = {m1}
    LastDay = 2
    Bookers = {b1}
    Clerks = {c1}
    MaxVersion = 3
    MaxTasks = 0
SYMMETRY Symmetry
INVARIANTS
    TypeOK
    NoOverlap
PROPERTIES
    ImplementsBook
CHECK_DEADLOCK FALSE
