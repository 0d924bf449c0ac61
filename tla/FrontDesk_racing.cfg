SPECIFICATION Spec
CONSTANTS
    Reservation = {r1}
    Room = {m1, m2}
    LastDay = 1
    Bookers = {b1, b2}
    Clerks = {c1, c2}
    MaxVersion = 3
    MaxTasks = 1
SYMMETRY Symmetry
INVARIANTS
    AdmittedOnce
    SnapshotCoherent
    OneTaskPerCheckOut
    AdmittedAreInvoiced
PROPERTIES
    StatusLifecycle
    DeskActsOnCurrentRow
    EndedStaysPut
CHECK_DEADLOCK FALSE
