SPECIFICATION Spec
CONSTANTS
    Room = {m1, m2}
    Guest = {g1}
    Task = {t1}
    Slots = {w1, w2}
    MaxVersion = 3
SYMMETRY Symmetry
INVARIANTS
    CompletedWasStarted
PROPERTIES
    TaskLifecycle
    GuestKeepsRoom
