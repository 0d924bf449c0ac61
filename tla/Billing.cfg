CONSTANTS
    Cashiers = {c1}
    Billers = {b1}
    Hooks = {h1}
    Amounts = {2}
    RoomCharge = 1
    Vat = 1
    MaxAttempt = 2
    MaxLines = 1
    MaxStops = 1
SPECIFICATION Spec
INVARIANTS
    RecordedWasTaken
    PaidHasMoney
    TotalsAddUp
    RefundsWithinPayment
    UnrecordedOnlyByStop
PROPERTIES
    ImplementsPaymentBook
CHECK_DEADLOCK FALSE
