SPECIFICATION Spec
CONSTANTS
    Reservation = {r1, r2}
    Room = {m1, m2}
    LastDay = 3
    Window = 2
SYMMETRY Symmetry
INVARIANTS
    FiguresAgree
    OfferWithinFigure
    TurnoversComeFirst
PROPERTIES
    ForecastComesTrue
