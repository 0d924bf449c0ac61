SPECIFICATION Spec
CONSTANTS
    Guest = {g1, g2}
    Emails = {e1}
    Names = {n1}
    Tokens = {k1}
    Writers = {w1}
    Portals = {p1}
SYMMETRY Symmetry
INVARIANTS
    CheckedEmailsUnique
    WebBookingWhole
    FormMatchesGuest
    SealedStaysErased
