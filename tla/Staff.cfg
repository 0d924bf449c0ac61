SPECIFICATION Spec
CONSTANTS
    User = {"ann", "rex"}
    Founders <- MCFounders
    Branch = {north, south}
    NoBranch = none
    Tab = {t1, t2}
    Slots = {w1}
    Flights = {f1}
SYMMETRY Symmetry
INVARIANTS
    TabShowsItsUser
    OffersArePermitted
PROPERTIES
    ManagersKeepToBranch
