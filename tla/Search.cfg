SPECIFICATION Spec
SYMMETRY Symmetry
CONSTANTS
    Room = {1, 2}
    RoomTypes <- MCRoomTypes
    Filters <- MCFilters
    Slots = {w1, w2}
INVARIANTS
    StaleOnlyIfRaced
PROPERTIES
    SiteBooksOpenRooms
