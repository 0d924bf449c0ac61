------------------------------ MODULE Lifecycle ------------------------------
(***************************************************************************)
(* What a reservation is, apart from any process that changes it: its      *)
(* statuses, the transitions ReservationsService allows between them, the  *)
(* half-open stay [from, to) in a room, and when two stays collide.        *)
(* Days are calendar dates (the columns are DATE), numbered from 0.        *)
(***************************************************************************)
EXTENDS Naturals

CONSTANTS
    Reservation,   \* ids a reservation row may get
    Room,          \* the rooms of the branch
    LastDay        \* bound: the last calendar day a stay may touch

ASSUME LastDayAssumption == LastDay \in Nat

Status == {"pending", "confirmed", "checked_in", "checked_out", "cancelled", "no_show"}

ValidTransitions ==
    { <<"pending", "confirmed">>,      <<"pending", "cancelled">>,
      <<"confirmed", "checked_in">>,   <<"confirmed", "cancelled">>,
      <<"checked_in", "checked_out">>, <<"checked_in", "no_show">> }

Terminal == {"checked_out", "cancelled", "no_show"}

\* The statuses that do not hold the room, "absent" standing for no row at all.
\* A checked-out stay still holds its dates.
Freeing == {"absent", "cancelled", "no_show"}

Stay == { s \in [room : Room, from : 0 .. LastDay, to : 0 .. LastDay] : s.from < s.to }

\* A stay may begin on the day another one ends.
Overlaps(a, b) == a.room = b.room /\ a.from < b.to /\ b.from < a.to

Holds(row) == row.status \notin Freeing

\* Mutant: only the arrival day is looked up.
IsFreeOnArrival(table, stay) ==
    \A r \in Reservation :
        Holds(table[r]) => ~(table[r].room = stay.room /\ table[r].from <= stay.from
                                /\ stay.from < table[r].to)

\* The conflict query: no row of `table' holds the room on a night of `stay'.
IsFree(table, stay) == \A r \in Reservation : Holds(table[r]) => ~Overlaps(table[r], stay)

=============================================================================
