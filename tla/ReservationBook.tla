--------------------------- MODULE ReservationBook ---------------------------
(***************************************************************************)
(* What the reservation service promises: a book of reservations in which  *)
(* every operation happens at one instant.  A stay is entered, or moved,   *)
(* only onto nights no other reservation holds, and a status advances only *)
(* along ValidTransitions.  FrontDesk is shown to implement this book when *)
(* bookings are handled one at a time and so are status changes.           *)
(***************************************************************************)
EXTENDS Lifecycle

VARIABLE book     \* book[r] is the entry of reservation r, or NoEntry

NoEntry == [status |-> "absent"]

Entry == [status : Status, room : Room, from : 0 .. LastDay, to : 0 .. LastDay]

BookTypeOK == book \in [Reservation -> Entry \cup {NoEntry}]

Init == book = [r \in Reservation |-> NoEntry]

Enter(r, stay, status) ==
    /\ book[r] = NoEntry
    /\ status \in {"pending", "confirmed"}
    /\ IsFree(book, stay)
    /\ book' = [book EXCEPT ![r] = [status |-> status, room |-> stay.room,
                                    from |-> stay.from, to |-> stay.to]]

Move(r, stay) ==
    /\ book[r].status \in Status \ Terminal
    /\ \A s \in Reservation \ {r} : Holds(book[s]) => ~Overlaps(book[s], stay)
    /\ book' = [book EXCEPT ![r] = [status |-> book[r].status, room |-> stay.room,
                                    from |-> stay.from, to |-> stay.to]]

Advance(r, status) ==
    /\ <<book[r].status, status>> \in ValidTransitions
    /\ book' = [book EXCEPT ![r] = [status |-> status, room |-> book[r].room,
                                    from |-> book[r].from, to |-> book[r].to]]

Next ==
    \E r \in Reservation :
        \/ \E stay \in Stay, status \in Status : Enter(r, stay, status)
        \/ \E stay \in Stay : Move(r, stay)
        \/ \E status \in Status : Advance(r, status)

Spec == Init /\ [][Next]_book

(***************************************************************************)
(* Two reservations that both hold the same room never share a night: what *)
(* the conflict query of reservations.service.ts is there to ensure, for   *)
(* entries, moves and status changes in any order.                         *)
(***************************************************************************)
NoDoubleBooking ==
    \A r, s \in Reservation :
        r # s /\ Holds(book[r]) /\ Holds(book[s]) => ~Overlaps(book[r], book[s])

=============================================================================
