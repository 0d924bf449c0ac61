-------------------------------- MODULE Figures --------------------------------
(***************************************************************************)
(* The figures the hotel is run by: the reports, the occupancy widget, the *)
(* lists of the front desk and the cleaning schedule, each computed by a   *)
(* query of its own over the same reservations and rooms, as days pass.    *)
(* The reservations are entries of ReservationBook; what a figure counts   *)
(* is kept as the set of reservations or rooms counted.                    *)
(*                                                                         *)
(* A figure is read at one instant, of one branch.  The book and the rooms *)
(* change one commit at a time.  The races that let two bookings, or two   *)
(* moves, onto the same nights are in FrontDesk; here they are free to     *)
(* happen.  Reports go by the date in UTC and the front desk by its own.   *)
(***************************************************************************)
EXTENDS Lifecycle, Integers, FiniteSets

CONSTANT Window     \* how many days the trend and the pipeline show: 30

ASSUME WindowAssumption == Window \in Nat \ {0}

ASSUME TablesAreFinite == IsFiniteSet(Reservation) /\ IsFiniteSet(Room)

VARIABLES
    book,     \* the reservations, as in ReservationBook
    rooms,    \* rooms[m]: operational status, and whether it is still in use
    today,    \* the server's date, in UTC
    desk      \* TODAY of the front desk page: the browser's date when it was loaded

vars == <<book, rooms, today, desk>>

Ledger == INSTANCE ReservationBook

\* "closed" is maintenance and out_of_order: no query tells them apart.
RoomStatus == {"available", "occupied", "closed"}

RoomRow == [status : RoomStatus, active : BOOLEAN]

TypeOK ==
    /\ Ledger!BookTypeOK
    /\ rooms \in [Room -> RoomRow]
    /\ today \in 0 .. LastDay
    /\ desk \in 0 .. today + 1

Init ==
    /\ Ledger!Init
    /\ rooms = [m \in Room |-> [status |-> "available", active |-> TRUE]]
    /\ today = 0
    /\ desk = 0

-----------------------------------------------------------------------------
(* What changes the reservations and the rooms *)

SetRoom(m, status) == rooms' = [rooms EXCEPT ![m] = [status |-> status, active |-> rooms[m].active]]

\* The nights were free when they were asked for, and need not be any more.
Enter(r, stay, status) ==
    /\ book[r] = Ledger!NoEntry
    /\ status \in {"pending", "confirmed"}
    /\ book' = [book EXCEPT ![r] = [status |-> status, room |-> stay.room,
                                    from |-> stay.from, to |-> stay.to]]

\* The version guards the reservation's own row, which the conflict query counts.
Move(r, stay) ==
    /\ book[r].status \in Status \ Terminal
    /\ ~Overlaps(book[r], stay)
    /\ book' = [book EXCEPT ![r] = [status |-> book[r].status, room |-> stay.room,
                                    from |-> stay.from, to |-> stay.to]]

\* create, update, updateStatus and cancel: none of them writes a room.
Reserve ==
    /\ \E r \in Reservation :
          \/ \E stay \in Stay, status \in Status : Enter(r, stay, status)
          \/ \E stay \in Stay : Move(r, stay)
          \/ \E status \in Status : Ledger!Advance(r, status)
    /\ UNCHANGED <<rooms, today, desk>>

CheckIn(r) ==
    /\ Ledger!Advance(r, "checked_in")
    /\ SetRoom(book[r].room, "occupied")
    /\ UNCHANGED <<today, desk>>

CheckOut(r) ==
    /\ Ledger!Advance(r, "checked_out")
    /\ SetRoom(book[r].room, "available")
    /\ UNCHANGED <<today, desk>>

UpdateStatus(m, status) ==
    /\ status = "available" =>
          \A r \in Reservation : ~(book[r].status = "checked_in" /\ book[r].room = m)
    /\ SetRoom(m, status)
    /\ UNCHANGED <<book, today, desk>>

\* A cleaning task may exist for any room, whoever is in it.
CompleteTask(m) ==
    /\ SetRoom(m, "available")
    /\ UNCHANGED <<book, today, desk>>

\* Whoever has reserved the room, or is in it.
SoftDelete(m) ==
    /\ rooms' = [rooms EXCEPT ![m] = [status |-> rooms[m].status, active |-> FALSE]]
    /\ UNCHANGED <<book, today, desk>>

\* Midnight in UTC.  A page that is open keeps its date.
NextDay ==
    /\ today < LastDay
    /\ today' = today + 1
    /\ UNCHANGED <<book, rooms, desk>>

\* The desk is east of Greenwich: its midnight comes two or three hours before that of UTC.
OpenDesk ==
    /\ desk' \in {today, today + 1}
    /\ UNCHANGED <<book, rooms, today>>

Next ==
    \/ Reserve
    \/ \E r \in Reservation : CheckIn(r) \/ CheckOut(r)
    \/ \E m \in Room :
        \/ \E status \in RoomStatus : UpdateStatus(m, status)
        \/ CompleteTask(m)
        \/ SoftDelete(m)
    \/ NextDay
    \/ OpenDesk

Spec == Init /\ [][Next]_vars

-----------------------------------------------------------------------------
(* The queries *)

WithStatus(statuses) == { r \in Reservation : book[r].status \in statuses }

Arriving(day, statuses) == { r \in WithStatus(statuses) : book[r].from = day }

Leaving(day, statuses) == { r \in WithStatus(statuses) : book[r].to = day }

\* The day of departure is not a night of the stay.
Staying(day, statuses) ==
    { r \in WithStatus(statuses) : book[r].from <= day /\ day < book[r].to }

\* getArrivalsDepartures of the reports
ArrivalsToday == Arriving(today, {"confirmed", "checked_in"})

ArrivalsTomorrow == Arriving(today + 1, {"confirmed"})
DeparturesToday == Leaving(today, {"checked_in", "checked_out"})

\* Mutant: who has not come yet is expected to leave tomorrow too.
DeparturesTomorrowExpected == Leaving(today + 1, {"confirmed", "checked_in"})

DeparturesTomorrow == Leaving(today + 1, {"checked_in"})

\* getReservationPipeline: day by day, from today
Pipeline == [day \in today .. today + Window - 1 |-> Arriving(day, {"confirmed", "checked_in"})]

\* getOccupancyTrend: day by day, up to today
Trend == [day \in { d \in 0 .. today : d + Window > today } |->
             Staying(day, {"confirmed", "checked_in", "checked_out"})]

\* Mutant: the list without dates begins tomorrow.
FutureFromTomorrow ==
    { r \in WithStatus({"confirmed"}) : today < book[r].from /\ book[r].from <= today + Window }

\* getFutureReservations, without dates: both ends of the range belong to it.
Future == { r \in WithStatus({"confirmed"}) : today <= book[r].from /\ book[r].from <= today + Window }

InUse == { m \in Room : rooms[m].active }
OutOfUse == { m \in InUse : rooms[m].status = "closed" }

\* Mutant: a stay occupies its day of departure.
OccupiedWithDeparture(day) ==
    { r \in WithStatus({"confirmed", "checked_in"}) : book[r].from <= day /\ day <= book[r].to }

\* getOccupancySummary of the availability service
Occupied(day) == Staying(day, {"confirmed", "checked_in"})
Available(day) == Cardinality(InUse) - Cardinality(Occupied(day)) - Cardinality(OutOfUse)

\* The stays `Occupied' counts that are not the first in a room the search knows.
Overcounted(day) ==
    Cardinality(Occupied(day))
        - Cardinality({ book[r].room : r \in Occupied(day) } \cap (InUse \ OutOfUse))

\* getAvailableRooms for the night of `day'
Offered(day) ==
    { m \in InUse \ OutOfUse :
          \A r \in Reservation : Holds(book[r]) /\ book[r].room = m =>
                                    ~(book[r].from <= day /\ day < book[r].to) }

\* The lists of the front desk, for the date the page sends
ActiveGuests == WithStatus({"checked_in"})
ArrivalsList == Arriving(desk, {"pending", "confirmed"})
DeparturesList == Leaving(desk, {"checked_in"})

\* Mutant: a guest who has left already is forgotten by the schedule.
TurnoverOfPresent(m) ==
    [out |-> \E r \in Leaving(today, {"confirmed", "checked_in"}) : book[r].room = m,
     in |-> \E r \in Arriving(today, {"confirmed", "checked_in"}) : book[r].room = m]

\* optimizeSchedule: the stays of room m that end, and that begin, today
Turnover(m) ==
    [out |-> \E r \in Leaving(today, {"confirmed", "checked_in", "checked_out"}) : book[r].room = m,
     in |-> \E r \in Arriving(today, {"confirmed", "checked_in", "checked_out"}) : book[r].room = m]

\* Only stays that begin or end today were read: a guest between the two is not seen.
Priority(m) ==
    IF Turnover(m).out THEN IF Turnover(m).in THEN "CRITICAL" ELSE "HIGH"
    ELSE IF \E r \in Arriving(today, {"checked_in"}) : book[r].room = m THEN "LOW" ELSE "SKIP"

-----------------------------------------------------------------------------
(* Properties *)

(***************************************************************************)
(* Figures that different queries give for the same thing agree: today in  *)
(* the pipeline is arrivalsToday, tomorrow in it covers arrivalsTomorrow,  *)
(* the last day of the trend covers the widget's occupied rooms, and the   *)
(* list of future reservations covers what is confirmed in the pipeline.   *)
(* A desk page loaded on the reports' date works from lists that cover the *)
(* dashboard's arrivals and departures: still to come, in the house, still *)
(* to leave, or gone.  One loaded between the two midnights covers what    *)
(* the dashboard calls tomorrow.                                           *)
(***************************************************************************)
FiguresAgree ==
    /\ Pipeline[today] = ArrivalsToday
    /\ Window > 1 => ArrivalsTomorrow \subseteq Pipeline[today + 1]
    /\ Occupied(today) \subseteq Trend[today]
    /\ \A day \in DOMAIN Pipeline : Pipeline[day] \cap WithStatus({"confirmed"}) \subseteq Future
    /\ desk = today => /\ ArrivalsToday \subseteq ArrivalsList \cup ActiveGuests
                       /\ DeparturesToday \subseteq DeparturesList \cup WithStatus({"checked_out"})
    /\ desk > today => /\ ArrivalsTomorrow \subseteq ArrivalsList
                       /\ DeparturesTomorrow = DeparturesList

(***************************************************************************)
(* The search offers no more rooms for a night than the widget says are    *)
(* available, but for what the widget subtracts too much: it counts stays  *)
(* where the search counts rooms, so a second stay in a double-booked room *)
(* and a stay in a room that was closed or deleted are one room too many.  *)
(***************************************************************************)
OfferWithinFigure ==
    \A day \in 0 .. LastDay :
        Cardinality(Offered(day)) <= Available(day) + Overcounted(day)

(***************************************************************************)
(* What was counted for tomorrow is counted for today once the day has     *)
(* come: nobody expected drops out of the dashboard at midnight.           *)
(***************************************************************************)
ForecastComesTrue ==
    [][NextDay => /\ ArrivalsTomorrow \subseteq ArrivalsToday'
                  /\ DeparturesTomorrow \subseteq DeparturesToday']_vars

(***************************************************************************)
(* The cleaning schedule puts first the rooms that change hands: each room *)
(* of a counted departure is CRITICAL or HIGH, and CRITICAL if a counted   *)
(* arrival is to have it the same day, early leavers included.             *)
(***************************************************************************)
TurnoversComeFirst ==
    \A r \in DeparturesToday :
        /\ Priority(book[r].room) \in {"CRITICAL", "HIGH"}
        /\ \A s \in ArrivalsToday :
              book[s].room = book[r].room => Priority(book[r].room) = "CRITICAL"

=============================================================================
