---------------------------- MODULE FiguresProofs ----------------------------
(***************************************************************************)
(* Theorems about Figures for any finite tables of reservations and rooms, *)
(* and about the book the reservation service promises to keep: that one   *)
(* never double-books, whatever its rooms and days, since stays enter and  *)
(* move onto free nights only and an advance never makes a reservation     *)
(* hold nights it did not hold.  The figures do not rest on that.          *)
(***************************************************************************)
EXTENDS Figures, FiniteSetTheorems, TLAPS

\* The book's own copies of the definitions that the queries share with it.
LEMMA SameWords ==
    /\ Ledger!Status = Status /\ Ledger!Stay = Stay
    /\ Ledger!ValidTransitions = ValidTransitions
    /\ \A row : Ledger!Holds(row) <=> Holds(row)
    /\ \A a, b : Ledger!Overlaps(a, b) <=> Overlaps(a, b)
  BY DEF Ledger!Status, Status, Ledger!Stay, Stay, Ledger!ValidTransitions, ValidTransitions,
         Ledger!Holds, Holds, Ledger!Freeing, Freeing, Ledger!Overlaps, Overlaps

-----------------------------------------------------------------------------
(* The book *)

BookInv == Ledger!BookTypeOK /\ Ledger!NoDoubleBooking

\* Reservation r gets the entry `entry', and the others keep theirs.
LEMMA OneEntry ==
    ASSUME NEW r \in Reservation, NEW entry, BookInv, book' = [book EXCEPT ![r] = entry],
           \A s \in Reservation \ {r} :
              Ledger!Holds(entry) /\ Ledger!Holds(book[s]) => ~Ledger!Overlaps(book[s], entry)
    PROVE  Ledger!NoDoubleBooking'
  <1>1. book'[r] = entry /\ \A s \in Reservation \ {r} : book'[s] = book[s]
    BY DEF BookInv, Ledger!BookTypeOK
  <1>2. \A s \in Reservation \ {r} :
           Ledger!Overlaps(book[s], entry) <=> Ledger!Overlaps(entry, book[s])
    BY DEF Ledger!Overlaps
  <1>3. QED
    BY <1>1, <1>2 DEF BookInv, Ledger!NoDoubleBooking

LEMMA AdvanceType ==
    ASSUME Ledger!BookTypeOK, NEW r \in Reservation, NEW status \in Ledger!Status,
           Ledger!Advance(r, status)
    PROVE  /\ Ledger!Holds(book[r]) /\ book[r].room \in Room /\ Ledger!BookTypeOK'
           /\ [status |-> status, room |-> book[r].room,
               from |-> book[r].from, to |-> book[r].to] \in Ledger!Entry
  <1>1. book[r].status \in {"pending", "confirmed", "checked_in"}
    BY DEF Ledger!Advance, Ledger!ValidTransitions
  <1>2. book[r] \in Ledger!Entry /\ Ledger!Holds(book[r])
    BY <1>1 DEF Ledger!BookTypeOK, Ledger!NoEntry, Ledger!Holds, Ledger!Freeing
  <1>3. [status |-> status, room |-> book[r].room,
         from |-> book[r].from, to |-> book[r].to] \in Ledger!Entry
    BY <1>2 DEF Ledger!Entry
  <1>4. QED
    BY <1>2, <1>3 DEF Ledger!BookTypeOK, Ledger!Advance, Ledger!Entry

LEMMA BookStep == BookInv /\ [Ledger!Next]_book => BookInv'
  <1> SUFFICES ASSUME BookInv, [Ledger!Next]_book
               PROVE  BookInv'
    OBVIOUS
  <1> USE DEF BookInv
  <1>1. ASSUME NEW r \in Reservation, NEW stay \in Ledger!Stay, NEW status \in Ledger!Status,
               Ledger!Enter(r, stay, status)
        PROVE  BookInv'
    <2> DEFINE entry == [status |-> status, room |-> stay.room, from |-> stay.from, to |-> stay.to]
    <2>1. entry \in Ledger!Entry /\ book' = [book EXCEPT ![r] = entry]
      BY <1>1 DEF Ledger!Enter, Ledger!Entry, Ledger!Stay
    <2>2. Ledger!BookTypeOK'
      BY <2>1 DEF Ledger!BookTypeOK
    <2>3. \A s \in Reservation \ {r} : Ledger!Holds(book[s]) => ~Ledger!Overlaps(book[s], entry)
      BY <1>1 DEF Ledger!Enter, Ledger!IsFree, Ledger!Overlaps
    <2>4. QED
      BY <2>1, <2>2, <2>3, OneEntry
  <1>2. ASSUME NEW r \in Reservation, NEW stay \in Ledger!Stay, Ledger!Move(r, stay)
        PROVE  BookInv'
    <2> DEFINE entry == [status |-> book[r].status, room |-> stay.room,
                         from |-> stay.from, to |-> stay.to]
    <2>1. entry \in Ledger!Entry /\ book' = [book EXCEPT ![r] = entry]
      BY <1>2 DEF Ledger!Move, Ledger!Entry, Ledger!Stay
    <2>2. Ledger!BookTypeOK'
      BY <2>1 DEF Ledger!BookTypeOK
    <2>3. \A s \in Reservation \ {r} : Ledger!Holds(book[s]) => ~Ledger!Overlaps(book[s], entry)
      BY <1>2 DEF Ledger!Move, Ledger!Overlaps
    <2>4. QED
      BY <2>1, <2>2, <2>3, OneEntry
  <1>3. ASSUME NEW r \in Reservation, NEW status \in Ledger!Status, Ledger!Advance(r, status)
        PROVE  BookInv'
    <2> DEFINE entry == [status |-> status, room |-> book[r].room,
                         from |-> book[r].from, to |-> book[r].to]
    <2>1. Ledger!Holds(book[r]) /\ Ledger!BookTypeOK' /\ entry \in Ledger!Entry
      BY <1>3, AdvanceType
    <2>2. book' = [book EXCEPT ![r] = entry]
      BY <1>3 DEF Ledger!Advance
    <2>3. \A s \in Reservation \ {r} : Ledger!Holds(book[s]) => ~Ledger!Overlaps(book[s], entry)
      BY <2>1 DEF Ledger!NoDoubleBooking, Ledger!Overlaps
    <2>4. QED
      BY <2>1, <2>2, <2>3, OneEntry
  <1>4. CASE UNCHANGED book
    BY <1>4 DEF Ledger!BookTypeOK, Ledger!NoDoubleBooking
  <1>5. QED
    BY <1>1, <1>2, <1>3, <1>4 DEF Ledger!Next

LEMMA BookStarts == Ledger!Init => BookInv
  BY DEF Ledger!Init, BookInv, Ledger!BookTypeOK, Ledger!NoDoubleBooking, Ledger!NoEntry,
         Ledger!Holds, Ledger!Freeing

(***************************************************************************)
(* In the book that the reservation service promises to keep, two          *)
(* reservations that hold the same room never share a night.               *)
(***************************************************************************)
THEOREM BookNeverDoubleBooks == Ledger!Spec => []Ledger!NoDoubleBooking
  <1>1. BookInv => Ledger!NoDoubleBooking
    BY DEF BookInv
  <1>2. QED
    BY <1>1, BookStarts, BookStep, PTL DEF Ledger!Spec

-----------------------------------------------------------------------------
(* The rooms and the days pass beside the book *)

LEMMA SetRoomType ==
    ASSUME TypeOK, NEW m \in Room, NEW status \in RoomStatus, SetRoom(m, status)
    PROVE  rooms' \in [Room -> RoomRow]
  BY DEF TypeOK, SetRoom, RoomRow

LEMMA ReserveType == ASSUME TypeOK, Reserve PROVE Ledger!BookTypeOK'
  <1>1. ASSUME NEW r \in Reservation, NEW stay \in Stay, NEW status \in {"pending", "confirmed"},
               Enter(r, stay, status)
        PROVE  Ledger!BookTypeOK'
    <2>1. [status |-> status, room |-> stay.room, from |-> stay.from, to |-> stay.to] \in Ledger!Entry
      BY DEF Stay, Ledger!Entry, Ledger!Status
    <2>2. QED
      BY <1>1, <2>1 DEF TypeOK, Ledger!BookTypeOK, Enter
  <1>2. ASSUME NEW r \in Reservation, NEW stay \in Stay, Move(r, stay)
        PROVE  Ledger!BookTypeOK'
    <2>1. [status |-> book[r].status, room |-> stay.room, from |-> stay.from, to |-> stay.to]
             \in Ledger!Entry
      BY <1>2, SameWords DEF Move, Stay, Ledger!Entry
    <2>2. QED
      BY <1>2, <2>1 DEF TypeOK, Ledger!BookTypeOK, Move
  <1>3. ASSUME NEW r \in Reservation, NEW status \in Status, Ledger!Advance(r, status)
        PROVE  Ledger!BookTypeOK'
    BY <1>3, AdvanceType, SameWords DEF TypeOK
  <1>4. QED
    BY <1>1, <1>2, <1>3 DEF Reserve, Enter

LEMMA FigStep == TypeOK /\ [Next]_vars => TypeOK'
  <1> SUFFICES ASSUME TypeOK, [Next]_vars
               PROVE  TypeOK'
    OBVIOUS
  <1>1. CASE Reserve
    BY <1>1, ReserveType DEF Reserve, TypeOK
  <1>2. ASSUME NEW r \in Reservation, CheckIn(r) \/ CheckOut(r)
        PROVE  TypeOK'
    <2>1. PICK status \in {"checked_in", "checked_out"} : Ledger!Advance(r, status)
      BY <1>2 DEF CheckIn, CheckOut
    <2>2. Ledger!BookTypeOK' /\ book[r].room \in Room
      BY <2>1, AdvanceType DEF Status, TypeOK, Ledger!Status
    <2>3. rooms' \in [Room -> RoomRow]
      BY <1>2, <2>2, SetRoomType DEF CheckIn, CheckOut, RoomStatus
    <2>4. QED
      BY <1>2, <2>2, <2>3 DEF CheckIn, CheckOut, TypeOK
  <1>3. ASSUME NEW m \in Room,
               (\E status \in RoomStatus : UpdateStatus(m, status)) \/ CompleteTask(m)
        PROVE  TypeOK'
    <2>1. "available" \in RoomStatus
      BY DEF RoomStatus
    <2>2. rooms' \in [Room -> RoomRow]
      BY <1>3, <2>1, SetRoomType DEF UpdateStatus, CompleteTask
    <2>3. QED
      BY <1>3, <2>2 DEF UpdateStatus, CompleteTask, TypeOK, Ledger!BookTypeOK
  <1>4. ASSUME NEW m \in Room, SoftDelete(m)
        PROVE  TypeOK'
    BY <1>4 DEF SoftDelete, TypeOK, RoomRow, Ledger!BookTypeOK
  <1>5. CASE NextDay
    BY <1>5, LastDayAssumption DEF NextDay, TypeOK, Ledger!BookTypeOK
  <1>6. CASE OpenDesk
    BY <1>6, LastDayAssumption DEF OpenDesk, TypeOK, Ledger!BookTypeOK
  <1>7. CASE UNCHANGED vars
    BY <1>7 DEF vars, TypeOK, Ledger!BookTypeOK
  <1>8. QED
    BY <1>1, <1>2, <1>3, <1>4, <1>5, <1>6, <1>7 DEF Next

LEMMA FigTypes == Spec => []TypeOK
  <1>1. Init => TypeOK
    BY LastDayAssumption
       DEF Init, TypeOK, Ledger!Init, Ledger!BookTypeOK, RoomRow, RoomStatus
  <1>2. QED
    BY <1>1, FigStep, PTL DEF Spec

-----------------------------------------------------------------------------
(* The figures *)

(***************************************************************************)
(* The pipeline, the trend, the dashboard, the widget and the front desk's *)
(* lists agree on who comes, stays and goes, on any day, before and after  *)
(* the desk's own midnight, and for any length of the trend and the        *)
(* pipeline.                                                               *)
(***************************************************************************)
THEOREM FiguresAlwaysAgree == Spec => []FiguresAgree
  <1>1. TypeOK => FiguresAgree
    <2> SUFFICES ASSUME TypeOK
                 PROVE  FiguresAgree
      OBVIOUS
    <2>1. today \in Nat /\ Window \in Nat /\ Window >= 1
      BY WindowAssumption, LastDayAssumption DEF TypeOK
    <2>2. today \in today .. today + Window - 1 /\ (Window > 1 => today + 1 \in today .. today + Window - 1)
      BY <2>1
    <2>3. Pipeline[today] = ArrivalsToday
      BY <2>2 DEF Pipeline, ArrivalsToday
    <2>4. Window > 1 => ArrivalsTomorrow \subseteq Pipeline[today + 1]
      BY <2>2 DEF Pipeline, ArrivalsTomorrow, Arriving, WithStatus
    <2>5. Occupied(today) \subseteq Trend[today]
      <3>1. today \in { d \in 0 .. today : d + Window > today }
        BY <2>1
      <3>2. QED
        BY <3>1 DEF Occupied, Trend, Staying, WithStatus
    <2>6. ASSUME NEW day \in DOMAIN Pipeline
          PROVE  Pipeline[day] \cap WithStatus({"confirmed"}) \subseteq Future
      <3>1. day \in today .. today + Window - 1 /\ Pipeline[day] = Arriving(day, {"confirmed", "checked_in"})
        BY DEF Pipeline
      <3>2. today <= day /\ day <= today + Window
        BY <2>1, <3>1
      <3>3. QED
        BY <3>1, <3>2 DEF Arriving, Future, WithStatus
    <2>7. ASSUME desk = today
          PROVE  /\ ArrivalsToday \subseteq ArrivalsList \cup ActiveGuests
                 /\ DeparturesToday \subseteq DeparturesList \cup WithStatus({"checked_out"})
      BY <2>7 DEF ArrivalsToday, ArrivalsList, ActiveGuests, DeparturesToday, DeparturesList,
                  Arriving, Leaving, WithStatus
    <2>8. ASSUME desk > today
          PROVE  ArrivalsTomorrow \subseteq ArrivalsList /\ DeparturesTomorrow = DeparturesList
      <3>1. desk = today + 1
        BY <2>1, <2>8 DEF TypeOK
      <3>2. QED
        BY <3>1 DEF ArrivalsTomorrow, ArrivalsList, DeparturesTomorrow, DeparturesList,
                    Arriving, Leaving, WithStatus
    <2>9. QED
      BY <2>3, <2>4, <2>5, <2>6, <2>7, <2>8 DEF FiguresAgree
  <1>2. QED
    BY <1>1, FigTypes, PTL

\* No room is offered on a night on which a reservation that is counted has it.
LEMMA OccupiedRooms ==
    ASSUME TypeOK, NEW day \in 0 .. LastDay, NEW r \in Occupied(day)
    PROVE  book[r].room \notin Offered(day)
  <1>1. /\ r \in Reservation /\ book[r].status \in {"confirmed", "checked_in"}
        /\ book[r].from <= day /\ day < book[r].to
    BY DEF Occupied, Staying, WithStatus
  <1>2. Holds(book[r])
    BY <1>1 DEF Holds, Freeing
  <1>3. QED
    BY <1>1, <1>2 DEF Offered

(***************************************************************************)
(* The search never offers more rooms for a night than the widget counts   *)
(* as available, but for the stays the widget subtracts without a room of  *)
(* their own to subtract.  The rooms of counted stays that the search      *)
(* knows and the rooms it offers are apart, and both are in use.           *)
(***************************************************************************)
THEOREM OfferNeverExceedsFigure == Spec => []OfferWithinFigure
  <1>1. TypeOK => OfferWithinFigure
    <2> SUFFICES ASSUME TypeOK, NEW day \in 0 .. LastDay
                 PROVE  Cardinality(Offered(day)) <= Available(day) + Overcounted(day)
      BY DEF OfferWithinFigure
    <2> DEFINE inUse == InUse \ OutOfUse
               had == { book[r].room : r \in Occupied(day) } \cap inUse
    <2>1. /\ InUse \subseteq Room /\ OutOfUse \subseteq InUse
          /\ Offered(day) \subseteq inUse /\ had \subseteq inUse
          /\ Offered(day) \cap had = {}
      BY OccupiedRooms DEF InUse, OutOfUse, Offered
    <2>2. /\ IsFiniteSet(InUse) /\ IsFiniteSet(OutOfUse) /\ IsFiniteSet(inUse)
          /\ IsFiniteSet(Offered(day)) /\ IsFiniteSet(had) /\ IsFiniteSet(Occupied(day))
      <3>1. IsFiniteSet(InUse)
        BY <2>1, TablesAreFinite, FS_Subset
      <3>2. IsFiniteSet(inUse) /\ IsFiniteSet(OutOfUse)
        BY <2>1, <3>1, FS_Subset
      <3>3. Occupied(day) \subseteq Reservation
        BY DEF Occupied, Staying, WithStatus
      <3>4. QED
        BY <2>1, <3>1, <3>2, <3>3, TablesAreFinite, FS_Subset
    <2>3. Cardinality(inUse) = Cardinality(InUse) - Cardinality(OutOfUse)
      <3>1. InUse \cap OutOfUse = OutOfUse
        BY <2>1
      <3>2. QED
        BY <2>2, <3>1, FS_Difference
    <2>4. Cardinality(Offered(day)) + Cardinality(had) <= Cardinality(inUse)
      <3>1. /\ Cardinality(Offered(day) \cup had)
                 = Cardinality(Offered(day)) + Cardinality(had) - Cardinality(Offered(day) \cap had)
            /\ IsFiniteSet(Offered(day) \cup had)
        BY <2>2, FS_Union
      <3>2. Cardinality(Offered(day) \cap had) = 0
        BY <2>1, FS_EmptySet
      <3>3. Cardinality(Offered(day) \cup had) <= Cardinality(inUse)
        BY <2>1, <2>2, FS_Subset
      <3>4. /\ Cardinality(Offered(day)) \in Nat /\ Cardinality(had) \in Nat
            /\ Cardinality(inUse) \in Nat
        BY <2>2, FS_CardinalityType
      <3>5. QED
        BY <3>1, <3>2, <3>3, <3>4
    <2>5. /\ Cardinality(Offered(day)) \in Nat /\ Cardinality(had) \in Nat
          /\ Cardinality(InUse) \in Nat /\ Cardinality(OutOfUse) \in Nat
          /\ Cardinality(Occupied(day)) \in Nat
      BY <2>2, FS_CardinalityType
    <2>6. Overcounted(day) = Cardinality(Occupied(day)) - Cardinality(had)
      BY DEF Overcounted
    <2> HIDE DEF had, inUse
    <2>7. QED
      BY <2>3, <2>4, <2>5, <2>6 DEF Available
  <1>2. QED
    BY <1>1, FigTypes, PTL

(***************************************************************************)
(* The cleaning schedule puts every room of a counted departure first, and *)
(* the one that is to be had again the same day before the others.         *)
(***************************************************************************)
THEOREM TurnoversAlwaysFirst == Spec => []TurnoversComeFirst
  <1>1. TurnoversComeFirst
    <2> SUFFICES ASSUME NEW r \in DeparturesToday
                 PROVE  /\ Priority(book[r].room) \in {"CRITICAL", "HIGH"}
                        /\ \A s \in ArrivalsToday :
                              book[s].room = book[r].room => Priority(book[r].room) = "CRITICAL"
      BY DEF TurnoversComeFirst
    <2>1. Turnover(book[r].room).out
      BY DEF DeparturesToday, Turnover, Leaving, WithStatus
    <2>2. \A s \in ArrivalsToday : book[s].room = book[r].room => Turnover(book[r].room).in
      BY DEF ArrivalsToday, Turnover, Arriving, WithStatus
    <2>3. QED
      BY <2>1, <2>2 DEF Priority
  <1>2. QED
    BY <1>1, PTL

(***************************************************************************)
(* Whoever was counted as coming or going tomorrow is counted today when   *)
(* the day has come.                                                       *)
(***************************************************************************)
THEOREM ForecastsComeTrue == Spec => ForecastComesTrue
  <1>1. NextDay => /\ ArrivalsTomorrow \subseteq ArrivalsToday'
                   /\ DeparturesTomorrow \subseteq DeparturesToday'
    BY DEF NextDay, ArrivalsTomorrow, ArrivalsToday, DeparturesTomorrow, DeparturesToday,
           Arriving, Leaving, WithStatus
  <1>2. QED
    BY <1>1, PTL DEF ForecastComesTrue

=============================================================================
