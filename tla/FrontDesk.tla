------------------------------ MODULE FrontDesk ------------------------------
(***************************************************************************)
(* The reservation and check-in services over the shared database.  Every  *)
(* HTTP request is a process that reads, awaits, and writes: between the   *)
(* read that validates a request and the write that carries it out, other  *)
(* requests commit.  A database transaction takes effect at its commit; a  *)
(* read inside one sees what is committed at that moment (READ COMMITTED). *)
(*                                                                         *)
(* A booker is a slot for one in-flight request that books or moves a stay *)
(* (create, the public site's createReservation, update); a clerk is a     *)
(* slot for one that changes a status (updateStatus, cancel, checkIn,      *)
(* checkOut).  The numbers of slots bound the concurrency of each kind.    *)
(***************************************************************************)
EXTENDS Lifecycle, Sequences, FiniteSets

CONSTANTS
    Bookers, Clerks,   \* request slots
    MaxVersion,        \* bound: no request starts on a row with this version
    MaxTasks           \* bound: cleaning tasks that managers create

ASSUME SlotsAssumption == Bookers \cap Clerks = {}
ASSUME MaxVersionAssumption == MaxVersion \in Nat
ASSUME MaxTasksAssumption == MaxTasks \in Nat

VARIABLES
    res,        \* reservations: res[r] is a row, or NoRow
    room,       \* rooms: status and cleaning status of each room
    checkIns,   \* check_ins: the reservations that have a row (unique key)
    checkOuts,  \* check_outs: likewise
    invoiced,   \* invoices: the reservations that have one (unique key)
    tasks,      \* housekeeping_tasks, in order of creation
    req,        \* req[w] is what slot w remembers across its awaits
    overtaken   \* history: reservations whose status was written by a request that
                \* had validated another status than the one it overwrote

tables == <<res, room, checkIns, checkOuts, invoiced, tasks>>
vars == <<tables, req, overtaken>>

Slots == Bookers \cup Clerks

-----------------------------------------------------------------------------
(* Types *)

NoRow == [status |-> "absent"]

Row == [status : Status, room : Room, from : 0 .. LastDay, to : 0 .. LastDay, version : Nat]

RoomRow == [status : {"available", "occupied", "maintenance", "out_of_order"},
            cleaning : {"clean", "dirty", "in_progress"}]

\* createdBy is null for the task of a check-out, and a manager otherwise.
Task == [reservation : Reservation, room : Room, createdBy : {"desk", "manager"}]

Idle == [pc |-> "idle"]

\* What each handler holds in its local variables while it awaits.
Request ==
    {Idle}
    \cup [pc : {"insert"}, stay : Stay, origin : {"staff", "website"}]
    \cup [pc : {"recheck", "rewrite"}, r : Reservation, seen : Row, stay : Stay]
    \cup [pc : {"details"}, r : Reservation]
    \cup [pc : {"set_status"}, r : Reservation, seen : Row, target : Status]
    \cup [pc : {"confirm", "admit", "release"}, r : Reservation, seen : Row]

TypeOK ==
    /\ res \in [Reservation -> Row \cup {NoRow}]
    /\ room \in [Room -> RoomRow]
    /\ checkIns \subseteq Reservation
    /\ checkOuts \subseteq Reservation
    /\ invoiced \subseteq Reservation
    /\ tasks \in Seq(Task)
    /\ req \in [Slots -> Request]
    /\ overtaken \subseteq Reservation

Init ==
    /\ res = [r \in Reservation |-> NoRow]
    /\ room = [m \in Room |-> [status |-> "available", cleaning |-> "clean"]]
    /\ checkIns = {}
    /\ checkOuts = {}
    /\ invoiced = {}
    /\ tasks = <<>>
    /\ req = [w \in Slots |-> Idle]
    /\ overtaken = {}

-----------------------------------------------------------------------------
(* Helpers *)

Await(w, memory) == req[w] = Idle /\ req' = [req EXCEPT ![w] = memory]

Finish(w) == req' = [req EXCEPT ![w] = Idle]

\* Every UPDATE of a reservation increments its version column.
Written(row, status, stay) ==
    [status |-> status, room |-> stay.room, from |-> stay.from, to |-> stay.to,
     version |-> row.version + 1]

\* Mutant: the WHERE clause names the id alone.
UnchangedIgnored(w) == TRUE

\* The status this slot validated is the row's, or the reservation is marked.
MarkOvertaken(w) ==
    LET r == req[w].r
    IN overtaken' = IF res[r].status = req[w].seen.status THEN overtaken ELSE overtaken \cup {r}

\* The WHERE clause {id, version}: the row is still the one this slot read.
Unchanged(w) == res[req[w].r].version = req[w].seen.version

TaskFor(r, m, by) == [reservation |-> r, room |-> m, createdBy |-> by]

TasksBy(by) == {i \in DOMAIN tasks : tasks[i].createdBy = by}

\* A request may start on a row that exists and has versions to spare.
Editable(r) == res[r] # NoRow /\ res[r].version < MaxVersion

-----------------------------------------------------------------------------
(* Booking: create and the public createReservation *)

\* The transaction's conflict query.  A FOR UPDATE that matches no row locks none.
FindFree(w, stay, origin) ==
    /\ IsFree(res, stay)
    /\ Await(w, [pc |-> "insert", stay |-> stay, origin |-> origin])
    /\ UNCHANGED <<tables, overtaken>>

\* Mutant: the row is inserted without its version column.
InsertUnversioned(w, r) ==
    /\ req[w].pc = "insert"
    /\ res[r] = NoRow
    /\ res' = [res EXCEPT ![r] = [status |-> "pending", room |-> req[w].stay.room,
                                 from |-> req[w].stay.from, to |-> req[w].stay.to]]
    /\ Finish(w)
    /\ UNCHANGED <<room, checkIns, checkOuts, invoiced, tasks, overtaken>>

\* The transaction's INSERTs: staff bookings come with a draft invoice.
Insert(w, r) ==
    /\ req[w].pc = "insert"
    /\ res[r] = NoRow
    /\ LET stay == req[w].stay
           staff == req[w].origin = "staff"
       IN /\ res' = [res EXCEPT ![r] =
                        [status |-> IF staff THEN "pending" ELSE "confirmed",
                         room |-> stay.room, from |-> stay.from, to |-> stay.to,
                         version |-> 0]]
          /\ invoiced' = IF staff THEN invoiced \cup {r} ELSE invoiced
    /\ Finish(w)
    /\ UNCHANGED <<room, checkIns, checkOuts, tasks, overtaken>>

-----------------------------------------------------------------------------
(* update: a new room or new dates, or other fields only *)

ReadForUpdate(r) == Editable(r) /\ res[r].status \notin Terminal

ReadForMove(w, r, stay) ==
    /\ ReadForUpdate(r)
    /\ Await(w, [pc |-> "recheck", r |-> r, seen |-> res[r], stay |-> stay])
    /\ UNCHANGED <<tables, overtaken>>

\* Mutant: update trusts the dates it was given.
RecheckSkipped(w) ==
    /\ req[w].pc = "recheck"
    /\ req' = [req EXCEPT ![w] = [pc |-> "rewrite", r |-> req[w].r,
                                  seen |-> req[w].seen, stay |-> req[w].stay]]
    /\ UNCHANGED <<tables, overtaken>>

\* The same conflict query as for a booking: the reservation's own row counts.
Recheck(w) ==
    /\ req[w].pc = "recheck"
    /\ IF IsFree(res, req[w].stay)
       THEN req' = [req EXCEPT ![w] = [pc |-> "rewrite", r |-> req[w].r,
                                       seen |-> req[w].seen, stay |-> req[w].stay]]
       ELSE Finish(w)
    /\ UNCHANGED <<tables, overtaken>>

\* Mutant: the move is written by id alone.
RewriteUnlocked(w) ==
    /\ req[w].pc = "rewrite"
    /\ LET r == req[w].r
       IN res' = [res EXCEPT ![r] = Written(res[r], res[r].status, req[w].stay)]
    /\ Finish(w)
    /\ UNCHANGED <<room, checkIns, checkOuts, invoiced, tasks, overtaken>>

Rewrite(w) ==
    /\ req[w].pc = "rewrite"
    /\ LET r == req[w].r
       IN res' = IF Unchanged(w)
                 THEN [res EXCEPT ![r] = Written(res[r], res[r].status, req[w].stay)]
                 ELSE res
    /\ Finish(w)
    /\ UNCHANGED <<room, checkIns, checkOuts, invoiced, tasks, overtaken>>

ReadForDetails(w, r) ==
    /\ ReadForUpdate(r)
    /\ Await(w, [pc |-> "details", r |-> r])
    /\ UNCHANGED <<tables, overtaken>>

\* Guest, occupants, source or notes: written by id alone.
WriteDetails(w) ==
    /\ req[w].pc = "details"
    /\ LET r == req[w].r IN res' = [res EXCEPT ![r] = Written(res[r], res[r].status, res[r])]
    /\ Finish(w)
    /\ UNCHANGED <<room, checkIns, checkOuts, invoiced, tasks, overtaken>>

-----------------------------------------------------------------------------
(* updateStatus and cancel: validated against the row read, written by id alone *)

\* Mutant: the transition is not looked up in VALID_TRANSITIONS.
ReadForAnyStatus(w, r, target) ==
    /\ Editable(r)
    /\ Await(w, [pc |-> "set_status", r |-> r, seen |-> res[r], target |-> target])
    /\ UNCHANGED <<tables, overtaken>>

ReadForStatus(w, r, target) ==
    /\ Editable(r)
    /\ <<res[r].status, target>> \in ValidTransitions
    /\ Await(w, [pc |-> "set_status", r |-> r, seen |-> res[r], target |-> target])
    /\ UNCHANGED <<tables, overtaken>>

ReadForCancel(w, r) == ReadForStatus(w, r, "cancelled")

\* Mutant: the status write does not increment the version.
WriteStatusUnversioned(w) ==
    /\ req[w].pc = "set_status"
    /\ LET r == req[w].r IN res' = [res EXCEPT ![r].status = req[w].target]
    /\ MarkOvertaken(w)
    /\ Finish(w)
    /\ UNCHANGED <<room, checkIns, checkOuts, invoiced, tasks>>

WriteStatus(w) ==
    /\ req[w].pc = "set_status"
    /\ LET r == req[w].r IN res' = [res EXCEPT ![r] = Written(res[r], req[w].target, res[r])]
    /\ MarkOvertaken(w)
    /\ Finish(w)
    /\ UNCHANGED <<room, checkIns, checkOuts, invoiced, tasks>>

-----------------------------------------------------------------------------
(* checkIn *)

\* Mutant: anything that is not pending is taken for confirmed.
ReadForCheckInAnyStatus(w, r) ==
    /\ Editable(r)
    /\ Await(w, [pc |-> IF res[r].status = "pending" THEN "confirm" ELSE "admit",
                 r |-> r, seen |-> res[r]])
    /\ UNCHANGED <<tables, overtaken>>

ReadForCheckIn(w, r) ==
    /\ Editable(r)
    /\ res[r].status \in {"pending", "confirmed"}
    /\ Await(w, [pc |-> IF res[r].status = "pending" THEN "confirm" ELSE "admit",
                 r |-> r, seen |-> res[r]])
    /\ UNCHANGED <<tables, overtaken>>

\* A pending reservation is confirmed first, by id alone and outside the transaction.
\* The version it returns is the one the transaction will require; the other fields
\* are still those of the first read.
ConfirmFirst(w) ==
    /\ req[w].pc = "confirm"
    /\ LET r == req[w].r
       IN /\ res' = [res EXCEPT ![r] = Written(res[r], "confirmed", res[r])]
          /\ req' = [req EXCEPT ![w] =
                        [pc |-> "admit", r |-> r,
                         seen |-> Written(res[r], "confirmed", req[w].seen)]]
    /\ MarkOvertaken(w)
    /\ UNCHANGED <<room, checkIns, checkOuts, invoiced, tasks>>

\* Mutant: the desk relies on the booking to have made the invoice.
AdmitUninvoiced(w) ==
    /\ req[w].pc = "admit"
    /\ Unchanged(w) /\ req[w].r \notin checkIns
    /\ LET r == req[w].r
       IN /\ res' = [res EXCEPT ![r] = Written(res[r], "checked_in", res[r])]
          /\ checkIns' = checkIns \cup {r}
    /\ Finish(w)
    /\ UNCHANGED <<room, checkOuts, invoiced, tasks, overtaken>>

\* The transaction commits as a whole, or the version or the unique key rejects it.
Admit(w) ==
    /\ req[w].pc = "admit"
    /\ LET r == req[w].r
           seen == req[w].seen
       IN IF Unchanged(w) /\ r \notin checkIns
          THEN /\ res' = [res EXCEPT ![r] = Written(res[r], "checked_in", res[r])]
               /\ room' = [room EXCEPT ![seen.room] =
                              [status |-> "occupied", cleaning |-> room[seen.room].cleaning]]
               /\ checkIns' = checkIns \cup {r}
               /\ invoiced' = invoiced \cup {r}
          ELSE UNCHANGED <<res, room, checkIns, invoiced>>
    /\ Finish(w)
    /\ UNCHANGED <<checkOuts, tasks, overtaken>>

-----------------------------------------------------------------------------
(* checkOut *)

ReadForCheckOut(w, r) ==
    /\ Editable(r)
    /\ res[r].status = "checked_in"
    /\ Await(w, [pc |-> "release", r |-> r, seen |-> res[r]])
    /\ UNCHANGED <<tables, overtaken>>

\* Mutant: the cleaning task is created outside the transaction.
ReleaseTaskApart(w) ==
    /\ req[w].pc = "release"
    /\ LET r == req[w].r
           seen == req[w].seen
       IN /\ IF Unchanged(w) /\ r \notin checkOuts
             THEN /\ res' = [res EXCEPT ![r] = Written(res[r], "checked_out", res[r])]
                  /\ checkOuts' = checkOuts \cup {r}
             ELSE UNCHANGED <<res, checkOuts>>
          /\ tasks' = Append(tasks, TaskFor(r, seen.room, "desk"))
    /\ Finish(w)
    /\ UNCHANGED <<room, checkIns, invoiced, overtaken>>

Release(w) ==
    /\ req[w].pc = "release"
    /\ LET r == req[w].r
           seen == req[w].seen
       IN IF Unchanged(w) /\ r \notin checkOuts
          THEN /\ res' = [res EXCEPT ![r] = Written(res[r], "checked_out", res[r])]
               /\ room' = [room EXCEPT ![seen.room] = [status |-> "available", cleaning |-> "dirty"]]
               /\ checkOuts' = checkOuts \cup {r}
               /\ tasks' = Append(tasks, TaskFor(r, seen.room, "desk"))
          ELSE UNCHANGED <<res, room, checkOuts, tasks>>
    /\ Finish(w)
    /\ UNCHANGED <<checkIns, invoiced, overtaken>>

-----------------------------------------------------------------------------
(* HousekeepingService.createTask *)

\* A manager names any room and any reservation; the room is read, and nothing of it used.
CreateTask(r, m) ==
    /\ Cardinality(TasksBy("manager")) < MaxTasks
    /\ tasks' = Append(tasks, TaskFor(r, m, "manager"))
    /\ UNCHANGED <<res, room, checkIns, checkOuts, invoiced, req, overtaken>>

-----------------------------------------------------------------------------
\* Any await may throw and the process may die: what was committed stays, an open
\* transaction is rolled back, and the request is gone.
Abandon(w) ==
    /\ req[w] # Idle
    /\ Finish(w)
    /\ UNCHANGED <<tables, overtaken>>

Book(w) ==
    \/ \E stay \in Stay, origin \in {"staff", "website"} : FindFree(w, stay, origin)
    \/ \E r \in Reservation :
        \/ Insert(w, r)
        \/ \E stay \in Stay : ReadForMove(w, r, stay)
        \/ ReadForDetails(w, r)
    \/ Recheck(w)
    \/ Rewrite(w)
    \/ WriteDetails(w)

Serve(w) ==
    \/ \E r \in Reservation :
        \/ \E target \in Status : ReadForStatus(w, r, target)
        \/ ReadForCancel(w, r)
        \/ ReadForCheckIn(w, r)
        \/ ReadForCheckOut(w, r)
    \/ WriteStatus(w)
    \/ ConfirmFirst(w)
    \/ Admit(w)
    \/ Release(w)

Next ==
    \/ \E w \in Bookers : Book(w)
    \/ \E w \in Clerks : Serve(w)
    \/ \E w \in Slots : Abandon(w)
    \/ \E r \in Reservation, m \in Room : CreateTask(r, m)

Spec == Init /\ [][Next]_vars

-----------------------------------------------------------------------------
(* Properties that hold however many requests are in flight *)

Coherent(w) ==
    req[w].pc \in {"recheck", "rewrite", "set_status", "confirm", "admit", "release"} =>
        LET seen == req[w].seen
            row == res[req[w].r]
        IN /\ row # NoRow
           /\ seen.version <= row.version
           /\ seen.version = row.version =>
                /\ seen.status = row.status
                /\ req[w].pc # "admit" => seen = row

(***************************************************************************)
(* The version column works as an optimistic lock: as long as the version  *)
(* a request read is still the row's, the status it read is too, and so is *)
(* the whole row, except that a check-in that had to confirm the           *)
(* reservation first has the new version with the older room and dates.    *)
(***************************************************************************)
SnapshotCoherent == \A w \in Slots : Coherent(w)

(***************************************************************************)
(* A check-in is recorded only for a reservation that is confirmed at that *)
(* instant, and a check-out only for one that is checked in; the room the  *)
(* check-out frees and sends to cleaning is the one the reservation is in. *)
(***************************************************************************)
DeskActsOnCurrentRow ==
    [][\A r \in Reservation :
         /\ r \in checkIns' \ checkIns => res[r].status = "confirmed"
         /\ r \in checkOuts' \ checkOuts =>
                /\ res[r].status = "checked_in"
                /\ room'[res[r].room] = [status |-> "available", cleaning |-> "dirty"]
                /\ tasks' = Append(tasks, TaskFor(r, res[r].room, "desk"))]_vars

(***************************************************************************)
(* A reservation that has ended is never moved: update refuses a terminal  *)
(* status, and one that ends while the update is in flight is left alone.  *)
(***************************************************************************)
EndedStaysPut ==
    [][\A r \in Reservation :
         res[r].status \in Terminal =>
            <<res[r].room, res[r].from, res[r].to>> = <<res'[r].room, res'[r].from, res'[r].to>>]_vars

(***************************************************************************)
(* However often a check-out is repeated or raced, each recorded check-out *)
(* has exactly one cleaning task of its own, and there is no other one;    *)
(* what a manager creates for the same reservation comes on top of it.     *)
(***************************************************************************)
OneTaskPerCheckOut ==
    /\ checkOuts = {tasks[i].reservation : i \in TasksBy("desk")}
    /\ \A i, j \in TasksBy("desk") : tasks[i].reservation = tasks[j].reservation => i = j

(***************************************************************************)
(* A guest admitted at the desk has an invoice, whether the staff or the   *)
(* public site booked the stay: the desk's check-in adds a missing one.    *)
(***************************************************************************)
AdmittedAreInvoiced == checkIns \subseteq invoiced

(***************************************************************************)
(* Every status change follows VALID_TRANSITIONS, however many requests    *)
(* are in flight, but for a reservation that was overtaken: updateStatus,  *)
(* cancel and the check-in's confirmation write by id alone what they      *)
(* validated on an earlier row.  Nothing else leaves the lifecycle; a      *)
(* check-in or check-out has the version to tell.                          *)
(***************************************************************************)
StatusLifecycle ==
    [][\A r \in Reservation \ overtaken' :
         res[r] # NoRow /\ res'[r].status # res[r].status =>
            <<res[r].status, res'[r].status>> \in ValidTransitions]_vars

(***************************************************************************)
(* A guest with a check-in record is in the house or has left it: unless   *)
(* it was overtaken, the reservation never returns to a status it could be *)
(* admitted from, where the unique record would refuse it forever.         *)
(***************************************************************************)
AdmittedOnce ==
    \A r \in checkIns \ overtaken : res[r].status \in {"checked_in", "checked_out", "no_show"}

-----------------------------------------------------------------------------
(* Properties that need one booker and one clerk *)

(***************************************************************************)
(* No two reservations that hold a room share a night.  It needs one       *)
(* booker, for two both find a room free, and one clerk, for a check-in in *)
(* flight revives a reservation that is cancelled and its nights resold.   *)
(***************************************************************************)
NoOverlap ==
    \A r, s \in Reservation :
        r # s /\ Holds(res[r]) /\ Holds(res[s]) => ~Overlaps(res[r], res[s])

\* The book of reservations as the API shows it: without versions.
Page(row) ==
    IF row = NoRow THEN NoRow
    ELSE [status |-> row.status, room |-> row.room, from |-> row.from, to |-> row.to]

(***************************************************************************)
(* With one booker and one clerk the desk implements the book of           *)
(* reservations: every commit is one atomic entry, move or advance.        *)
(***************************************************************************)
Ledger == INSTANCE ReservationBook WITH book <- [r \in Reservation |-> Page(res[r])]
ImplementsBook == Ledger!Spec

=============================================================================
