---------------------------- MODULE Housekeeping ----------------------------
(***************************************************************************)
(* The rooms and the cleaning tasks.  Three services write the operational *)
(* status of a room: rooms (updateStatus), the front desk (checkIn,        *)
(* checkOut) and housekeeping (completeTask).  Each reads what allows the  *)
(* change, and commits in a later step; other requests commit in between.  *)
(* Tasks and rooms have no version: they are written by id.                *)
(*                                                                         *)
(* A room's cleaning status, which is written along and guards nothing, is *)
(* left out.  Of the front desk only what a room sees is here: a guest is  *)
(* due, in the house, or gone.                                             *)
(***************************************************************************)
EXTENDS Naturals

CONSTANTS
    Room, Guest,
    Task,        \* ids a cleaning task may get
    Slots,       \* slots for in-flight requests to any of the services
    MaxVersion   \* bound: no check-in, check-out or move starts on a row with this version

ASSUME MaxVersionAssumption == MaxVersion \in Nat

VARIABLES
    room,      \* room[m]: the operational status of room m
    stay,      \* stay[g]: where guest g's reservation is, and whether they are in
    checkIns,  \* check_ins: the guests whose reservation has a row (unique key)
    tasks,     \* tasks[t] is a cleaning task, or NoTask
    req,       \* req[w] is what slot w remembers across its awaits
    overtaken  \* history: tasks and rooms written by a request that had checked
               \* something else than what it found when it wrote

vars == <<room, stay, checkIns, tasks, req, overtaken>>

-----------------------------------------------------------------------------
(* Types *)

RoomStatus == {"available", "occupied", "maintenance", "out_of_order"}

StayRow == [at : Room, status : {"pending", "confirmed", "in_house", "left"}, version : Nat]

TaskStatus == {"pending", "in_progress", "completed", "skipped"}

\* startedAt and completedAt are kept as whether they are set.
TaskRow == [room : Room, status : TaskStatus, startedAt : BOOLEAN, completedAt : BOOLEAN]
NoTask == [status |-> "absent"]

Idle == [pc |-> "idle"]

Request ==
    {Idle}
    \cup [pc : {"set_room"}, m : Room, status : RoomStatus, inHouse : BOOLEAN]
    \cup [pc : {"start", "complete", "skip"}, t : Task, seen : TaskStatus]
    \cup [pc : {"confirm"}, g : Guest, m : Room]
    \cup [pc : {"admit", "release"}, g : Guest, m : Room, version : Nat]

TypeOK ==
    /\ room \in [Room -> RoomStatus]
    /\ stay \in [Guest -> StayRow]
    /\ checkIns \subseteq Guest
    /\ tasks \in [Task -> TaskRow \cup {NoTask}]
    /\ req \in [Slots -> Request]
    /\ overtaken \subseteq Task \cup Room

\* The guests' reservations are in any rooms; the public site's are confirmed already.
Init ==
    /\ room = [m \in Room |-> "available"]
    /\ stay \in [Guest -> [at : Room, status : {"pending", "confirmed"}, version : {0}]]
    /\ checkIns = {}
    /\ tasks = [t \in Task |-> NoTask]
    /\ req = [w \in Slots |-> Idle]
    /\ overtaken = {}

-----------------------------------------------------------------------------
(* Helpers *)

Await(w, memory) == req[w] = Idle /\ req' = [req EXCEPT ![w] = memory]

Finish(w) == req' = [req EXCEPT ![w] = Idle]

InHouse(m) == \E g \in Guest : stay[g].status = "in_house" /\ stay[g].at = m

NewTask(m) == [room |-> m, status |-> "pending", startedAt |-> FALSE, completedAt |-> FALSE]

\* Every UPDATE of a reservation increments its version.
Written(row, status, m) == [at |-> m, status |-> status, version |-> row.version + 1]

\* What the request checked is what it finds, or what it writes is marked.
Mark(what, asChecked) == overtaken' = IF asChecked THEN overtaken ELSE overtaken \cup {what}

-----------------------------------------------------------------------------
(* The rooms service *)

\* Mutant: a room may be released whoever is in it.
ReadForAnyRoomStatus(w, m, status) ==
    /\ Await(w, [pc |-> "set_room", m |-> m, status |-> status, inHouse |-> InHouse(m)])
    /\ UNCHANGED <<room, stay, checkIns, tasks, overtaken>>

\* updateStatus: a room is not released while a guest is checked in.
ReadForRoomStatus(w, m, status) ==
    /\ status = "available" => ~InHouse(m)
    /\ Await(w, [pc |-> "set_room", m |-> m, status |-> status, inHouse |-> InHouse(m)])
    /\ UNCHANGED <<room, stay, checkIns, tasks, overtaken>>

WriteRoomStatus(w) ==
    /\ req[w].pc = "set_room"
    /\ LET m == req[w].m
       IN /\ room' = [room EXCEPT ![m] = req[w].status]
          /\ Mark(m, req[w].status = "available" => req[w].inHouse = InHouse(m))
    /\ Finish(w)
    /\ UNCHANGED <<stay, checkIns, tasks>>

-----------------------------------------------------------------------------
(* The housekeeping service: tasks are read, checked, and written by id alone *)

CreateTask(t, m) ==
    /\ tasks[t] = NoTask
    /\ tasks' = [tasks EXCEPT ![t] = NewTask(m)]
    /\ UNCHANGED <<room, stay, checkIns, req, overtaken>>

ReadTask(w, t, pc) ==
    /\ Await(w, [pc |-> pc, t |-> t, seen |-> tasks[t].status])
    /\ UNCHANGED <<room, stay, checkIns, tasks, overtaken>>

ReadForStart(w, t) == tasks[t].status = "pending" /\ ReadTask(w, t, "start")

Start(w) ==
    /\ req[w].pc = "start"
    /\ LET t == req[w].t
       IN /\ tasks' = [tasks EXCEPT ![t] =
                          [room |-> tasks[t].room, status |-> "in_progress",
                           startedAt |-> TRUE, completedAt |-> tasks[t].completedAt]]
          /\ Mark(t, req[w].seen = tasks[t].status)
    /\ Finish(w)
    /\ UNCHANGED <<room, stay, checkIns>>

\* Mutant: a task may be completed before it was started.
ReadForCompleteEarly(w, t) ==
    tasks[t].status \in {"pending", "in_progress"} /\ ReadTask(w, t, "complete")

ReadForComplete(w, t) == tasks[t].status = "in_progress" /\ ReadTask(w, t, "complete")

\* Whatever the room was, it is now available.
Complete(w) ==
    /\ req[w].pc = "complete"
    /\ LET t == req[w].t
           m == tasks[t].room
       IN /\ tasks' = [tasks EXCEPT ![t] =
                          [room |-> m, status |-> "completed", startedAt |-> tasks[t].startedAt,
                           completedAt |-> TRUE]]
          /\ room' = [room EXCEPT ![m] = "available"]
          /\ Mark(t, req[w].seen = tasks[t].status)
    /\ Finish(w)
    /\ UNCHANGED <<stay, checkIns>>

\* Mutant: a completed task may be skipped.
ReadForSkipLate(w, t) ==
    tasks[t].status \in {"pending", "in_progress", "completed"} /\ ReadTask(w, t, "skip")

ReadForSkip(w, t) == tasks[t].status \in {"pending", "in_progress"} /\ ReadTask(w, t, "skip")

Skip(w) ==
    /\ req[w].pc = "skip"
    /\ LET t == req[w].t
       IN /\ tasks' = [tasks EXCEPT ![t] =
                          [room |-> tasks[t].room, status |-> "skipped",
                           startedAt |-> tasks[t].startedAt, completedAt |-> tasks[t].completedAt]]
          /\ Mark(t, req[w].seen = tasks[t].status)
    /\ Finish(w)
    /\ UNCHANGED <<room, stay, checkIns>>

-----------------------------------------------------------------------------
(* The front desk, as the rooms see it *)

Editable(g) == stay[g].version < MaxVersion

ReadForAdmit(w, g) ==
    /\ Editable(g)
    /\ LET m == stay[g].at
       IN \/ /\ stay[g].status = "pending"
             /\ Await(w, [pc |-> "confirm", g |-> g, m |-> m])
          \/ /\ stay[g].status = "confirmed"
             /\ Await(w, [pc |-> "admit", g |-> g, m |-> m, version |-> stay[g].version])
    /\ UNCHANGED <<room, stay, checkIns, tasks, overtaken>>

\* A pending reservation is confirmed first, by id alone.  The version that comes back
\* is the one the check-in will require; the room is still that of the first read.
Confirm(w) ==
    /\ req[w].pc = "confirm"
    /\ LET g == req[w].g
           row == Written(stay[g], "confirmed", stay[g].at)
       IN /\ stay' = [stay EXCEPT ![g] = row]
          /\ req' = [req EXCEPT ![w] =
                        [pc |-> "admit", g |-> g, m |-> req[w].m, version |-> row.version]]
    /\ UNCHANGED <<room, checkIns, tasks, overtaken>>

\* The version or the unique key of check_ins rejects the commit.
Admit(w) ==
    /\ req[w].pc = "admit"
    /\ LET g == req[w].g
           m == req[w].m
       IN IF stay[g].version = req[w].version /\ g \notin checkIns
          THEN /\ stay' = [stay EXCEPT ![g] = Written(stay[g], "in_house", stay[g].at)]
               /\ room' = [room EXCEPT ![m] = "occupied"]
               /\ checkIns' = checkIns \cup {g}
          ELSE UNCHANGED <<room, stay, checkIns>>
    /\ Finish(w)
    /\ UNCHANGED <<tasks, overtaken>>

ReadForRelease(w, g) ==
    /\ Editable(g)
    /\ stay[g].status = "in_house"
    /\ Await(w, [pc |-> "release", g |-> g, m |-> stay[g].at, version |-> stay[g].version])
    /\ UNCHANGED <<room, stay, checkIns, tasks, overtaken>>

Release(w, t) ==
    /\ req[w].pc = "release"
    /\ tasks[t] = NoTask
    /\ LET g == req[w].g
           m == req[w].m
       IN IF stay[g].version = req[w].version
          THEN /\ stay' = [stay EXCEPT ![g] = Written(stay[g], "left", m)]
               /\ room' = [room EXCEPT ![m] = "available"]
               /\ tasks' = [tasks EXCEPT ![t] = NewTask(m)]
          ELSE UNCHANGED <<room, stay, tasks>>
    /\ Finish(w)
    /\ UNCHANGED <<checkIns, overtaken>>

\* ReservationsService.update moves the reservation of a guest who is due, or in the
\* house, to another room, and writes neither room.  Its version makes it one step.
MoveStay(g, m) ==
    /\ Editable(g)
    /\ stay[g].status # "left"
    /\ stay[g].at # m
    /\ stay' = [stay EXCEPT ![g] = Written(stay[g], stay[g].status, m)]
    /\ UNCHANGED <<room, checkIns, tasks, req, overtaken>>

-----------------------------------------------------------------------------
\* An await of the request throws before its commit.
Abandon(w) ==
    /\ req[w] # Idle
    /\ Finish(w)
    /\ UNCHANGED <<room, stay, checkIns, tasks, overtaken>>

RoomsStep(w) ==
    \/ \E m \in Room, status \in RoomStatus : ReadForRoomStatus(w, m, status)
    \/ WriteRoomStatus(w)

TaskStep(w) ==
    \/ \E t \in Task : ReadForStart(w, t) \/ ReadForComplete(w, t) \/ ReadForSkip(w, t)
    \/ Start(w)
    \/ Complete(w)
    \/ Skip(w)

DeskStep(w) ==
    \/ \E g \in Guest : ReadForAdmit(w, g) \/ ReadForRelease(w, g)
    \/ Confirm(w)
    \/ Admit(w)
    \/ \E t \in Task : Release(w, t)

Next ==
    \/ \E w \in Slots : RoomsStep(w) \/ TaskStep(w) \/ DeskStep(w) \/ Abandon(w)
    \/ \E t \in Task, m \in Room : CreateTask(t, m)
    \/ \E g \in Guest, m \in Room : MoveStay(g, m)

Spec == Init /\ [][Next]_vars

-----------------------------------------------------------------------------
(* Properties, all for any number of requests in flight *)

(***************************************************************************)
(* No race of start, complete and skip, all written by id alone, yields a  *)
(* task that was completed but never started, or one in progress or        *)
(* completed without the time of it.                                       *)
(***************************************************************************)
CompletedWasStarted ==
    \A t \in Task : tasks[t] # NoTask =>
        /\ tasks[t].completedAt => tasks[t].startedAt
        /\ tasks[t].status = "in_progress" => tasks[t].startedAt
        /\ tasks[t].status = "completed" => tasks[t].completedAt

Lifecycle ==
    { <<"pending", "in_progress">>, <<"in_progress", "completed">>,
      <<"pending", "skipped">>, <<"in_progress", "skipped">> }

(***************************************************************************)
(* A cleaning task goes from pending to in progress to completed, or is    *)
(* skipped on the way: PHASE-09's task lifecycle.  Nothing takes a task    *)
(* out of it but a start, complete or skip that was overtaken: one that    *)
(* writes by id what it had validated on another status.                   *)
(***************************************************************************)
TaskLifecycle ==
    [][\A t \in Task \ overtaken' :
         tasks[t] # NoTask /\ tasks'[t].status # tasks[t].status =>
            <<tasks[t].status, tasks'[t].status>> \in Lifecycle]_vars

(***************************************************************************)
(* A room becomes available with a guest in it only by three causes: a     *)
(* cleaning task of it is completed, another guest checks out of it, or    *)
(* updateStatus writes after its check of who is in was overtaken.  No     *)
(* order of check-ins, moves and requests to rooms adds a fourth.          *)
(***************************************************************************)
ReleasedTasks(m) ==
    {t \in Task : /\ tasks[t] # NoTask /\ tasks[t].room = m
                  /\ \/ t \in overtaken'
                     \/ tasks[t].status = "in_progress" /\ tasks'[t].status = "completed"}

GuestKeepsRoom ==
    [][\A m \in Room \ overtaken' :
         InHouse(m)' /\ room[m] # "available" /\ room'[m] = "available" =>
            \/ ReleasedTasks(m) # {}
            \/ \E g \in Guest : /\ stay[g].at = m /\ stay[g].status = "in_house"
                                /\ stay'[g].status = "left"]_vars

=============================================================================
